----------------------------- MODULE Directory -----------------------------
(***************************************************************************)
(* What accounts promise, without links to providers, look-ups that fail   *)
(* and insertions that are refused: an address has one holder at a time,   *)
(* an id one account for ever, and an identity is let in to whoever holds  *)
(* its address at the instant it is recognised.                            *)
(***************************************************************************)

CONSTANTS
  Users, Identities, Addresses, Reqs, NoUser, NoIdentity,
  SpellingsOf  \* the addresses that are an identity's, as its provider or the
               \* look-up writes it

VARIABLES
  holders,  \* the account with each address, as a set of one at most
  enrolled, \* ids of accounts that were ever made
  guest,    \* whom a request was recognised as, and for which account
  admitted  \* the accounts an identity was let in to

vars == <<holders, enrolled, guest, admitted>>

Outside == [who |-> NoIdentity, user |-> NoUser]
Recognised(i, u) == [who |-> i, user |-> u]

Init ==
  /\ holders = [e \in Addresses |-> {}]
  /\ enrolled = {}
  /\ guest = [r \in Reqs |-> Outside]
  /\ admitted = [i \in Identities |-> {}]

Enrols(e, u) ==
  /\ u \notin enrolled /\ enrolled' = enrolled \cup {u}
  /\ holders[e] = {} /\ holders' = [holders EXCEPT ![e] = {u}]

\* By a registration, at the start of the server, or by a first login that comes
\* to nothing afterwards; or by one that goes on.
Enrol(e, u) == Enrols(e, u) /\ UNCHANGED <<guest, admitted>>

EnrolAndEnter(r, i, u) ==
  /\ \E e \in SpellingsOf[i] : Enrols(e, u)
  /\ guest[r] = Outside
  /\ guest' = [guest EXCEPT ![r] = Recognised(i, u)]
  /\ UNCHANGED admitted

Enter(r, i, u) ==
  /\ guest[r] = Outside
  /\ guest' = [guest EXCEPT ![r] = Recognised(i, u)]
  /\ \E e \in SpellingsOf[i] : u \in holders[e]
  /\ UNCHANGED <<holders, enrolled, admitted>>

Admit(r) ==
  /\ guest[r] # Outside
  /\ admitted' = [admitted EXCEPT ![guest[r].who] = @ \cup {guest[r].user}]
  /\ guest' = [guest EXCEPT ![r] = Outside]
  /\ UNCHANGED <<holders, enrolled>>

Close(u) ==
  /\ holders' = [e \in Addresses |-> holders[e] \ {u}]
  /\ UNCHANGED <<enrolled, guest, admitted>>

Stop ==
  /\ guest' = [r \in Reqs |-> Outside]
  /\ UNCHANGED <<holders, enrolled, admitted>>

Next ==
  \/ \E u \in Users : Close(u)
  \/ \E u \in Users, e \in Addresses : Enrol(e, u)
  \/ \E r \in Reqs : \/ Admit(r)
                     \/ \E i \in Identities, u \in Users :
                          EnrolAndEnter(r, i, u) \/ Enter(r, i, u)
  \/ Stop

Spec == Init /\ [][Next]_vars
=============================================================================
