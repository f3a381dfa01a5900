----------------------------- MODULE FileLedger -----------------------------
(***************************************************************************)
(* What stored files promise, without pipes, backends, rows and blobs: an  *)
(* upload becomes a file in one step or not at all, under an id that was   *)
(* never used before; once it is answered, its content stays whole until   *)
(* its owner asks for its deletion or is gone.                             *)
(***************************************************************************)
EXTENDS Naturals

CONSTANTS Files, Users, Ups, NoFile, NoUser, Chunks

VARIABLES
  members,  \* people who have an account
  file,     \* what there is under each id
  coming,   \* the uploads under way
  begun,    \* ids ever used
  answered, \* uploads whose owner was told they are stored
  wanted,   \* files whose owner asked for their deletion
  shared    \* files that can be reached by a share

vars == <<members, file, coming, begun, answered, wanted, shared>>

\* holds: {n} when the content is there, n chunks of it, {} when it is lost.
Nothing == [owner |-> NoUser, size |-> 0, holds |-> {}]
Whole(u, n) == [owner |-> u, size |-> n, holds |-> {n}]
NotComing == [file |-> NoFile, user |-> NoUser]

Init ==
  /\ members = Users
  /\ file = [f \in Files |-> Nothing]
  /\ coming = [w \in Ups |-> NotComing]
  /\ begun = {} /\ answered = {} /\ wanted = {} /\ shared = {}

Promised(f) == f \in answered \ wanted

-----------------------------------------------------------------------------
(* Uploads.                                                                *)

Begin(w, u, f) ==
  /\ coming[w] = NotComing
  /\ f \notin begun /\ begun' = begun \cup {f}
  /\ coming' = [coming EXCEPT ![w] = [file |-> f, user |-> u]]
  /\ UNCHANGED <<members, file, answered, wanted, shared>>

\* Nothing is left of it that anybody could see.
GiveUp(w) ==
  /\ coming' = [coming EXCEPT ![w] = NotComing]
  /\ UNCHANGED <<members, file, begun, answered, wanted, shared>>

Stored(w, n) ==
  /\ coming[w].user \in members
  /\ file[coming[w].file] = Nothing
  /\ file' = [file EXCEPT ![coming[w].file] = Whole(coming[w].user, n)]
  /\ coming' = [coming EXCEPT ![w] = NotComing]

Store(w, n) ==
  /\ Stored(w, n)
  /\ answered' = answered \cup {coming[w].file}
  /\ UNCHANGED <<members, begun, wanted, shared>>

\* The owner is told that it failed, yet the file is there.
StoreUnanswered(w, n) ==
  /\ Stored(w, n)
  /\ UNCHANGED <<members, begun, answered, wanted, shared>>

-----------------------------------------------------------------------------
(* Files.                                                                  *)

LoseContent(f) ==
  /\ file[f] # Nothing /\ ~Promised(f)
  /\ file' = [file EXCEPT ![f].holds = {}]
  /\ UNCHANGED <<members, coming, begun, answered, wanted, shared>>

AskDeletion(f) ==
  /\ file[f] # Nothing
  /\ wanted' = wanted \cup {f}
  /\ UNCHANGED <<members, file, coming, begun, answered, shared>>

Remove(f) ==
  /\ f \in wanted
  /\ file' = [file EXCEPT ![f] = Nothing]
  /\ shared' = shared \ {f}
  /\ UNCHANGED <<members, coming, begun, answered, wanted>>

Share(f) ==
  /\ file[f] # Nothing
  /\ shared' = shared \cup {f}
  /\ UNCHANGED <<members, file, coming, begun, answered, wanted>>

CloseAccount(u) ==
  /\ u \in members /\ members' = members \ {u}
  /\ file' = [f \in Files |-> IF file[f].owner = u THEN Nothing ELSE file[f]]
  /\ shared' = {f \in shared : file[f].owner # u}
  /\ UNCHANGED <<coming, begun, answered, wanted>>

Restart ==
  /\ coming' = [w \in Ups |-> NotComing]
  /\ UNCHANGED <<members, file, begun, answered, wanted, shared>>

Next ==
  \/ \E w \in Ups : \/ \E u \in Users, f \in Files : Begin(w, u, f)
                    \/ GiveUp(w)
                    \/ \E n \in 0 .. Chunks : Store(w, n) \/ StoreUnanswered(w, n)
  \/ \E f \in Files : LoseContent(f) \/ AskDeletion(f) \/ Remove(f) \/ Share(f)
  \/ \E u \in Users : CloseAccount(u)
  \/ Restart

Spec == Init /\ [][Next]_vars
=============================================================================
