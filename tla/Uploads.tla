------------------------------ MODULE Uploads ------------------------------
(***************************************************************************)
(* Stored files: FileHandler.Upload with the goroutine that copies the     *)
(* part into a pipe, the two storage backends, the tables files and shares *)
(* and the handlers that delete and share.                                 *)
(*                                                                         *)
(* A file id stands for the record, its path and its blob: all three are   *)
(* drawn anew for every upload.  Bodies are counted in buffers of 32 KiB.  *)
(* The progress entry of an upload is never removed; as upload ids do not  *)
(* repeat, only the latest entry of a slot of Ups is kept here.            *)
(***************************************************************************)
EXTENDS Naturals, FiniteSets

CONSTANTS
  Files,      \* ids of files
  Users,      \* ids of accounts
  Ups,        \* uploads in flight together
  Ops,        \* other requests in flight together
  NoFile, NoUser,
  Chunks,     \* length of a body
  MaxFaults   \* bound on failures of the disk, the database and the process

ASSUME UploadsNulls == NoFile \notin Files /\ NoUser \notin Users
ASSUME UploadsBounds == Chunks \in Nat /\ MaxFaults \in Nat

VARIABLES
  backend, \* the S3Client chosen when the server starts: "local" or "minio"
  users,   \* accounts that exist
  rows,    \* files table
  shares,  \* files a row of the shares table points to
  blobs,   \* paths that exist in the storage
  size,    \* how much each blob holds
  drawn,   \* file ids drawn
  up,      \* uploads, each with its goroutine and progress entry
  op,      \* deletions and shares in progress
  acked,   \* history: uploads answered 201
  wanted,  \* history: files their owner asked to delete
  faults

database == <<users, rows, shares>>
storage  == <<backend, blobs, size>>
history  == <<acked, wanted>>
vars     == <<database, storage, drawn, up, op, history, faults>>

-----------------------------------------------------------------------------
(* Records.                                                                *)

Length == 0 .. Chunks

\* owner = NoUser: no row.
FileRow == [owner : Users \cup {NoUser}, size : Length]
NoRow == [owner |-> NoUser, size |-> 0]

\* The handler: in Save; about to mark the upload completed; before
\* CreateFile; before the Delete that undoes the upload.  copier: the
\* goroutine reads the part, writes to the pipe or counts.  read, copied, done:
\* chunks it took from the body, chunks Save took from the pipe, BytesDone.
\* gone: the client's connection broke, so the request's context is cancelled.
Upload == [pc : {"idle", "save", "mark", "record", "undo"},
           copier : {"off", "read", "write", "count"},
           file : Files \cup {NoFile}, user : Users \cup {NoUser}, gone : BOOLEAN,
           read : Length, copied : Length, done : Length, completed : BOOLEAN]
NoUpload == [pc |-> "idle", copier |-> "off", file |-> NoFile, user |-> NoUser,
             gone |-> FALSE, read |-> 0, copied |-> 0, done |-> 0, completed |-> FALSE]
NewUpload(u, f) ==
  [pc |-> "save", copier |-> "read", file |-> f, user |-> u,
   gone |-> FALSE, read |-> 0, copied |-> 0, done |-> 0, completed |-> FALSE]

Op == [pc : {"idle", "blob", "row", "share"}, file : Files \cup {NoFile}]
NoOp == [pc |-> "idle", file |-> NoFile]

TypeOK ==
  /\ backend \in {"local", "minio"}
  /\ users \in SUBSET Users
  /\ rows \in [Files -> FileRow]
  /\ shares \in SUBSET Files
  /\ blobs \in SUBSET Files
  /\ size \in [Files -> Length]
  /\ drawn \in SUBSET Files
  /\ up \in [Ups -> Upload]
  /\ op \in [Ops -> Op]
  /\ acked \in SUBSET Files
  /\ wanted \in SUBSET Files
  /\ faults \in 0 .. MaxFaults

Init ==
  /\ backend \in {"local", "minio"}
  /\ users = Users
  /\ rows = [f \in Files |-> NoRow]
  /\ shares = {}
  /\ blobs = {}
  /\ size = [f \in Files |-> 0]
  /\ drawn = {}
  /\ up = [w \in Ups |-> NoUpload]
  /\ op = [o \in Ops |-> NoOp]
  /\ acked = {}
  /\ wanted = {}
  /\ faults = 0

-----------------------------------------------------------------------------
(* Helpers.                                                                *)

HasRow(f) == rows[f].owner # NoUser

Fault == faults < MaxFaults /\ faults' = faults + 1

\* S3Client: a local file grows as it is written and has to exist to be
\* removed; an object of MinIO appears when its upload is complete, and
\* removing one that is not there succeeds.
Growing == backend = "local"
CanRemove(f) == backend = "local" => f \in blobs

Ends(w) == up' = [up EXCEPT ![w].pc = "idle"]
Copier(w, next) == up' = [up EXCEPT ![w].copier = next]

-----------------------------------------------------------------------------
(* FileHandler.Upload.                                                     *)

\* Up to the part named "file" with a type that is allowed; a request that is
\* refused before that changes nothing but its progress entry.  The user's
\* token may be good for longer than the account.
UploadArrives(w) ==
  /\ up[w].pc = "idle" /\ up[w].copier = "off"
  /\ \E u \in Users, f \in Files \ drawn :
       /\ drawn' = drawn \cup {f}
       /\ up' = [up EXCEPT ![w] = NewUpload(u, f)]
  /\ UNCHANGED <<database, storage, op, history, faults>>

\* The connection breaks, or ReadTimeout does: net/http cancels the context.
ClientLeaves(w) ==
  /\ up[w].pc \in {"save", "mark", "record"}
  /\ ~up[w].gone
  /\ up' = [up EXCEPT ![w].gone = TRUE]
  /\ UNCHANGED <<database, storage, drawn, op, history, faults>>

\* part.Read: more data; or the end - of the part, of the connection, of the 5
\* GiB that MaxBytesReader lets through - and the pipe is closed all the same.
\* After the handler has returned the body is closed as well.
\* (Mutation: an error that comes with the last bytes is overlooked, and the
\* buffer goes out twice.)
ReadPartAgain(w) ==
  /\ up[w].copier = "read"
  /\ \/ /\ up[w].read <= Chunks
        /\ up' = [up EXCEPT ![w].copier = "write", ![w].read = @ + 1]
     \/ Copier(w, "off")
  /\ UNCHANGED <<database, storage, drawn, op, history, faults>>
ReadPart(w) ==
  /\ up[w].copier = "read"
  /\ \/ /\ up[w].read < Chunks
        /\ up' = [up EXCEPT ![w].copier = "write", ![w].read = @ + 1]
     \/ Copier(w, "off")
  /\ UNCHANGED <<database, storage, drawn, op, history, faults>>

\* pw.Write waits for Save to read; when Save has given up, for ever.
WritePipe(w) ==
  /\ up[w].copier = "write" /\ up[w].pc = "save"
  /\ up' = [up EXCEPT ![w].copier = "count", ![w].copied = @ + 1]
  /\ IF Growing THEN /\ blobs' = blobs \cup {up[w].file}
                     /\ size' = [size EXCEPT ![up[w].file] = up[w].copied + 1]
                ELSE UNCHANGED <<blobs, size>>
  /\ UNCHANGED <<backend, database, drawn, op, history, faults>>

CountBytes(w) ==
  /\ up[w].copier = "count"
  /\ up' = [up EXCEPT ![w].copier = "read", ![w].done = up[w].read]
  /\ UNCHANGED <<database, storage, drawn, op, history, faults>>

SaveDone(w) ==
  /\ blobs' = blobs \cup {up[w].file}
  /\ size' = [size EXCEPT ![up[w].file] = up[w].copied]
  /\ up' = [up EXCEPT ![w].pc = "mark"]
  /\ UNCHANGED <<backend, database, drawn, op, history, faults>>

\* Save returns when the pipe is closed.
\* (Mutations: Save reads as many bytes as the request declared, and is done
\* with them; or waits for them.)
SaveDeclared(w) ==
  /\ up[w].pc = "save"
  /\ up[w].copied = Chunks \/ up[w].copier = "off"
  /\ SaveDone(w)
SaveWhole(w) ==
  /\ up[w].pc = "save" /\ up[w].copier = "off" /\ up[w].copied = Chunks
  /\ SaveDone(w)
Save(w) ==
  /\ up[w].pc = "save" /\ up[w].copier = "off"
  /\ SaveDone(w)

\* 500; what a local file holds already stays.
SaveFails(w) ==
  /\ up[w].pc = "save"
  /\ Fault
  /\ Ends(w)
  /\ UNCHANGED <<database, storage, drawn, op, history>>

MarkCompleted(w) ==
  /\ up[w].pc = "mark"
  /\ up' = [up EXCEPT ![w].pc = "record", ![w].completed = TRUE]
  /\ UNCHANGED <<database, storage, drawn, op, history, faults>>

\* CreateFile: the row, or an error - the context is cancelled, the account is
\* gone (foreign key), or the database fails, with the row written or not.
\* (Mutation: the size is the declared one, not what Save returned.)
RecordDeclared(w) ==
  LET row == [owner |-> up[w].user, size |-> Chunks]
      written == rows' = [rows EXCEPT ![up[w].file] = row]
      possible == ~up[w].gone /\ up[w].user \in users
  IN
  /\ up[w].pc = "record"
  /\ \/ possible /\ written /\ Ends(w)
        /\ acked' = acked \cup {up[w].file} /\ UNCHANGED faults
     \/ ~possible /\ UNCHANGED <<rows, acked, faults>>
        /\ up' = [up EXCEPT ![w].pc = "undo"]
     \/ possible /\ Fault /\ (written \/ UNCHANGED rows) /\ UNCHANGED acked
        /\ up' = [up EXCEPT ![w].pc = "undo"]
  /\ UNCHANGED <<users, shares, storage, drawn, op, wanted>>
CreateFile(w) ==
  LET row == [owner |-> up[w].user, size |-> up[w].copied]
      written == rows' = [rows EXCEPT ![up[w].file] = row]
      possible == ~up[w].gone /\ up[w].user \in users
  IN
  /\ up[w].pc = "record"
  /\ \/ possible /\ written /\ Ends(w)
        /\ acked' = acked \cup {up[w].file} /\ UNCHANGED faults
     \/ ~possible /\ UNCHANGED <<rows, acked, faults>>
        /\ up' = [up EXCEPT ![w].pc = "undo"]
     \/ possible /\ Fault /\ (written \/ UNCHANGED rows) /\ UNCHANGED acked
        /\ up' = [up EXCEPT ![w].pc = "undo"]
  /\ UNCHANGED <<users, shares, storage, drawn, op, wanted>>

\* 500, whether the blob could be removed or not.
UndoSave(w) ==
  /\ up[w].pc = "undo"
  /\ \/ blobs' = blobs \ {up[w].file} /\ UNCHANGED faults
     \/ UNCHANGED blobs /\ Fault
  /\ Ends(w)
  /\ UNCHANGED <<backend, database, size, drawn, op, history>>

UploadStep(w) ==
  \/ ReadPart(w)
  \/ WritePipe(w)
  \/ CountBytes(w)
  \/ Save(w)
  \/ MarkCompleted(w)
  \/ CreateFile(w)
  \/ UndoSave(w)

-----------------------------------------------------------------------------
(* FileHandler.Delete and CreateShare; downloads only read.                *)

\* GetFile, and the file is the caller's; otherwise 404.
FileIsFound(o, f) ==
  /\ op[o].pc = "idle"
  /\ HasRow(f)

DeleteArrives(o, f) ==
  /\ FileIsFound(o, f)
  /\ op' = [op EXCEPT ![o] = [pc |-> "blob", file |-> f]]
  /\ wanted' = wanted \cup {f}
  /\ UNCHANGED <<database, storage, drawn, up, acked, faults>>

\* The blob goes first; an error ends the request with 500.
\* (Mutation: only the record goes.)
ForgetBlob(o) ==
  /\ op[o].pc = "blob"
  /\ rows' = [rows EXCEPT ![op[o].file] = NoRow]
  /\ op' = [op EXCEPT ![o].pc = "row"]
  /\ UNCHANGED <<users, shares, storage, drawn, up, history, faults>>
DeleteBlob(o) ==
  /\ op[o].pc = "blob"
  /\ \/ /\ CanRemove(op[o].file)
        /\ blobs' = blobs \ {op[o].file}
        /\ op' = [op EXCEPT ![o].pc = "row"]
        /\ UNCHANGED faults
     \/ /\ ~CanRemove(op[o].file)
        /\ op' = [op EXCEPT ![o] = NoOp]
        /\ UNCHANGED <<blobs, faults>>
     \/ /\ Fault
        /\ op' = [op EXCEPT ![o] = NoOp]
        /\ UNCHANGED blobs
  /\ UNCHANGED <<backend, database, size, drawn, up, history>>

\* ON DELETE CASCADE takes the shares along.
\* (Mutation: DELETE ... WHERE user_id.)
DeleteOwnersRows(o) ==
  /\ op[o].pc = "row"
  /\ rows' = [f \in Files |-> IF rows[f].owner = rows[op[o].file].owner
                                THEN NoRow ELSE rows[f]]
  /\ shares' = {f \in shares : rows[f].owner # rows[op[o].file].owner}
  /\ op' = [op EXCEPT ![o] = NoOp]
  /\ UNCHANGED <<users, storage, drawn, up, history, faults>>
DeleteRow(o) ==
  /\ op[o].pc = "row"
  /\ \/ /\ UNCHANGED faults \/ Fault
        /\ rows' = [rows EXCEPT ![op[o].file] = NoRow]
        /\ shares' = shares \ {op[o].file}
     \/ /\ Fault
        /\ UNCHANGED <<rows, shares>>
  /\ op' = [op EXCEPT ![o] = NoOp]
  /\ UNCHANGED <<users, storage, drawn, up, history>>

ShareArrives(o, f) ==
  /\ FileIsFound(o, f)
  /\ op' = [op EXCEPT ![o] = [pc |-> "share", file |-> f]]
  /\ UNCHANGED <<database, storage, drawn, up, history, faults>>

\* The foreign key refuses a share of a file deleted meanwhile.
\* (Mutation: no foreign key.)
InsertAnyShare(o) ==
  /\ op[o].pc = "share"
  /\ shares' = shares \cup {op[o].file}
  /\ op' = [op EXCEPT ![o] = NoOp]
  /\ UNCHANGED <<users, rows, storage, drawn, up, history, faults>>
CreateShare(o) ==
  /\ op[o].pc = "share"
  /\ shares' = IF HasRow(op[o].file) THEN shares \cup {op[o].file} ELSE shares
  /\ op' = [op EXCEPT ![o] = NoOp]
  /\ UNCHANGED <<users, rows, storage, drawn, up, history, faults>>

OpStep(o) ==
  \/ DeleteBlob(o)
  \/ DeleteRow(o)
  \/ CreateShare(o)

\* An administrator deletes an account: its rows go, the blobs stay.
DeleteUser(u) ==
  /\ u \in users
  /\ users' = users \ {u}
  /\ rows' = [f \in Files |-> IF rows[f].owner = u THEN NoRow ELSE rows[f]]
  /\ shares' = {f \in shares : rows[f].owner # u}
  /\ UNCHANGED <<storage, drawn, up, op, history, faults>>

-----------------------------------------------------------------------------
\* The process ends and starts anew.
Restart ==
  /\ Fault
  /\ up' = [w \in Ups |-> NoUpload]
  /\ op' = [o \in Ops |-> NoOp]
  /\ UNCHANGED <<database, storage, drawn, history>>

Next ==
  \/ \E w \in Ups : \/ UploadArrives(w)
                    \/ ClientLeaves(w)
                    \/ SaveFails(w)
                    \/ UploadStep(w)
  \/ \E o \in Ops : \/ \E f \in Files : DeleteArrives(o, f) \/ ShareArrives(o, f)
                    \/ OpStep(o)
  \/ \E u \in Users : DeleteUser(u)
  \/ Restart

\* What has arrived is worked off, and an owner whose file is still listed
\* after the deletion asks again; strong fairness, as a slot of Ops may be
\* taken by others at times, which the server has no bound for.
Fairness ==
  /\ \A w \in Ups : WF_vars(UploadStep(w))
  /\ \A o \in Ops : WF_vars(OpStep(o))
  /\ \A f \in Files : SF_vars(f \in wanted /\ \E o \in Ops : DeleteArrives(o, f))

Spec == Init /\ [][Next]_vars
FairSpec == Spec /\ Fairness

-----------------------------------------------------------------------------
(* Properties.                                                             *)

\* An upload that was answered 201 can be downloaded, as long as it is, until
\* its owner asks for its deletion or is deleted: no undo, no other request,
\* no restart takes its record or its blob away.
AcknowledgedIsStored ==
  \A f \in acked \ wanted :
    HasRow(f) => f \in blobs /\ size[f] = rows[f].size

\* ... and the record itself goes only with the account.
AcknowledgedIsRecorded ==
  [][\A f \in acked \ wanted : rows'[f] # rows[f] => users' # users]_vars

\* No share outlives its file, although the file may be deleted between the
\* look at its owner and the insertion.
SharesHaveFiles == \A f \in shares : HasRow(f)

\* When progress says completed, the goroutine has counted every byte that was
\* stored: a watcher, who leaves at that moment, has seen the true total.
CompletedIsCounted ==
  \A w \in Ups : up[w].completed =>
    /\ up[w].copier = "off"
    /\ up[w].done = up[w].copied

\* Every upload is answered, however its body ends.
UploadsEnd == \A w \in Ups : up[w].pc = "save" ~> up[w].pc # "save"

\* docs/1_SRS.md:182-185: a deleted file is removed from the storage and the
\* database; its owner may have to ask more than once.  (When the account is
\* deleted first, its blobs stay.)
Removed(f) == ~HasRow(f) /\ (f \notin blobs \/ users # Users)
DeletionFinishes == \A f \in Files : f \in wanted ~> Removed(f)

\* With MinIO that is so: removing an object twice is no error.
ObjectDeletionFinishes ==
  \A f \in Files : f \in wanted /\ backend = "minio" ~> Removed(f)

\* FileLedger: an upload becomes a file at the instant CreateFile writes its row,
\* with the content that row tells of, and from the answer on that content is
\* lost only to whom may lose it - whatever the goroutine, the undo of another
\* upload, a deletion in two steps or a restart does.
LedgerFile ==
  [f \in Files |->
    IF HasRow(f)
      THEN [owner |-> rows[f].owner, size |-> rows[f].size,
            holds |-> IF f \in blobs THEN {size[f]} ELSE {}]
      ELSE [owner |-> NoUser, size |-> 0, holds |-> {}]]
LedgerComing ==
  [w \in Ups |-> IF up[w].pc \in {"save", "mark", "record"}
                   THEN [file |-> up[w].file, user |-> up[w].user]
                   ELSE [file |-> NoFile, user |-> NoUser]]

Ledger == INSTANCE FileLedger WITH
  members <- users, file <- LedgerFile, coming <- LedgerComing, begun <- drawn,
  answered <- acked, wanted <- wanted, shared <- shares

ImplementsLedger == Ledger!Spec

\* The inductive invariant: until its record is written an upload has its file id
\* to itself, the pipe hands on what the goroutine has read, and a deletion was
\* asked for.
FilesAreDrawn ==
  /\ acked \subseteq drawn
  /\ \A f \in Files : HasRow(f) => f \in drawn
  /\ \A w \in Ups : up[w].file # NoFile => up[w].file \in drawn
  /\ \A o \in Ops : op[o].pc # "idle" => op[o].file \in drawn

UploadsOwnTheirFiles ==
  \A v, w \in Ups : up[v].file = up[w].file /\ up[v].file # NoFile => v = w

PipeCounts(w) ==
  /\ up[w].copier = "read"  => up[w].read = up[w].copied /\ up[w].done = up[w].copied
  /\ up[w].copier = "write" => up[w].read = up[w].copied + 1 /\ up[w].done = up[w].copied
  /\ up[w].copier = "count" => up[w].read = up[w].copied
  /\ up[w].copier = "off"   => up[w].done = up[w].copied

UploadIsConsistent(w) ==
  /\ PipeCounts(w)
  /\ up[w].copier # "off" => up[w].file \in Files
  /\ up[w].pc # "idle" => up[w].file \in Files /\ up[w].file \notin acked
  /\ up[w].pc \in {"save", "mark", "record"} =>
       /\ ~HasRow(up[w].file)
       /\ \A o \in Ops : op[o].pc # "idle" => op[o].file # up[w].file
  /\ up[w].pc \in {"mark", "record"} =>
       /\ up[w].copier = "off"
       /\ up[w].file \in blobs /\ size[up[w].file] = up[w].copied

DeletionsAreWanted ==
  \A o \in Ops : op[o].pc \in {"blob", "row"} => op[o].file \in wanted

Inv ==
  /\ TypeOK
  /\ FilesAreDrawn
  /\ UploadsOwnTheirFiles
  /\ \A w \in Ups : UploadIsConsistent(w)
  /\ DeletionsAreWanted
  /\ AcknowledgedIsStored
  /\ SharesHaveFiles
  /\ CompletedIsCounted
=============================================================================
