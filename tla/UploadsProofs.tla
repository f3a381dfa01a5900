--------------------------- MODULE UploadsProofs ---------------------------
(***************************************************************************)
(* Uploads: what was acknowledged is stored and recorded, shares have      *)
(* files and progress tells the truth, for any number of files, accounts,  *)
(* uploads, requests, chunks and faults.                                   *)
(***************************************************************************)
EXTENDS Uploads, TLAPS

USE UploadsNulls, UploadsBounds

LEMMA Starts == Init => Inv
<1> SUFFICES ASSUME Init PROVE Inv
  OBVIOUS
<1>1. TypeOK
  BY DEF Init, TypeOK, FileRow, NoRow, Length, Upload, NoUpload, Op, NoOp
<1>2. FilesAreDrawn /\ UploadsOwnTheirFiles /\ DeletionsAreWanted
  BY DEF Init, FilesAreDrawn, UploadsOwnTheirFiles, DeletionsAreWanted, HasRow, NoRow,
         NoUpload, NoOp
<1>3. \A w \in Ups : UploadIsConsistent(w)
  BY DEF Init, UploadIsConsistent, PipeCounts, NoUpload
<1>4. AcknowledgedIsStored /\ SharesHaveFiles /\ CompletedIsCounted
  BY DEF Init, AcknowledgedIsStored, SharesHaveFiles, CompletedIsCounted, NoUpload
<1> QED BY <1>1, <1>2, <1>3, <1>4 DEF Inv

\* A step of one upload: it keeps its file, and changes nothing of the others'.
LEMMA UploadKeeps ==
  ASSUME Inv, NEW w \in Ups, NEW p \in Upload, up' = [up EXCEPT ![w] = p],
         p.file = up[w].file, p.file \in Files,
         UNCHANGED <<backend, users, shares, drawn, op, wanted>>,
         blobs' \in SUBSET Files, size' \in [Files -> Length],
         rows' \in [Files -> FileRow], acked' \in SUBSET Files, faults' \in 0 .. MaxFaults,
         \A f \in Files : f # p.file => /\ f \in blobs' <=> f \in blobs
                                        /\ size'[f] = size[f]
                                        /\ rows'[f] = rows[f]
                                        /\ f \in acked' <=> f \in acked,
         HasRow(p.file) => HasRow(p.file)',
         UploadIsConsistent(w)',
         p.file \in acked' \ wanted /\ HasRow(p.file)' =>
           p.file \in blobs' /\ size'[p.file] = rows'[p.file].size,
         p.completed => p.copier = "off" /\ p.done = p.copied
  PROVE  Inv'
<1>0. /\ TypeOK /\ FilesAreDrawn /\ UploadsOwnTheirFiles /\ DeletionsAreWanted
      /\ AcknowledgedIsStored /\ SharesHaveFiles /\ CompletedIsCounted
      /\ \A v \in Ups : UploadIsConsistent(v)
  BY DEF Inv
<1>1. /\ \A v \in Ups : up'[v] = IF v = w THEN p ELSE up[v]
      /\ \A f \in Files : f # p.file => (HasRow(f)' <=> HasRow(f))
      /\ p.file \in drawn
      /\ drawn' = drawn /\ op' = op /\ wanted' = wanted /\ shares' = shares
  BY <1>0 DEF TypeOK, HasRow, FilesAreDrawn
<1>2. TypeOK'
  BY <1>0 DEF TypeOK
<1>3. FilesAreDrawn'
  <2>1. acked' \subseteq drawn
    BY <1>0, <1>1 DEF FilesAreDrawn
  <2>2. \A f \in Files : HasRow(f)' => f \in drawn
    BY <1>0, <1>1 DEF FilesAreDrawn
  <2>3. \A v \in Ups : up'[v].file # NoFile => up'[v].file \in drawn
    BY <1>0, <1>1 DEF FilesAreDrawn
  <2> QED BY <1>0, <1>1, <2>1, <2>2, <2>3 DEF FilesAreDrawn
<1>4. UploadsOwnTheirFiles'
  BY <1>0, <1>1 DEF UploadsOwnTheirFiles
<1>5. \A v \in Ups : UploadIsConsistent(v)'
  <2> SUFFICES ASSUME NEW v \in Ups, v # w PROVE UploadIsConsistent(v)'
    OBVIOUS
  <2>1. up'[v] = up[v] /\ UploadIsConsistent(v)
    BY <1>0, <1>1
  <2>2. up[v].file # NoFile => up[v].file # p.file
    BY <1>0 DEF UploadsOwnTheirFiles
  <2>3. PipeCounts(v)'
    BY <2>1 DEF UploadIsConsistent, PipeCounts
  <2>4. up[v].pc # "idle" => up[v].file \in Files /\ up[v].file # p.file
    BY <2>1, <2>2 DEF UploadIsConsistent
  <2>0. up[v].copier # "off" => up[v].file \in Files
    BY <2>1 DEF UploadIsConsistent
  <2>5. up[v].pc # "idle" => up[v].file \notin acked'
    BY <1>1, <2>1, <2>4 DEF UploadIsConsistent
  <2>6. up[v].pc \in {"save", "mark", "record"} =>
          /\ rows'[up[v].file].owner = NoUser
          /\ \A o \in Ops : op'[o].pc # "idle" => op'[o].file # up[v].file
    BY <1>1, <2>1, <2>4 DEF UploadIsConsistent, HasRow
  <2>7. up[v].pc \in {"mark", "record"} =>
          /\ up[v].copier = "off"
          /\ up[v].file \in blobs' /\ size'[up[v].file] = up[v].copied
    BY <1>1, <2>1, <2>4 DEF UploadIsConsistent
  <2> QED BY <2>0, <2>1, <2>3, <2>4, <2>5, <2>6, <2>7 DEF UploadIsConsistent, HasRow
<1>6. DeletionsAreWanted'
  BY <1>0, <1>1 DEF DeletionsAreWanted
<1>7. AcknowledgedIsStored'
  <2> SUFFICES ASSUME NEW f \in acked' \ wanted', HasRow(f)'
               PROVE  f \in blobs' /\ size'[f] = rows'[f].size
    BY DEF AcknowledgedIsStored
  <2>1. f \in Files
    OBVIOUS
  <2>2. CASE f = p.file
    BY <2>2, <1>1
  <2>3. CASE f # p.file
    BY <2>1, <2>3, <1>0, <1>1 DEF AcknowledgedIsStored
  <2> QED BY <2>2, <2>3
<1>8. SharesHaveFiles'
  BY <1>0, <1>1 DEF SharesHaveFiles, TypeOK
<1>9. CompletedIsCounted'
  BY <1>0, <1>1 DEF CompletedIsCounted
<1> QED BY <1>2, <1>3, <1>4, <1>5, <1>6, <1>7, <1>8, <1>9 DEF Inv

LEMMA UploadIs ==
  ASSUME Inv, NEW w \in Ups
  PROVE  /\ up \in [Ups -> Upload] /\ up[w] \in Upload
         /\ UploadIsConsistent(w)
         /\ up[w].completed => up[w].copier = "off" /\ up[w].done = up[w].copied
  BY DEF Inv, TypeOK, CompletedIsCounted

\* A step that writes neither files nor rows.
LEMMA UploadMoves ==
  ASSUME Inv, NEW w \in Ups, NEW p \in Upload, up' = [up EXCEPT ![w] = p],
         p.file = up[w].file, p.file \in Files,
         UNCHANGED <<database, storage, drawn, op, history>>, faults' \in 0 .. MaxFaults,
         UploadIsConsistent(w)',
         p.completed => p.copier = "off" /\ p.done = p.copied
  PROVE  Inv'
<1>1. /\ UNCHANGED <<backend, users, shares, drawn, op, wanted>>
      /\ UNCHANGED <<blobs, size, rows, acked>>
  BY DEF database, storage, history
<1>2. /\ blobs' \in SUBSET Files /\ size' \in [Files -> Length]
      /\ rows' \in [Files -> FileRow] /\ acked' \in SUBSET Files
  BY <1>1 DEF Inv, TypeOK
<1>3. /\ \A f \in Files : f # p.file => /\ f \in blobs' <=> f \in blobs
                                        /\ size'[f] = size[f]
                                        /\ rows'[f] = rows[f]
                                        /\ f \in acked' <=> f \in acked
      /\ HasRow(p.file) => rows'[p.file].owner # NoUser
      /\ p.file \in acked' \ wanted /\ rows'[p.file].owner # NoUser =>
           p.file \in blobs' /\ size'[p.file] = rows'[p.file].size
  BY <1>1 DEF Inv, AcknowledgedIsStored, HasRow
<1> HIDE DEF database, storage, history
<1> QED BY <1>1, <1>2, <1>3, UploadKeeps DEF HasRow

LEMMA ClientLeavesKeeps ==
  ASSUME Inv, NEW w \in Ups, ClientLeaves(w)
  PROVE  Inv'
<1> DEFINE p == [up[w] EXCEPT !.gone = TRUE]
<1>1. /\ up \in [Ups -> Upload] /\ up[w] \in Upload /\ UploadIsConsistent(w)
      /\ up[w].completed => up[w].copier = "off" /\ up[w].done = up[w].copied
      /\ faults \in 0 .. MaxFaults
  BY UploadIs DEF Inv, TypeOK
<1>2. /\ up[w].pc # "idle"
      /\ up' = [up EXCEPT ![w] = p]
      /\ UNCHANGED <<database, storage, drawn, op, history>> /\ faults' \in 0 .. MaxFaults
  BY <1>1 DEF ClientLeaves
<1>3. up[w].file \in Files /\ PipeCounts(w)
  BY <1>1, <1>2 DEF UploadIsConsistent
<1>4. /\ p \in Upload
      /\ p.pc = up[w].pc
      /\ p.copier = up[w].copier
      /\ p.file = up[w].file
      /\ p.user = up[w].user
      /\ p.gone = TRUE
      /\ p.read = up[w].read
      /\ p.copied = up[w].copied
      /\ p.done = up[w].done
      /\ p.completed = up[w].completed
  BY <1>1, <1>2, <1>3 DEF Upload, Length, PipeCounts
<1> HIDE DEF p
<1>5. up'[w] = p
  BY <1>1, <1>2
<1>6. PipeCounts(w)'
  BY <1>1, <1>2, <1>3, <1>4, <1>5 DEF PipeCounts, Upload, Length
<1>7. UploadIsConsistent(w)'
  <2>1. UNCHANGED <<rows, op, acked, blobs, size>>
    BY <1>2 DEF database, storage, history
  <2> QED BY <1>1, <1>2, <1>3, <1>4, <1>5, <1>6, <2>1 DEF UploadIsConsistent, HasRow
<1>8. p.completed => p.copier = "off" /\ p.done = p.copied
  BY <1>1, <1>2, <1>3, <1>4 DEF UploadIsConsistent, PipeCounts
<1> QED BY <1>2, <1>3, <1>4, <1>7, <1>8, UploadMoves

\* ReadPart: more data.
LEMMA ReadMoreKeeps ==
  ASSUME Inv, NEW w \in Ups, ReadPart(w), up[w].read < Chunks,
         up' = [up EXCEPT ![w].copier = "write", ![w].read = @ + 1]
  PROVE  Inv'
<1> DEFINE p == [up[w] EXCEPT !.copier = "write", !.read = up[w].read + 1]
<1>1. /\ up \in [Ups -> Upload] /\ up[w] \in Upload /\ UploadIsConsistent(w)
      /\ up[w].completed => up[w].copier = "off" /\ up[w].done = up[w].copied
      /\ faults \in 0 .. MaxFaults
  BY UploadIs DEF Inv, TypeOK
<1>2. /\ up[w].copier = "read" /\ up[w].read < Chunks
      /\ up' = [up EXCEPT ![w] = p]
      /\ UNCHANGED <<database, storage, drawn, op, history>> /\ faults' \in 0 .. MaxFaults
  BY <1>1 DEF ReadPart
<1>3. up[w].file \in Files /\ PipeCounts(w)
  BY <1>1, <1>2 DEF UploadIsConsistent
<1>4. /\ p \in Upload
      /\ p.pc = up[w].pc
      /\ p.copier = "write"
      /\ p.file = up[w].file
      /\ p.user = up[w].user
      /\ p.gone = up[w].gone
      /\ p.read = up[w].read + 1
      /\ p.copied = up[w].copied
      /\ p.done = up[w].done
      /\ p.completed = up[w].completed
  BY <1>1, <1>2, <1>3 DEF Upload, Length, PipeCounts
<1> HIDE DEF p
<1>5. up'[w] = p
  BY <1>1, <1>2
<1>6. PipeCounts(w)'
  BY <1>1, <1>2, <1>3, <1>4, <1>5 DEF PipeCounts, Upload, Length
<1>7. UploadIsConsistent(w)'
  <2>1. UNCHANGED <<rows, op, acked, blobs, size>>
    BY <1>2 DEF database, storage, history
  <2> QED BY <1>1, <1>2, <1>3, <1>4, <1>5, <1>6, <2>1 DEF UploadIsConsistent, HasRow
<1>8. p.completed => p.copier = "off" /\ p.done = p.copied
  BY <1>1, <1>2, <1>3, <1>4 DEF UploadIsConsistent, PipeCounts
<1> QED BY <1>2, <1>3, <1>4, <1>7, <1>8, UploadMoves

\* ReadPart: the end.
LEMMA ReadEndKeeps ==
  ASSUME Inv, NEW w \in Ups, ReadPart(w), Copier(w, "off")
  PROVE  Inv'
<1> DEFINE p == [up[w] EXCEPT !.copier = "off"]
<1>1. /\ up \in [Ups -> Upload] /\ up[w] \in Upload /\ UploadIsConsistent(w)
      /\ up[w].completed => up[w].copier = "off" /\ up[w].done = up[w].copied
      /\ faults \in 0 .. MaxFaults
  BY UploadIs DEF Inv, TypeOK
<1>2. /\ up[w].copier = "read"
      /\ up' = [up EXCEPT ![w] = p]
      /\ UNCHANGED <<database, storage, drawn, op, history>> /\ faults' \in 0 .. MaxFaults
  BY <1>1 DEF ReadPart, Copier
<1>3. up[w].file \in Files /\ PipeCounts(w)
  BY <1>1, <1>2 DEF UploadIsConsistent
<1>4. /\ p \in Upload
      /\ p.pc = up[w].pc
      /\ p.copier = "off"
      /\ p.file = up[w].file
      /\ p.user = up[w].user
      /\ p.gone = up[w].gone
      /\ p.read = up[w].read
      /\ p.copied = up[w].copied
      /\ p.done = up[w].done
      /\ p.completed = up[w].completed
  BY <1>1, <1>2, <1>3 DEF Upload, Length, PipeCounts
<1> HIDE DEF p
<1>5. up'[w] = p
  BY <1>1, <1>2
<1>6. PipeCounts(w)'
  BY <1>1, <1>2, <1>3, <1>4, <1>5 DEF PipeCounts, Upload, Length
<1>7. UploadIsConsistent(w)'
  <2>1. UNCHANGED <<rows, op, acked, blobs, size>>
    BY <1>2 DEF database, storage, history
  <2> QED BY <1>1, <1>2, <1>3, <1>4, <1>5, <1>6, <2>1 DEF UploadIsConsistent, HasRow
<1>8. p.completed => p.copier = "off" /\ p.done = p.copied
  BY <1>1, <1>2, <1>3, <1>4 DEF UploadIsConsistent, PipeCounts
<1> QED BY <1>2, <1>3, <1>4, <1>7, <1>8, UploadMoves

LEMMA CountBytesKeeps ==
  ASSUME Inv, NEW w \in Ups, CountBytes(w)
  PROVE  Inv'
<1> DEFINE p == [up[w] EXCEPT !.copier = "read", !.done = up[w].read]
<1>1. /\ up \in [Ups -> Upload] /\ up[w] \in Upload /\ UploadIsConsistent(w)
      /\ up[w].completed => up[w].copier = "off" /\ up[w].done = up[w].copied
      /\ faults \in 0 .. MaxFaults
  BY UploadIs DEF Inv, TypeOK
<1>2. /\ up[w].copier = "count"
      /\ up' = [up EXCEPT ![w] = p]
      /\ UNCHANGED <<database, storage, drawn, op, history>> /\ faults' \in 0 .. MaxFaults
  BY <1>1 DEF CountBytes
<1>3. up[w].file \in Files /\ PipeCounts(w)
  BY <1>1, <1>2 DEF UploadIsConsistent
<1>4. /\ p \in Upload
      /\ p.pc = up[w].pc
      /\ p.copier = "read"
      /\ p.file = up[w].file
      /\ p.user = up[w].user
      /\ p.gone = up[w].gone
      /\ p.read = up[w].read
      /\ p.copied = up[w].copied
      /\ p.done = up[w].read
      /\ p.completed = up[w].completed
  BY <1>1, <1>2, <1>3 DEF Upload, Length, PipeCounts
<1> HIDE DEF p
<1>5. up'[w] = p
  BY <1>1, <1>2
<1>6. PipeCounts(w)'
  BY <1>1, <1>2, <1>3, <1>4, <1>5 DEF PipeCounts, Upload, Length
<1>7. UploadIsConsistent(w)'
  <2>1. UNCHANGED <<rows, op, acked, blobs, size>>
    BY <1>2 DEF database, storage, history
  <2> QED BY <1>1, <1>2, <1>3, <1>4, <1>5, <1>6, <2>1 DEF UploadIsConsistent, HasRow
<1>8. p.completed => p.copier = "off" /\ p.done = p.copied
  BY <1>1, <1>2, <1>3, <1>4 DEF UploadIsConsistent, PipeCounts
<1> QED BY <1>2, <1>3, <1>4, <1>7, <1>8, UploadMoves

LEMMA SaveFailsKeeps ==
  ASSUME Inv, NEW w \in Ups, SaveFails(w)
  PROVE  Inv'
<1> DEFINE p == [up[w] EXCEPT !.pc = "idle"]
<1>1. /\ up \in [Ups -> Upload] /\ up[w] \in Upload /\ UploadIsConsistent(w)
      /\ up[w].completed => up[w].copier = "off" /\ up[w].done = up[w].copied
      /\ faults \in 0 .. MaxFaults
  BY UploadIs DEF Inv, TypeOK
<1>2. /\ up[w].pc = "save"
      /\ up' = [up EXCEPT ![w] = p]
      /\ UNCHANGED <<database, storage, drawn, op, history>> /\ faults' \in 0 .. MaxFaults
  BY <1>1 DEF SaveFails, Ends, Fault
<1>3. up[w].file \in Files /\ PipeCounts(w)
  BY <1>1, <1>2 DEF UploadIsConsistent
<1>4. /\ p \in Upload
      /\ p.pc = "idle"
      /\ p.copier = up[w].copier
      /\ p.file = up[w].file
      /\ p.user = up[w].user
      /\ p.gone = up[w].gone
      /\ p.read = up[w].read
      /\ p.copied = up[w].copied
      /\ p.done = up[w].done
      /\ p.completed = up[w].completed
  BY <1>1, <1>2, <1>3 DEF Upload, Length, PipeCounts
<1> HIDE DEF p
<1>5. up'[w] = p
  BY <1>1, <1>2
<1>6. PipeCounts(w)'
  BY <1>1, <1>2, <1>3, <1>4, <1>5 DEF PipeCounts, Upload, Length
<1>7. UploadIsConsistent(w)'
  <2>1. UNCHANGED <<rows, op, acked, blobs, size>>
    BY <1>2 DEF database, storage, history
  <2> QED BY <1>1, <1>2, <1>3, <1>4, <1>5, <1>6, <2>1 DEF UploadIsConsistent, HasRow
<1>8. p.completed => p.copier = "off" /\ p.done = p.copied
  BY <1>1, <1>2, <1>3, <1>4 DEF UploadIsConsistent, PipeCounts
<1> QED BY <1>2, <1>3, <1>4, <1>7, <1>8, UploadMoves

LEMMA MarkCompletedKeeps ==
  ASSUME Inv, NEW w \in Ups, MarkCompleted(w)
  PROVE  Inv'
<1> DEFINE p == [up[w] EXCEPT !.pc = "record", !.completed = TRUE]
<1>1. /\ up \in [Ups -> Upload] /\ up[w] \in Upload /\ UploadIsConsistent(w)
      /\ up[w].completed => up[w].copier = "off" /\ up[w].done = up[w].copied
      /\ faults \in 0 .. MaxFaults
  BY UploadIs DEF Inv, TypeOK
<1>2. /\ up[w].pc = "mark"
      /\ up' = [up EXCEPT ![w] = p]
      /\ UNCHANGED <<database, storage, drawn, op, history>> /\ faults' \in 0 .. MaxFaults
  BY <1>1 DEF MarkCompleted
<1>3. up[w].file \in Files /\ PipeCounts(w)
  BY <1>1, <1>2 DEF UploadIsConsistent
<1>4. /\ p \in Upload
      /\ p.pc = "record"
      /\ p.copier = up[w].copier
      /\ p.file = up[w].file
      /\ p.user = up[w].user
      /\ p.gone = up[w].gone
      /\ p.read = up[w].read
      /\ p.copied = up[w].copied
      /\ p.done = up[w].done
      /\ p.completed = TRUE
  BY <1>1, <1>2, <1>3 DEF Upload, Length, PipeCounts
<1> HIDE DEF p
<1>5. up'[w] = p
  BY <1>1, <1>2
<1>6. PipeCounts(w)'
  BY <1>1, <1>2, <1>3, <1>4, <1>5 DEF PipeCounts, Upload, Length
<1>7. UploadIsConsistent(w)'
  <2>1. UNCHANGED <<rows, op, acked, blobs, size>>
    BY <1>2 DEF database, storage, history
  <2> QED BY <1>1, <1>2, <1>3, <1>4, <1>5, <1>6, <2>1 DEF UploadIsConsistent, HasRow
<1>8. p.completed => p.copier = "off" /\ p.done = p.copied
  BY <1>1, <1>2, <1>3, <1>4 DEF UploadIsConsistent, PipeCounts
<1> QED BY <1>2, <1>3, <1>4, <1>7, <1>8, UploadMoves

LEMMA WritePipeKeeps ==
  ASSUME Inv, NEW w \in Ups, WritePipe(w)
  PROVE  Inv'
<1> DEFINE p == [up[w] EXCEPT !.copier = "count", !.copied = up[w].copied + 1]
           f == up[w].file
<1>1. /\ up \in [Ups -> Upload] /\ up[w] \in Upload /\ UploadIsConsistent(w)
      /\ up[w].completed => up[w].copier = "off" /\ up[w].done = up[w].copied
      /\ faults \in 0 .. MaxFaults /\ TypeOK
  BY UploadIs DEF Inv, TypeOK
<1>2. /\ up[w].copier = "write" /\ up[w].pc = "save"
      /\ up' = [up EXCEPT ![w] = p]
      /\ UNCHANGED <<backend, users, shares, drawn, op, wanted>> /\ faults' \in 0 .. MaxFaults
      /\ UNCHANGED <<rows, acked>>
      /\ \/ blobs' = blobs \cup {f} /\ size' = [size EXCEPT ![f] = up[w].copied + 1]
         \/ UNCHANGED <<blobs, size>>
  BY <1>1 DEF WritePipe, database, storage, history
<1>3. f \in Files /\ PipeCounts(w)
  BY <1>1, <1>2 DEF UploadIsConsistent
<1>4. /\ p \in Upload
      /\ p.pc = up[w].pc
      /\ p.copier = "count"
      /\ p.file = up[w].file
      /\ p.user = up[w].user
      /\ p.gone = up[w].gone
      /\ p.read = up[w].read
      /\ p.copied = up[w].copied + 1
      /\ p.done = up[w].done
      /\ p.completed = up[w].completed
  BY <1>1, <1>2, <1>3 DEF Upload, Length, PipeCounts
<1> HIDE DEF p
<1>5. up'[w] = p
  BY <1>1, <1>2
<1>6. PipeCounts(w)'
  BY <1>1, <1>2, <1>3, <1>4, <1>5 DEF PipeCounts, Upload, Length
<1>8. p.completed => p.copier = "off" /\ p.done = p.copied
  BY <1>1, <1>2, <1>3, <1>4 DEF UploadIsConsistent, PipeCounts
<1>9. UploadIsConsistent(w)'
  BY <1>1, <1>2, <1>3, <1>4, <1>5, <1>6 DEF UploadIsConsistent, HasRow, TypeOK, Upload
<1>10. /\ blobs' \in SUBSET Files /\ size' \in [Files -> Length]
       /\ rows' \in [Files -> FileRow] /\ acked' \in SUBSET Files
  BY <1>1, <1>2, <1>3, <1>4 DEF TypeOK, Upload, FileRow, Length
<1>11. \A g \in Files : g # p.file => /\ g \in blobs' <=> g \in blobs
                                      /\ size'[g] = size[g]
                                      /\ rows'[g] = rows[g]
                                      /\ g \in acked' <=> g \in acked
  BY <1>1, <1>2, <1>3, <1>4 DEF TypeOK
<1>12. HasRow(p.file) => rows'[p.file].owner # NoUser
  BY <1>1, <1>2, <1>3, <1>4 DEF UploadIsConsistent, HasRow, TypeOK, Upload
<1>13. p.file \in acked' \ wanted /\ rows'[p.file].owner # NoUser =>
         p.file \in blobs' /\ size'[p.file] = rows'[p.file].size
  BY <1>1, <1>2, <1>3, <1>4 DEF UploadIsConsistent, TypeOK, Upload
<1> QED BY <1>2, <1>3, <1>4, <1>8, <1>9, <1>10, <1>11, <1>12, <1>13, UploadKeeps DEF HasRow

LEMMA SaveKeeps ==
  ASSUME Inv, NEW w \in Ups, Save(w)
  PROVE  Inv'
<1> DEFINE p == [up[w] EXCEPT !.pc = "mark"]
           f == up[w].file
<1>1. /\ up \in [Ups -> Upload] /\ up[w] \in Upload /\ UploadIsConsistent(w)
      /\ up[w].completed => up[w].copier = "off" /\ up[w].done = up[w].copied
      /\ faults \in 0 .. MaxFaults /\ TypeOK
  BY UploadIs DEF Inv, TypeOK
<1>2. /\ up[w].pc = "save" /\ up[w].copier = "off"
      /\ up' = [up EXCEPT ![w] = p]
      /\ UNCHANGED <<backend, users, shares, drawn, op, wanted>> /\ faults' \in 0 .. MaxFaults
      /\ UNCHANGED <<rows, acked>>
      /\ blobs' = blobs \cup {f} /\ size' = [size EXCEPT ![f] = up[w].copied]
  BY <1>1 DEF Save, SaveDone, database, storage, history
<1>3. f \in Files /\ PipeCounts(w)
  BY <1>1, <1>2 DEF UploadIsConsistent
<1>4. /\ p \in Upload
      /\ p.pc = "mark"
      /\ p.copier = up[w].copier
      /\ p.file = up[w].file
      /\ p.user = up[w].user
      /\ p.gone = up[w].gone
      /\ p.read = up[w].read
      /\ p.copied = up[w].copied
      /\ p.done = up[w].done
      /\ p.completed = up[w].completed
  BY <1>1, <1>2, <1>3 DEF Upload, Length, PipeCounts
<1> HIDE DEF p
<1>5. up'[w] = p
  BY <1>1, <1>2
<1>6. PipeCounts(w)'
  BY <1>1, <1>2, <1>3, <1>4, <1>5 DEF PipeCounts, Upload, Length
<1>8. p.completed => p.copier = "off" /\ p.done = p.copied
  BY <1>1, <1>2, <1>3, <1>4 DEF UploadIsConsistent, PipeCounts
<1>9. UploadIsConsistent(w)'
  BY <1>1, <1>2, <1>3, <1>4, <1>5, <1>6 DEF UploadIsConsistent, HasRow, TypeOK, Upload
<1>10. /\ blobs' \in SUBSET Files /\ size' \in [Files -> Length]
       /\ rows' \in [Files -> FileRow] /\ acked' \in SUBSET Files
  BY <1>1, <1>2, <1>3, <1>4 DEF TypeOK, Upload, FileRow, Length
<1>11. \A g \in Files : g # p.file => /\ g \in blobs' <=> g \in blobs
                                      /\ size'[g] = size[g]
                                      /\ rows'[g] = rows[g]
                                      /\ g \in acked' <=> g \in acked
  BY <1>1, <1>2, <1>3, <1>4 DEF TypeOK
<1>12. HasRow(p.file) => rows'[p.file].owner # NoUser
  BY <1>1, <1>2, <1>3, <1>4 DEF UploadIsConsistent, HasRow, TypeOK, Upload
<1>13. p.file \in acked' \ wanted /\ rows'[p.file].owner # NoUser =>
         p.file \in blobs' /\ size'[p.file] = rows'[p.file].size
  BY <1>1, <1>2, <1>3, <1>4 DEF UploadIsConsistent, TypeOK, Upload
<1> QED BY <1>2, <1>3, <1>4, <1>8, <1>9, <1>10, <1>11, <1>12, <1>13, UploadKeeps DEF HasRow

LEMMA UndoSaveKeeps ==
  ASSUME Inv, NEW w \in Ups, UndoSave(w)
  PROVE  Inv'
<1> DEFINE p == [up[w] EXCEPT !.pc = "idle"]
           f == up[w].file
<1>1. /\ up \in [Ups -> Upload] /\ up[w] \in Upload /\ UploadIsConsistent(w)
      /\ up[w].completed => up[w].copier = "off" /\ up[w].done = up[w].copied
      /\ faults \in 0 .. MaxFaults /\ TypeOK
  BY UploadIs DEF Inv, TypeOK
<1>2. /\ up[w].pc = "undo"
      /\ up' = [up EXCEPT ![w] = p]
      /\ UNCHANGED <<backend, users, shares, drawn, op, wanted>> /\ faults' \in 0 .. MaxFaults
      /\ UNCHANGED <<rows, acked, size>>
      /\ blobs' = blobs \ {f} \/ blobs' = blobs
  BY <1>1 DEF UndoSave, Ends, Fault, database, storage, history
<1>3. f \in Files /\ PipeCounts(w)
  BY <1>1, <1>2 DEF UploadIsConsistent
<1>4. /\ p \in Upload
      /\ p.pc = "idle"
      /\ p.copier = up[w].copier
      /\ p.file = up[w].file
      /\ p.user = up[w].user
      /\ p.gone = up[w].gone
      /\ p.read = up[w].read
      /\ p.copied = up[w].copied
      /\ p.done = up[w].done
      /\ p.completed = up[w].completed
  BY <1>1, <1>2, <1>3 DEF Upload, Length, PipeCounts
<1> HIDE DEF p
<1>5. up'[w] = p
  BY <1>1, <1>2
<1>6. PipeCounts(w)'
  BY <1>1, <1>2, <1>3, <1>4, <1>5 DEF PipeCounts, Upload, Length
<1>8. p.completed => p.copier = "off" /\ p.done = p.copied
  BY <1>1, <1>2, <1>3, <1>4 DEF UploadIsConsistent, PipeCounts
<1>9. UploadIsConsistent(w)'
  BY <1>1, <1>2, <1>3, <1>4, <1>5, <1>6 DEF UploadIsConsistent, HasRow, TypeOK, Upload
<1>10. /\ blobs' \in SUBSET Files /\ size' \in [Files -> Length]
       /\ rows' \in [Files -> FileRow] /\ acked' \in SUBSET Files
  BY <1>1, <1>2, <1>3, <1>4 DEF TypeOK, Upload, FileRow, Length
<1>11. \A g \in Files : g # p.file => /\ g \in blobs' <=> g \in blobs
                                      /\ size'[g] = size[g]
                                      /\ rows'[g] = rows[g]
                                      /\ g \in acked' <=> g \in acked
  BY <1>1, <1>2, <1>3, <1>4 DEF TypeOK
<1>12. HasRow(p.file) => rows'[p.file].owner # NoUser
  BY <1>1, <1>2, <1>3, <1>4 DEF UploadIsConsistent, HasRow, TypeOK, Upload
<1>13. p.file \in acked' \ wanted /\ rows'[p.file].owner # NoUser =>
         p.file \in blobs' /\ size'[p.file] = rows'[p.file].size
  BY <1>1, <1>2, <1>3, <1>4 DEF UploadIsConsistent, TypeOK, Upload
<1> QED BY <1>2, <1>3, <1>4, <1>8, <1>9, <1>10, <1>11, <1>12, <1>13, UploadKeeps DEF HasRow

\* CreateFile: the row is written and acknowledged.
LEMMA CreatedKeeps ==
  ASSUME Inv, NEW w \in Ups, Ends(w), up[w].pc = "record", up[w].user \in users,
         rows' = [rows EXCEPT ![up[w].file] = [owner |-> up[w].user, size |-> up[w].copied]],
         acked' = acked \cup {up[w].file}, faults' = faults,
         UNCHANGED <<users, shares, storage, drawn, op, wanted>>
  PROVE  Inv'
<1> DEFINE p == [up[w] EXCEPT !.pc = "idle"]
           f == up[w].file
<1>1. /\ up \in [Ups -> Upload] /\ up[w] \in Upload /\ UploadIsConsistent(w)
      /\ up[w].completed => up[w].copier = "off" /\ up[w].done = up[w].copied
      /\ faults \in 0 .. MaxFaults /\ TypeOK
  BY UploadIs DEF Inv, TypeOK
<1>2. /\ up[w].pc = "record" /\ up[w].user \in users
      /\ up' = [up EXCEPT ![w] = p]
      /\ UNCHANGED <<backend, users, shares, drawn, op, wanted>> /\ faults' \in 0 .. MaxFaults
      /\ UNCHANGED <<blobs, size>>
      /\ rows' = [rows EXCEPT ![f] = [owner |-> up[w].user, size |-> up[w].copied]]
      /\ acked' = acked \cup {f}
  BY <1>1 DEF Ends, storage
<1>3. f \in Files /\ PipeCounts(w)
  BY <1>1, <1>2 DEF UploadIsConsistent
<1>4. /\ p \in Upload
      /\ p.pc = "idle"
      /\ p.copier = up[w].copier
      /\ p.file = up[w].file
      /\ p.user = up[w].user
      /\ p.gone = up[w].gone
      /\ p.read = up[w].read
      /\ p.copied = up[w].copied
      /\ p.done = up[w].done
      /\ p.completed = up[w].completed
  BY <1>1, <1>2, <1>3 DEF Upload, Length, PipeCounts
<1> HIDE DEF p
<1>5. up'[w] = p
  BY <1>1, <1>2
<1>6. PipeCounts(w)'
  BY <1>1, <1>2, <1>3, <1>4, <1>5 DEF PipeCounts, Upload, Length
<1>8. p.completed => p.copier = "off" /\ p.done = p.copied
  BY <1>1, <1>2, <1>3, <1>4 DEF UploadIsConsistent, PipeCounts
<1>9. UploadIsConsistent(w)'
  BY <1>1, <1>2, <1>3, <1>4, <1>5, <1>6 DEF UploadIsConsistent, HasRow, TypeOK, Upload
<1>10. /\ blobs' \in SUBSET Files /\ size' \in [Files -> Length]
       /\ rows' \in [Files -> FileRow] /\ acked' \in SUBSET Files
  BY <1>1, <1>2, <1>3, <1>4 DEF TypeOK, Upload, FileRow, Length
<1>11. \A g \in Files : g # p.file => /\ g \in blobs' <=> g \in blobs
                                      /\ size'[g] = size[g]
                                      /\ rows'[g] = rows[g]
                                      /\ g \in acked' <=> g \in acked
  BY <1>1, <1>2, <1>3, <1>4 DEF TypeOK
<1>12. HasRow(p.file) => rows'[p.file].owner # NoUser
  BY <1>1, <1>2, <1>3, <1>4 DEF UploadIsConsistent, HasRow, TypeOK, Upload
<1>13. p.file \in acked' \ wanted /\ rows'[p.file].owner # NoUser =>
         p.file \in blobs' /\ size'[p.file] = rows'[p.file].size
  BY <1>1, <1>2, <1>3, <1>4 DEF UploadIsConsistent, TypeOK, Upload
<1> QED BY <1>2, <1>3, <1>4, <1>8, <1>9, <1>10, <1>11, <1>12, <1>13, UploadKeeps DEF HasRow

\* CreateFile: an error, the row written or not.
LEMMA NotCreatedKeeps ==
  ASSUME Inv, NEW w \in Ups, up' = [up EXCEPT ![w].pc = "undo"], up[w].pc = "record",
         \/ rows' = rows
         \/ /\ rows' = [rows EXCEPT ![up[w].file] = [owner |-> up[w].user, size |-> up[w].copied]]
            /\ up[w].user \in users,
         acked' = acked, faults' \in 0 .. MaxFaults,
         UNCHANGED <<users, shares, storage, drawn, op, wanted>>
  PROVE  Inv'
<1> DEFINE p == [up[w] EXCEPT !.pc = "undo"]
           f == up[w].file
<1>1. /\ up \in [Ups -> Upload] /\ up[w] \in Upload /\ UploadIsConsistent(w)
      /\ up[w].completed => up[w].copier = "off" /\ up[w].done = up[w].copied
      /\ faults \in 0 .. MaxFaults /\ TypeOK
  BY UploadIs DEF Inv, TypeOK
<1>2. /\ up[w].pc = "record"
      /\ up' = [up EXCEPT ![w] = p]
      /\ UNCHANGED <<backend, users, shares, drawn, op, wanted>> /\ faults' \in 0 .. MaxFaults
      /\ UNCHANGED <<blobs, size, acked>>
      /\ \/ rows' = rows
         \/ /\ rows' = [rows EXCEPT ![f] = [owner |-> up[w].user, size |-> up[w].copied]]
            /\ up[w].user \in users
  BY <1>1 DEF Ends, storage
<1>3. f \in Files /\ PipeCounts(w)
  BY <1>1, <1>2 DEF UploadIsConsistent
<1>4. /\ p \in Upload
      /\ p.pc = "undo"
      /\ p.copier = up[w].copier
      /\ p.file = up[w].file
      /\ p.user = up[w].user
      /\ p.gone = up[w].gone
      /\ p.read = up[w].read
      /\ p.copied = up[w].copied
      /\ p.done = up[w].done
      /\ p.completed = up[w].completed
  BY <1>1, <1>2, <1>3 DEF Upload, Length, PipeCounts
<1> HIDE DEF p
<1>5. up'[w] = p
  BY <1>1, <1>2
<1>6. PipeCounts(w)'
  BY <1>1, <1>2, <1>3, <1>4, <1>5 DEF PipeCounts, Upload, Length
<1>8. p.completed => p.copier = "off" /\ p.done = p.copied
  BY <1>1, <1>2, <1>3, <1>4 DEF UploadIsConsistent, PipeCounts
<1>9. UploadIsConsistent(w)'
  BY <1>1, <1>2, <1>3, <1>4, <1>5, <1>6 DEF UploadIsConsistent, HasRow, TypeOK, Upload
<1>10. /\ blobs' \in SUBSET Files /\ size' \in [Files -> Length]
       /\ rows' \in [Files -> FileRow] /\ acked' \in SUBSET Files
  <2>1. up[w].user \in users => [owner |-> up[w].user, size |-> up[w].copied] \in FileRow
    BY <1>1 DEF TypeOK, Upload, FileRow, Length
  <2>2. rows' \in [Files -> FileRow]
    BY <1>1, <1>2, <1>3, <2>1 DEF TypeOK
  <2> QED BY <1>1, <1>2, <2>2 DEF TypeOK
<1>11. \A g \in Files : g # p.file => /\ g \in blobs' <=> g \in blobs
                                      /\ size'[g] = size[g]
                                      /\ rows'[g] = rows[g]
                                      /\ g \in acked' <=> g \in acked
  BY <1>1, <1>2, <1>3, <1>4 DEF TypeOK
<1>12. HasRow(p.file) => rows'[p.file].owner # NoUser
  BY <1>1, <1>2, <1>3, <1>4 DEF UploadIsConsistent, HasRow, TypeOK, Upload
<1>13. p.file \in acked' \ wanted /\ rows'[p.file].owner # NoUser =>
         p.file \in blobs' /\ size'[p.file] = rows'[p.file].size
  BY <1>1, <1>2, <1>3, <1>4 DEF UploadIsConsistent, TypeOK, Upload
<1> QED BY <1>2, <1>3, <1>4, <1>8, <1>9, <1>10, <1>11, <1>12, <1>13, UploadKeeps DEF HasRow

LEMMA CreateFileKeeps == ASSUME Inv, NEW w \in Ups, CreateFile(w) PROVE Inv'
<1> DEFINE row == [owner |-> up[w].user, size |-> up[w].copied]
           written == rows' = [rows EXCEPT ![up[w].file] = row]
<1>1. up[w].pc = "record" /\ UNCHANGED <<users, shares, storage, drawn, op, wanted>>
  BY DEF CreateFile
<1>2. faults \in 0 .. MaxFaults
  BY DEF Inv, TypeOK
<1>3. \/ /\ up[w].user \in users /\ written /\ Ends(w)
         /\ acked' = acked \cup {up[w].file} /\ faults' = faults
      \/ /\ up' = [up EXCEPT ![w].pc = "undo"]
         /\ UNCHANGED <<rows, acked, faults>>
      \/ /\ up' = [up EXCEPT ![w].pc = "undo"]
         /\ up[w].user \in users /\ Fault /\ (written \/ rows' = rows) /\ acked' = acked
  BY DEF CreateFile
<1>4. Fault => faults' \in 0 .. MaxFaults
  BY <1>2 DEF Fault
<1> QED BY <1>1, <1>2, <1>3, <1>4, CreatedKeeps, NotCreatedKeeps

\* A new upload draws a file id.
LEMMA ArrivesKeeps == ASSUME Inv, NEW w \in Ups, UploadArrives(w) PROVE Inv'
<1>1. PICK u \in Users, f \in Files \ drawn :
        /\ drawn' = drawn \cup {f}
        /\ up' = [up EXCEPT ![w] = NewUpload(u, f)]
  BY DEF UploadArrives
<1> DEFINE p == NewUpload(u, f)
<1>2. UNCHANGED <<backend, users, rows, shares, blobs, size, op, acked, wanted, faults>>
  BY DEF UploadArrives, database, storage, history
<1>3. /\ p \in Upload
      /\ p.pc = "save" /\ p.copier = "read" /\ p.file = f /\ p.completed = FALSE
      /\ p.read = 0 /\ p.copied = 0 /\ p.done = 0
  BY DEF NewUpload, Upload, Length
<1> HIDE DEF p
<1>4. /\ TypeOK /\ FilesAreDrawn /\ UploadsOwnTheirFiles /\ DeletionsAreWanted
      /\ AcknowledgedIsStored /\ SharesHaveFiles /\ CompletedIsCounted
      /\ \A v \in Ups : UploadIsConsistent(v)
  BY DEF Inv
<1>5. \A v \in Ups : up'[v] = IF v = w THEN p ELSE up[v]
  BY <1>1, <1>4 DEF TypeOK, p
<1>6. TypeOK'
  <2>1. up' \in [Ups -> Upload]
    BY <1>1, <1>3, <1>4 DEF TypeOK, p
  <2> QED BY <1>1, <1>2, <1>4, <2>1 DEF TypeOK
<1>7. FilesAreDrawn'
  BY <1>1, <1>2, <1>3, <1>4, <1>5 DEF FilesAreDrawn, HasRow
<1>8. UploadsOwnTheirFiles'
  BY <1>1, <1>3, <1>4, <1>5 DEF UploadsOwnTheirFiles, FilesAreDrawn
<1>9. \A v \in Ups : UploadIsConsistent(v)'
  <2> SUFFICES ASSUME NEW v \in Ups PROVE UploadIsConsistent(v)'
    OBVIOUS
  <2>1. CASE v = w
    <3>1. up'[v] = p /\ ~HasRow(f) /\ f \notin acked
      BY <2>1, <1>1, <1>4, <1>5 DEF FilesAreDrawn
    <3>2. \A o \in Ops : op'[o].pc # "idle" => op'[o].file # f
      BY <1>1, <1>2, <1>4 DEF FilesAreDrawn
    <3> QED BY <1>2, <1>3, <3>1, <3>2 DEF UploadIsConsistent, PipeCounts, HasRow
  <2>2. CASE v # w
    <3>1. up'[v] = up[v] /\ UploadIsConsistent(v)
      BY <2>2, <1>4, <1>5
    <3> QED BY <1>2, <3>1 DEF UploadIsConsistent, PipeCounts, HasRow
  <2> QED BY <2>1, <2>2
<1>10. DeletionsAreWanted' /\ AcknowledgedIsStored' /\ SharesHaveFiles'
  BY <1>2, <1>4 DEF DeletionsAreWanted, AcknowledgedIsStored, SharesHaveFiles, HasRow
<1>11. CompletedIsCounted'
  BY <1>3, <1>4, <1>5 DEF CompletedIsCounted
<1> QED BY <1>6, <1>7, <1>8, <1>9, <1>10, <1>11 DEF Inv

\* What requests and owners do: no upload moves, rows and blobs only go, and blobs
\* only of files whose deletion was asked for.
LEMMA OthersKeep ==
  ASSUME Inv, UNCHANGED <<backend, size, drawn, up, acked>>,
         users' \in SUBSET Users, rows' \in [Files -> FileRow], shares' \in SUBSET Files,
         blobs' \in SUBSET Files, op' \in [Ops -> Op], wanted' \in SUBSET Files,
         faults' \in 0 .. MaxFaults, wanted \subseteq wanted', blobs' \subseteq blobs,
         \A f \in Files : rows'[f] = rows[f] \/ rows'[f].owner = NoUser,
         \A f \in blobs \ blobs' : f \in wanted,
         \A f \in blobs \ blobs' : \A w \in Ups :
            up[w].pc \in {"mark", "record"} => up[w].file # f,
         \A o \in Ops : op'[o].pc # "idle" =>
            \/ op[o].pc # "idle" /\ op'[o].file = op[o].file
            \/ op'[o].file \in Files /\ HasRow(op'[o].file),
         DeletionsAreWanted',
         \A f \in shares' : rows'[f].owner # NoUser
  PROVE  Inv'
<1>1. /\ TypeOK /\ FilesAreDrawn /\ UploadsOwnTheirFiles
      /\ AcknowledgedIsStored /\ CompletedIsCounted
      /\ \A v \in Ups : UploadIsConsistent(v)
  BY DEF Inv
<1>2. TypeOK'
  BY <1>1 DEF TypeOK
<1>3. FilesAreDrawn'
  BY <1>1 DEF FilesAreDrawn, HasRow
<1>4. UploadsOwnTheirFiles' /\ CompletedIsCounted'
  BY <1>1 DEF UploadsOwnTheirFiles, CompletedIsCounted
<1>5. \A w \in Ups : UploadIsConsistent(w)'
  <2> SUFFICES ASSUME NEW w \in Ups PROVE UploadIsConsistent(w)'
    OBVIOUS
  <2>1. UploadIsConsistent(w) /\ up'[w] = up[w] /\ acked' = acked
    BY <1>1
  <2>2. PipeCounts(w)'
    BY <2>1 DEF UploadIsConsistent, PipeCounts
  <2>3. up[w].pc \in {"save", "mark", "record"} =>
          /\ rows'[up[w].file].owner = NoUser
          /\ \A o \in Ops : op'[o].pc # "idle" => op'[o].file # up[w].file
    BY <2>1 DEF UploadIsConsistent, HasRow
  <2>4. up[w].pc \in {"mark", "record"} =>
          /\ up[w].copier = "off"
          /\ up[w].file \in blobs' /\ size'[up[w].file] = up[w].copied
    BY <2>1 DEF UploadIsConsistent
  <2> QED BY <2>1, <2>2, <2>3, <2>4 DEF UploadIsConsistent, HasRow
<1>6. AcknowledgedIsStored'
  BY <1>1 DEF AcknowledgedIsStored, HasRow, TypeOK
<1>7. SharesHaveFiles'
  BY DEF SharesHaveFiles, HasRow
<1> QED BY <1>2, <1>3, <1>4, <1>5, <1>6, <1>7 DEF Inv

\* A request finds the file there and takes a slot.
LEMMA RequestKeeps ==
  ASSUME Inv, NEW o \in Ops, NEW q \in Op, op' = [op EXCEPT ![o] = q],
         q.file \in Files, HasRow(q.file),
         UNCHANGED <<database, storage, drawn, up, acked, faults>>,
         wanted' = wanted \/ wanted' = wanted \cup {q.file},
         q.pc \in {"blob", "row"} => q.file \in wanted'
  PROVE  Inv'
<1>1. UNCHANGED <<backend, users, rows, shares, blobs, size>>
  BY DEF database, storage
<1>2. TypeOK /\ SharesHaveFiles /\ DeletionsAreWanted
  BY DEF Inv
<1>3. \A x \in Ops : op'[x] = IF x = o THEN q ELSE op[x]
  BY <1>2 DEF TypeOK
<1>4. op' \in [Ops -> Op]
  BY <1>2 DEF TypeOK
<1>5. wanted' \in SUBSET Files /\ wanted \subseteq wanted'
  BY <1>2 DEF TypeOK
<1>6. \A x \in Ops : op'[x].pc # "idle" =>
        \/ op[x].pc # "idle" /\ op'[x].file = op[x].file
        \/ op'[x].file \in Files /\ HasRow(op'[x].file)
  BY <1>3
<1>7. DeletionsAreWanted'
  BY <1>2, <1>3, <1>5 DEF DeletionsAreWanted
<1>8. \A f \in shares' : rows'[f].owner # NoUser
  BY <1>1, <1>2 DEF SharesHaveFiles, HasRow
<1>9. /\ users' \in SUBSET Users /\ rows' \in [Files -> FileRow] /\ shares' \in SUBSET Files
      /\ blobs' \in SUBSET Files /\ faults' \in 0 .. MaxFaults
  BY <1>1, <1>2 DEF TypeOK
<1>10. /\ \A f \in Files : rows'[f] = rows[f] \/ rows'[f].owner = NoUser
       /\ blobs' = blobs
  BY <1>1
<1> QED BY <1>1, <1>4, <1>5, <1>6, <1>7, <1>8, <1>9, <1>10, OthersKeep

LEMMA DeleteArrivesKeeps ==
  ASSUME Inv, NEW o \in Ops, NEW f \in Files, DeleteArrives(o, f) PROVE Inv'
<1> DEFINE q == [pc |-> "blob", file |-> f]
<1>1. q \in Op /\ q.file = f /\ q.pc = "blob"
  BY DEF Op
<1>2. /\ op' = [op EXCEPT ![o] = q] /\ HasRow(f) /\ wanted' = wanted \cup {f}
      /\ UNCHANGED <<database, storage, drawn, up, acked, faults>>
  BY DEF DeleteArrives, FileIsFound
<1> HIDE DEF q
<1> QED BY <1>1, <1>2, RequestKeeps

LEMMA ShareArrivesKeeps ==
  ASSUME Inv, NEW o \in Ops, NEW f \in Files, ShareArrives(o, f) PROVE Inv'
<1> DEFINE q == [pc |-> "share", file |-> f]
<1>1. q \in Op /\ q.file = f /\ q.pc = "share"
  BY DEF Op
<1>2. /\ op' = [op EXCEPT ![o] = q] /\ HasRow(f) /\ wanted' = wanted
      /\ UNCHANGED <<database, storage, drawn, up, acked, faults>>
  BY DEF ShareArrives, FileIsFound, history
<1> HIDE DEF q
<1> QED BY <1>1, <1>2, RequestKeeps

\* A request moves on or is answered, on its file or on none.
LEMMA RequestMoves ==
  ASSUME Inv, NEW o \in Ops, NEW q \in Op, op' = [op EXCEPT ![o] = q], op[o].pc # "idle",
         q.pc = "idle" \/ (q.file = op[o].file /\ (q.pc \in {"blob", "row"} =>
                             op[o].file \in wanted)),
         UNCHANGED <<backend, users, size, drawn, up, history>>,
         rows' \in [Files -> FileRow], shares' \in SUBSET Files, blobs' \in SUBSET Files,
         faults' \in 0 .. MaxFaults, blobs' \subseteq blobs,
         \A f \in Files : rows'[f] = rows[f] \/ rows'[f].owner = NoUser,
         \A f \in blobs \ blobs' : f \in wanted /\ f = op[o].file,
         \A f \in shares' : rows'[f].owner # NoUser
  PROVE  Inv'
<1>1. TypeOK /\ DeletionsAreWanted /\ \A w \in Ups : UploadIsConsistent(w)
  BY DEF Inv
<1>2. acked' = acked /\ wanted' = wanted
  BY DEF history
<1>3. \A x \in Ops : op'[x] = IF x = o THEN q ELSE op[x]
  BY <1>1 DEF TypeOK
<1>4. op' \in [Ops -> Op]
  BY <1>1 DEF TypeOK
<1>5. \A x \in Ops : op'[x].pc # "idle" => op[x].pc # "idle" /\ op'[x].file = op[x].file
  BY <1>3
<1>6. DeletionsAreWanted'
  BY <1>1, <1>2, <1>3 DEF DeletionsAreWanted
<1>7. \A f \in blobs \ blobs' : \A w \in Ups :
        up[w].pc \in {"mark", "record"} => up[w].file # f
  BY <1>1 DEF UploadIsConsistent
<1>8. users' \in SUBSET Users /\ wanted' \in SUBSET Files
  BY <1>1, <1>2 DEF TypeOK
<1> QED BY <1>2, <1>4, <1>5, <1>6, <1>7, <1>8, OthersKeep

\* The facts each of the three steps below starts from.
LEMMA OpIs ==
  ASSUME Inv, NEW o \in Ops
  PROVE  /\ TypeOK /\ op[o] \in Op /\ NoOp \in Op /\ NoOp.pc = "idle"
         /\ \A f \in shares : f \in Files /\ rows[f].owner # NoUser
         /\ op[o].pc \in {"blob", "row"} => op[o].file \in wanted /\ op[o].file \in Files
<1>1. TypeOK /\ SharesHaveFiles /\ DeletionsAreWanted
  BY DEF Inv
<1>2. op[o].pc \in {"blob", "row"} => op[o].file \in wanted
  BY <1>1 DEF DeletionsAreWanted
<1> QED BY <1>1, <1>2 DEF TypeOK, SharesHaveFiles, HasRow, Op, NoOp

LEMMA DeleteBlobKeeps == ASSUME Inv, NEW o \in Ops, DeleteBlob(o) PROVE Inv'
<1> DEFINE q == [op[o] EXCEPT !.pc = "row"]
<1>1. /\ TypeOK /\ op[o] \in Op /\ NoOp \in Op /\ NoOp.pc = "idle"
      /\ \A f \in shares : f \in Files /\ rows[f].owner # NoUser
  BY OpIs
<1>2. op[o].pc = "blob" /\ op[o].file \in wanted /\ op[o].file \in Files
  BY OpIs DEF DeleteBlob
<1>3. UNCHANGED <<backend, users, rows, shares, size, drawn, up, history>>
  BY DEF DeleteBlob, database
<1>4. q \in Op /\ q.pc = "row" /\ q.file = op[o].file
  BY <1>1 DEF Op
<1>5. /\ faults' \in 0 .. MaxFaults
      /\ blobs' = blobs \/ blobs' = blobs \ {op[o].file}
      /\ op' = [op EXCEPT ![o] = q] \/ op' = [op EXCEPT ![o] = NoOp]
  BY <1>1 DEF DeleteBlob, Fault, TypeOK
<1> HIDE DEF q
<1>6. /\ rows' \in [Files -> FileRow] /\ shares' \in SUBSET Files /\ blobs' \in SUBSET Files
      /\ blobs' \subseteq blobs
      /\ \A f \in Files : rows'[f] = rows[f] \/ rows'[f].owner = NoUser
      /\ \A f \in blobs \ blobs' : f \in wanted /\ f = op[o].file
      /\ \A f \in shares' : rows'[f].owner # NoUser
  BY <1>1, <1>2, <1>3, <1>5 DEF TypeOK
<1>7. CASE op' = [op EXCEPT ![o] = q]
  BY <1>2, <1>3, <1>4, <1>5, <1>6, <1>7, RequestMoves
<1>8. CASE op' = [op EXCEPT ![o] = NoOp]
  BY <1>1, <1>2, <1>3, <1>5, <1>6, <1>8, RequestMoves
<1> QED BY <1>5, <1>7, <1>8

LEMMA DeleteRowKeeps == ASSUME Inv, NEW o \in Ops, DeleteRow(o) PROVE Inv'
<1>1. /\ TypeOK /\ op[o] \in Op /\ NoOp \in Op /\ NoOp.pc = "idle"
      /\ \A f \in shares : f \in Files /\ rows[f].owner # NoUser
  BY OpIs
<1>2. op[o].pc = "row" /\ op[o].file \in Files
  BY OpIs DEF DeleteRow
<1>3. /\ UNCHANGED <<backend, users, blobs, size, drawn, up, history>>
      /\ op' = [op EXCEPT ![o] = NoOp]
  BY DEF DeleteRow, storage
<1>4. /\ faults' \in 0 .. MaxFaults
      /\ \/ rows' = rows /\ shares' = shares
         \/ rows' = [rows EXCEPT ![op[o].file] = NoRow] /\ shares' = shares \ {op[o].file}
  BY <1>1 DEF DeleteRow, Fault, TypeOK
<1>5. NoRow \in FileRow /\ NoRow.owner = NoUser
  BY DEF NoRow, FileRow, Length
<1>6. /\ rows' \in [Files -> FileRow] /\ shares' \in SUBSET Files /\ blobs' \in SUBSET Files
      /\ blobs' \subseteq blobs
  BY <1>1, <1>3, <1>4, <1>5 DEF TypeOK
<1>7. /\ \A f \in Files : rows'[f] = rows[f] \/ rows'[f].owner = NoUser
      /\ \A f \in shares' : rows'[f].owner # NoUser
  BY <1>1, <1>4, <1>5 DEF TypeOK
<1>8. \A f \in blobs \ blobs' : f \in wanted /\ f = op[o].file
  BY <1>3
<1> QED BY <1>1, <1>2, <1>3, <1>4, <1>6, <1>7, <1>8, RequestMoves

LEMMA CreateShareKeeps == ASSUME Inv, NEW o \in Ops, CreateShare(o) PROVE Inv'
<1>1. /\ TypeOK /\ op[o] \in Op /\ NoOp \in Op /\ NoOp.pc = "idle"
      /\ \A f \in shares : f \in Files /\ rows[f].owner # NoUser
  BY OpIs
<1>2. /\ op[o].pc = "share" /\ op' = [op EXCEPT ![o] = NoOp]
      /\ UNCHANGED <<backend, users, rows, blobs, size, drawn, up, history, faults>>
      /\ shares' = IF HasRow(op[o].file) THEN shares \cup {op[o].file} ELSE shares
  BY DEF CreateShare, storage
<1>3. op[o].file \in Files
  <2>1. op[o].file \in drawn
    BY <1>2 DEF Inv, FilesAreDrawn
  <2> QED BY <1>1, <2>1 DEF TypeOK
<1>4. /\ rows' \in [Files -> FileRow] /\ shares' \in SUBSET Files /\ blobs' \in SUBSET Files
      /\ blobs' \subseteq blobs /\ faults' \in 0 .. MaxFaults
      /\ \A f \in Files : rows'[f] = rows[f] \/ rows'[f].owner = NoUser
      /\ \A f \in blobs \ blobs' : f \in wanted /\ f = op[o].file
  BY <1>1, <1>2, <1>3 DEF TypeOK
<1>5. \A f \in shares' : rows'[f].owner # NoUser
  BY <1>1, <1>2, <1>3 DEF HasRow
<1> QED BY <1>1, <1>2, <1>4, <1>5, RequestMoves

LEMMA DeleteUserKeeps == ASSUME Inv, NEW u \in Users, DeleteUser(u) PROVE Inv'
<1>1. TypeOK /\ SharesHaveFiles /\ DeletionsAreWanted
  BY DEF Inv
<1>2. /\ users' = users \ {u}
      /\ rows' = [f \in Files |-> IF rows[f].owner = u THEN NoRow ELSE rows[f]]
      /\ shares' = {f \in shares : rows[f].owner # u}
      /\ UNCHANGED <<backend, blobs, size, drawn, up, op, acked, wanted, faults>>
  BY DEF DeleteUser, storage, history
<1>3. NoRow \in FileRow /\ NoRow.owner = NoUser
  BY DEF NoRow, FileRow, Length
<1>4. \A f \in Files : rows'[f] = IF rows[f].owner = u THEN NoRow ELSE rows[f]
  BY <1>2
<1>5. /\ rows' \in [Files -> FileRow] /\ shares' \in SUBSET Files /\ users' \in SUBSET Users
      /\ blobs' \in SUBSET Files /\ op' \in [Ops -> Op] /\ wanted' \in SUBSET Files
      /\ faults' \in 0 .. MaxFaults
  BY <1>1, <1>2, <1>3 DEF TypeOK
<1>6. /\ \A f \in Files : rows'[f] = rows[f] \/ rows'[f].owner = NoUser
      /\ \A f \in shares' : rows'[f].owner # NoUser
  BY <1>1, <1>2, <1>3, <1>4 DEF SharesHaveFiles, HasRow, TypeOK
<1>7. DeletionsAreWanted'
  BY <1>1, <1>2 DEF DeletionsAreWanted
<1> QED BY <1>2, <1>5, <1>6, <1>7, OthersKeep

LEMMA RestartKeeps == Inv /\ Restart => Inv'
<1> SUFFICES ASSUME Inv, Restart PROVE Inv'
  OBVIOUS
<1>1. /\ TypeOK /\ FilesAreDrawn /\ AcknowledgedIsStored /\ SharesHaveFiles
  BY DEF Inv
<1>2. /\ UNCHANGED <<backend, users, rows, shares, blobs, size, drawn, acked, wanted>>
      /\ up' = [w \in Ups |-> NoUpload] /\ op' = [o \in Ops |-> NoOp]
  BY DEF Restart, database, storage, history
<1>3. TypeOK'
  <2>1. faults' \in 0 .. MaxFaults
    BY <1>1 DEF Restart, Fault, TypeOK
  <2>2. NoUpload \in Upload /\ NoOp \in Op
    BY DEF NoUpload, Upload, NoOp, Op, Length
  <2> QED BY <1>1, <1>2, <2>1, <2>2 DEF TypeOK
<1>4. /\ \A w \in Ups : up'[w] = NoUpload
      /\ \A o \in Ops : op'[o] = NoOp
  BY <1>2
<1>5. FilesAreDrawn' /\ UploadsOwnTheirFiles' /\ DeletionsAreWanted'
  BY <1>1, <1>2, <1>4 DEF FilesAreDrawn, UploadsOwnTheirFiles, DeletionsAreWanted, HasRow,
                          NoUpload, NoOp
<1>6. \A w \in Ups : UploadIsConsistent(w)'
  BY <1>4 DEF UploadIsConsistent, PipeCounts, NoUpload
<1>7. AcknowledgedIsStored' /\ SharesHaveFiles'
  BY <1>1, <1>2 DEF AcknowledgedIsStored, SharesHaveFiles, HasRow
<1>8. CompletedIsCounted'
  BY <1>4 DEF CompletedIsCounted, NoUpload
<1> QED BY <1>3, <1>5, <1>6, <1>7, <1>8 DEF Inv

LEMMA StutterKeeps == Inv /\ UNCHANGED vars => Inv'
<1> SUFFICES ASSUME Inv, UNCHANGED vars PROVE Inv'
  OBVIOUS
<1>1. UNCHANGED <<backend, users, rows, shares, blobs, size, drawn, up, op, acked, wanted,
                  faults>>
  BY DEF vars, database, storage, history
<1> QED BY <1>1 DEF Inv, TypeOK, FilesAreDrawn, UploadsOwnTheirFiles, UploadIsConsistent,
              PipeCounts, DeletionsAreWanted, AcknowledgedIsStored, SharesHaveFiles,
              CompletedIsCounted, HasRow

LEMMA UploadStepKeeps == ASSUME Inv, NEW w \in Ups, UploadStep(w) PROVE Inv'
<1>1. CASE ReadPart(w)
  <2>1. \/ /\ up[w].read < Chunks
           /\ up' = [up EXCEPT ![w].copier = "write", ![w].read = @ + 1]
        \/ Copier(w, "off")
    BY <1>1 DEF ReadPart
  <2> QED BY <1>1, <2>1, ReadMoreKeeps, ReadEndKeeps
<1> QED BY <1>1, WritePipeKeeps, CountBytesKeeps, SaveKeeps, MarkCompletedKeeps,
           CreateFileKeeps, UndoSaveKeeps DEF UploadStep

LEMMA NextKeeps == Inv /\ [Next]_vars => Inv'
<1> SUFFICES ASSUME Inv, [Next]_vars PROVE Inv'
  OBVIOUS
<1>1. ASSUME NEW w \in Ups,
             UploadArrives(w) \/ ClientLeaves(w) \/ SaveFails(w) \/ UploadStep(w)
      PROVE  Inv'
  BY <1>1, ArrivesKeeps, ClientLeavesKeeps, SaveFailsKeeps, UploadStepKeeps
<1>2. ASSUME NEW o \in Ops, NEW f \in Files, DeleteArrives(o, f) \/ ShareArrives(o, f)
      PROVE  Inv'
  BY <1>2, DeleteArrivesKeeps, ShareArrivesKeeps
<1>3. ASSUME NEW o \in Ops, OpStep(o) PROVE Inv'
  BY <1>3, DeleteBlobKeeps, DeleteRowKeeps, CreateShareKeeps DEF OpStep
<1>4. ASSUME NEW u \in Users, DeleteUser(u) PROVE Inv'
  BY <1>4, DeleteUserKeeps
<1> QED BY <1>1, <1>2, <1>3, <1>4, RestartKeeps, StutterKeeps DEF Next

\* FileHandler.Upload, Delete and CreateShare keep the inductive invariant: the
\* types among it, and that an upload has its file id to itself until it is
\* recorded.
THEOREM UploadsInvariant == Spec => []Inv
<1>1. Inv /\ [Next]_vars => Inv'
  BY NextKeeps
<1> QED BY Starts, <1>1, PTL DEF Spec

\* What Upload answered 201 for is stored whole for as long as its record stands,
\* until its deletion is asked for (handlers/file.go, Upload and its undo).
THEOREM AcknowledgedUploadsAreStored == Spec => []AcknowledgedIsStored
<1>1. Inv => AcknowledgedIsStored
  BY DEF Inv
<1> QED BY UploadsInvariant, <1>1, PTL

\* No share without its file (handlers/file.go CreateShare, the shares table).
THEOREM SharesPointToFiles == Spec => []SharesHaveFiles
<1>1. Inv => SharesHaveFiles
  BY DEF Inv
<1> QED BY UploadsInvariant, <1>1, PTL

\* Progress is marked completed only when the copying goroutine has counted all
\* that was stored (handlers/file.go, Upload).
THEOREM CompletedTotalsAreTrue == Spec => []CompletedIsCounted
<1>1. Inv => CompletedIsCounted
  BY DEF Inv
<1> QED BY UploadsInvariant, <1>1, PTL

\* The steps that write rows: of a file that is not acknowledged, of one whose
\* deletion was asked for, or because an account goes.
LEMMA RecordsStay ==
  ASSUME Inv, Next, NEW f \in acked \ wanted, rows'[f] # rows[f]
  PROVE  users' # users
<1>1. TypeOK /\ f \in Files
  BY DEF Inv, TypeOK
<1>2. ASSUME NEW w \in Ups,
             UploadArrives(w) \/ ClientLeaves(w) \/ SaveFails(w) \/ UploadStep(w)
      PROVE  FALSE
  <2>1. CASE CreateFile(w)
    <3>1. UploadIsConsistent(w) /\ up[w].pc = "record"
      BY <2>1, UploadIs DEF CreateFile
    <3>2. up[w].file \notin acked
      BY <3>1 DEF UploadIsConsistent
    <3>3. \A g \in Files : g # up[w].file => rows'[g] = rows[g]
      BY <1>1, <2>1 DEF CreateFile, TypeOK
    <3> QED BY <1>1, <3>2, <3>3
  <2>2. CASE ~CreateFile(w)
    <3>1. rows' = rows
      BY <1>2, <2>2 DEF UploadArrives, ClientLeaves, SaveFails, UploadStep, ReadPart,
             WritePipe, CountBytes, Save, SaveDone, MarkCompleted, UndoSave, database
    <3> QED BY <3>1
  <2> QED BY <2>1, <2>2
<1>3. ASSUME NEW o \in Ops, OpStep(o) \/ \E g \in Files : DeleteArrives(o, g) \/ ShareArrives(o, g)
      PROVE  FALSE
  <2>1. CASE DeleteRow(o)
    <3>1. op[o].file \in wanted
      BY <2>1, OpIs DEF DeleteRow
    <3>2. \A g \in Files : g # op[o].file => rows'[g] = rows[g]
      BY <1>1, <2>1 DEF DeleteRow, TypeOK
    <3> QED BY <1>1, <3>1, <3>2
  <2>2. CASE ~DeleteRow(o)
    <3>1. rows' = rows
      BY <1>3, <2>2 DEF OpStep, DeleteBlob, CreateShare, DeleteArrives, ShareArrives, database
    <3> QED BY <3>1
  <2> QED BY <2>1, <2>2
<1>4. ASSUME NEW u \in Users, DeleteUser(u) PROVE users' # users
  BY <1>4 DEF DeleteUser
<1>5. ~Restart
  BY DEF Restart, database
<1> QED BY <1>2, <1>3, <1>4, <1>5 DEF Next

\* The record of an acknowledged upload changes only with an account, until its
\* deletion is asked for (handlers/file.go; the cascades of migration 1).
THEOREM AcknowledgedUploadsAreRecorded == Spec => AcknowledgedIsRecorded
<1>1. Inv /\ [Next]_vars =>
        [\A f \in acked \ wanted : rows'[f] # rows[f] => users' # users]_vars
  BY RecordsStay
<1> QED BY UploadsInvariant, <1>1, PTL DEF Spec, AcknowledgedIsRecorded

-----------------------------------------------------------------------------
(* Uploads implements FileLedger.                                          *)

LEMMA LedgerInit == Init => Ledger!Init
BY DEF Init, NoRow, NoUpload, HasRow, LedgerFile, LedgerComing, Ledger!Init,
       Ledger!Nothing, Ledger!NotComing

\* What there is under an id, by its row and its blob.
LEMMA FileByRow ==
  ASSUME NEW f \in Files
  PROVE  /\ ~HasRow(f) => LedgerFile[f] = Ledger!Nothing
         /\ HasRow(f) => /\ LedgerFile[f].owner = rows[f].owner
                         /\ LedgerFile[f] # Ledger!Nothing
BY DEF LedgerFile, Ledger!Nothing, HasRow

LEMMA FileStays ==
  ASSUME NEW f \in Files, rows'[f] = rows[f],
         HasRow(f) => size'[f] = size[f] /\ (f \in blobs' <=> f \in blobs)
  PROVE  LedgerFile'[f] = LedgerFile[f]
<1>1. CASE HasRow(f)
  <2>1. (IF f \in blobs' THEN {size'[f]} ELSE {}) = IF f \in blobs THEN {size[f]} ELSE {}
    BY <1>1
  <2> QED BY <1>1, <2>1 DEF LedgerFile, HasRow
<1>2. CASE ~HasRow(f)
  BY <1>2 DEF LedgerFile, HasRow
<1> QED BY <1>1, <1>2

LEMMA FilesStay ==
  ASSUME \A f \in Files : /\ rows'[f] = rows[f]
                          /\ HasRow(f) => size'[f] = size[f] /\ (f \in blobs' <=> f \in blobs)
  PROVE  LedgerFile' = LedgerFile
<1>1. \A f \in Files : LedgerFile'[f] = LedgerFile[f]
  BY FileStays
<1> QED BY <1>1 DEF LedgerFile

LEMMA FileChanges ==
  ASSUME NEW f \in Files, NEW x, LedgerFile'[f] = x,
         \A g \in Files : g # f =>
           /\ rows'[g] = rows[g]
           /\ HasRow(g) => size'[g] = size[g] /\ (g \in blobs' <=> g \in blobs)
  PROVE  LedgerFile' = [LedgerFile EXCEPT ![f] = x]
<1>1. \A g \in Files : g # f => LedgerFile'[g] = LedgerFile[g]
  BY FileStays
<1>2. LedgerFile = [g \in Files |-> LedgerFile[g]]
      /\ LedgerFile' = [g \in Files |-> LedgerFile'[g]]
  BY DEF LedgerFile
<1> QED BY <1>1, <1>2

\* The blob of a file that is listed goes.
LEMMA ContentIsLost ==
  ASSUME NEW f \in Files, HasRow(f), rows' = rows, size' = size, blobs' = blobs \ {f}
  PROVE  /\ LedgerFile' = [LedgerFile EXCEPT ![f].holds = {}]
         /\ LedgerFile[f] # Ledger!Nothing
<1>1. LedgerFile[f] = [owner |-> rows[f].owner, size |-> rows[f].size,
                       holds |-> IF f \in blobs THEN {size[f]} ELSE {}]
  BY DEF LedgerFile
<1>2. LedgerFile'[f] = [owner |-> rows[f].owner, size |-> rows[f].size, holds |-> {}]
  BY DEF LedgerFile, HasRow
<1>3. LedgerFile'[f] = [LedgerFile[f] EXCEPT !.holds = {}]
  BY <1>1, <1>2
<1>4. LedgerFile' = [LedgerFile EXCEPT ![f] = [LedgerFile[f] EXCEPT !.holds = {}]]
  BY <1>3, FileChanges
<1> QED BY <1>4, FileByRow

LEMMA ComingEnds ==
  ASSUME Inv, NEW w \in Ups, NEW p, up' = [up EXCEPT ![w] = p], p.pc \in {"idle", "undo"}
  PROVE  LedgerComing' = [LedgerComing EXCEPT ![w] = Ledger!NotComing]
BY UploadIs DEF LedgerComing, Ledger!NotComing

\* A step that leaves an upload under way, or as over as it was, and touches no
\* file that has a row.
LEMMA UploadWorks ==
  ASSUME Inv, NEW w \in Ups, NEW p, up' = [up EXCEPT ![w] = p],
         p.file = up[w].file, p.user = up[w].user,
         p.pc = up[w].pc \/ {p.pc, up[w].pc} \subseteq {"save", "mark", "record"},
         UNCHANGED <<database, drawn, history>>,
         \A f \in Files : HasRow(f) => size'[f] = size[f] /\ (f \in blobs' <=> f \in blobs)
  PROVE  UNCHANGED Ledger!vars
<1>1. LedgerFile' = LedgerFile
  BY FilesStay DEF database
<1>2. \A v \in Ups : LedgerComing'[v] = LedgerComing[v]
  BY UploadIs DEF LedgerComing
<1>3. LedgerComing' = LedgerComing
  BY <1>2 DEF LedgerComing
<1> QED BY <1>1, <1>3 DEF Ledger!vars, database, history

\* The upload's own blob, while the upload is under way, has no row.
LEMMA OwnBlobOnly ==
  ASSUME Inv, NEW w \in Ups, up[w].pc \in {"save", "mark", "record"},
         NEW n, blobs' = blobs \cup {up[w].file},
         size' = [size EXCEPT ![up[w].file] = n]
  PROVE  \A f \in Files : HasRow(f) => size'[f] = size[f] /\ (f \in blobs' <=> f \in blobs)
<1>1. ~HasRow(up[w].file)
  BY UploadIs DEF UploadIsConsistent
<1> QED BY <1>1 DEF Inv, TypeOK

LEMMA QuietUploadStep ==
  ASSUME Inv, NEW w \in Ups,
         ClientLeaves(w) \/ ReadPart(w) \/ CountBytes(w) \/ MarkCompleted(w)
           \/ WritePipe(w) \/ Save(w)
  PROVE  UNCHANGED Ledger!vars
<1>0. up[w] \in Upload
  BY UploadIs
<1>1. CASE UNCHANGED <<database, storage, drawn, history>>
  <2>1. \A f \in Files : HasRow(f) => size'[f] = size[f] /\ (f \in blobs' <=> f \in blobs)
    BY <1>1 DEF storage
  <2>2. CASE ClientLeaves(w)
    <3> DEFINE p == [up[w] EXCEPT !.gone = TRUE]
    <3>1. up' = [up EXCEPT ![w] = p]
      BY <2>2 DEF ClientLeaves
    <3>2. p.file = up[w].file /\ p.user = up[w].user /\ p.pc = up[w].pc
      BY <1>0 DEF Upload
    <3> QED BY <1>1, <2>1, <3>1, <3>2, UploadWorks
  <2>3. CASE ReadPart(w) /\ ~Copier(w, "off")
    <3> DEFINE p == [up[w] EXCEPT !.copier = "write", !.read = up[w].read + 1]
    <3>1. up' = [up EXCEPT ![w] = p]
      BY <2>3 DEF ReadPart
    <3>2. p.file = up[w].file /\ p.user = up[w].user /\ p.pc = up[w].pc
      BY <1>0 DEF Upload
    <3> QED BY <1>1, <2>1, <3>1, <3>2, UploadWorks
  <2>4. CASE Copier(w, "off")
    <3> DEFINE p == [up[w] EXCEPT !.copier = "off"]
    <3>1. up' = [up EXCEPT ![w] = p]
      BY <2>4 DEF Copier
    <3>2. p.file = up[w].file /\ p.user = up[w].user /\ p.pc = up[w].pc
      BY <1>0 DEF Upload
    <3> QED BY <1>1, <2>1, <3>1, <3>2, UploadWorks
  <2>5. CASE CountBytes(w)
    <3> DEFINE p == [up[w] EXCEPT !.copier = "read", !.done = up[w].read]
    <3>1. up' = [up EXCEPT ![w] = p]
      BY <2>5 DEF CountBytes
    <3>2. p.file = up[w].file /\ p.user = up[w].user /\ p.pc = up[w].pc
      BY <1>0 DEF Upload
    <3> QED BY <1>1, <2>1, <3>1, <3>2, UploadWorks
  <2>6. CASE MarkCompleted(w)
    <3> DEFINE p == [up[w] EXCEPT !.pc = "record", !.completed = TRUE]
    <3>1. up' = [up EXCEPT ![w] = p] /\ up[w].pc = "mark"
      BY <2>6 DEF MarkCompleted
    <3>2. p.file = up[w].file /\ p.user = up[w].user /\ p.pc = "record"
      BY <1>0 DEF Upload
    <3> QED BY <1>1, <2>1, <3>1, <3>2, UploadWorks
  <2>7. CASE WritePipe(w)
    <3> DEFINE p == [up[w] EXCEPT !.copier = "count", !.copied = up[w].copied + 1]
    <3>1. up' = [up EXCEPT ![w] = p]
      BY <2>7 DEF WritePipe
    <3>2. p.file = up[w].file /\ p.user = up[w].user /\ p.pc = up[w].pc
      BY <1>0 DEF Upload
    <3> QED BY <1>1, <2>1, <3>1, <3>2, UploadWorks
  <2>8. CASE Save(w)
    <3> DEFINE p == [up[w] EXCEPT !.pc = "mark"]
    <3>1. up' = [up EXCEPT ![w] = p] /\ up[w].pc = "save"
      BY <2>8 DEF Save, SaveDone
    <3>2. p.file = up[w].file /\ p.user = up[w].user /\ p.pc = "mark"
      BY <1>0 DEF Upload
    <3> QED BY <1>1, <2>1, <3>1, <3>2, UploadWorks
  <2> QED BY <2>2, <2>3, <2>4, <2>5, <2>6, <2>7, <2>8
<1>2. CASE WritePipe(w) /\ Growing
  <2> DEFINE p == [up[w] EXCEPT !.copier = "count", !.copied = up[w].copied + 1]
  <2>1. /\ up' = [up EXCEPT ![w] = p] /\ up[w].pc = "save"
        /\ blobs' = blobs \cup {up[w].file}
        /\ size' = [size EXCEPT ![up[w].file] = up[w].copied + 1]
        /\ UNCHANGED <<database, drawn, history>>
    BY <1>2 DEF WritePipe
  <2>2. p.file = up[w].file /\ p.user = up[w].user /\ p.pc = up[w].pc
    BY <1>0 DEF Upload
  <2> HIDE DEF p
  <2> QED BY <2>1, <2>2, OwnBlobOnly, UploadWorks
<1>3. CASE Save(w)
  <2> DEFINE p == [up[w] EXCEPT !.pc = "mark"]
  <2>1. /\ up' = [up EXCEPT ![w] = p] /\ up[w].pc = "save"
        /\ blobs' = blobs \cup {up[w].file}
        /\ size' = [size EXCEPT ![up[w].file] = up[w].copied]
        /\ UNCHANGED <<database, drawn, history>>
    BY <1>3 DEF Save, SaveDone
  <2>2. p.file = up[w].file /\ p.user = up[w].user /\ p.pc = "mark"
    BY <1>0 DEF Upload
  <2> HIDE DEF p
  <2> QED BY <2>1, <2>2, OwnBlobOnly, UploadWorks
<1> QED BY <1>1, <1>2, <1>3 DEF ClientLeaves, ReadPart, CountBytes, MarkCompleted,
           WritePipe, storage

\* CreateFile: the instant an upload becomes a file, or comes to nothing.
LEMMA CreateFileIsLedger ==
  ASSUME Inv, NEW w \in Ups, CreateFile(w)
  PROVE  \/ Ledger!GiveUp(w)
         \/ \E n \in 0 .. Chunks : Ledger!Store(w, n) \/ Ledger!StoreUnanswered(w, n)
<1> DEFINE f == up[w].file
           n == up[w].copied
<1>1. /\ up[w] \in Upload /\ up[w].pc = "record" /\ f \in Files /\ n \in 0 .. Chunks
      /\ ~HasRow(f) /\ f \in blobs /\ size[f] = n /\ rows \in [Files -> FileRow]
  BY UploadIs DEF CreateFile, UploadIsConsistent, Upload, Length, Inv, TypeOK
<1>2. LedgerComing[w] = [file |-> f, user |-> up[w].user]
  BY <1>1 DEF LedgerComing
<1>3. LedgerComing' = [LedgerComing EXCEPT ![w] = Ledger!NotComing]
  <2>1. \E p \in {"idle", "undo"} : up' = [up EXCEPT ![w] = [up[w] EXCEPT !.pc = p]]
    BY DEF CreateFile, Ends
  <2> PICK p \in {"idle", "undo"} : up' = [up EXCEPT ![w] = [up[w] EXCEPT !.pc = p]]
    BY <2>1
  <2>2. [up[w] EXCEPT !.pc = p].pc = p
    BY <1>1 DEF Upload
  <2> QED BY <2>2, ComingEnds
<1>4. UNCHANGED <<users, shares, blobs, size, drawn, wanted>>
  BY DEF CreateFile, storage
<1>5. CASE UNCHANGED <<rows, acked>>
  <2>1. LedgerFile' = LedgerFile
    BY <1>4, <1>5, FilesStay
  <2> QED BY <1>3, <1>4, <1>5, <2>1 DEF Ledger!GiveUp
<1>6. CASE /\ up[w].user \in users
           /\ rows' = [rows EXCEPT ![f] = [owner |-> up[w].user, size |-> n]]
           /\ acked' = acked \/ acked' = acked \cup {f}
  <2>1. up[w].user # NoUser
    BY <1>6 DEF Inv, TypeOK
  <2>2. rows'[f] = [owner |-> up[w].user, size |-> n]
        /\ \A g \in Files : g # f => rows'[g] = rows[g]
    BY <1>1, <1>6
  <2>3. LedgerFile'[f] = [owner |-> up[w].user, size |-> n, holds |-> {n}]
    <3>1. rows'[f].owner = up[w].user /\ rows'[f].size = n
      BY <2>2
    <3>2. LedgerFile'[f] = [owner |-> rows'[f].owner, size |-> rows'[f].size,
                            holds |-> {size'[f]}]
      BY <1>1, <1>4, <2>1, <3>1 DEF LedgerFile, HasRow
    <3> QED BY <1>1, <1>4, <3>1, <3>2
  <2>4. LedgerFile' = [LedgerFile EXCEPT ![f] = Ledger!Whole(up[w].user, n)]
    <3> HIDE DEF f, n
    <3> QED BY <1>1, <1>4, <2>2, <2>3, FileChanges DEF Ledger!Whole
  <2>5. LedgerComing[w].file = f /\ LedgerComing[w].user = up[w].user
    BY <1>2
  <2>6. LedgerFile[f] = Ledger!Nothing
    BY <1>1, FileByRow
  <2>7. Ledger!Stored(w, n)
    BY <1>3, <1>6, <2>4, <2>5, <2>6 DEF Ledger!Stored
  <2>8. Ledger!Store(w, n) \/ Ledger!StoreUnanswered(w, n)
    BY <1>4, <1>6, <2>5, <2>7 DEF Ledger!Store, Ledger!StoreUnanswered
  <2> QED BY <1>1, <2>8
<1> QED BY <1>5, <1>6 DEF CreateFile

LEMMA UploadIsLedger ==
  ASSUME Inv, NEW w \in Ups,
         UploadArrives(w) \/ ClientLeaves(w) \/ SaveFails(w) \/ UploadStep(w)
  PROVE  [Ledger!Next]_(Ledger!vars)
<1>0. up[w] \in Upload
  BY UploadIs
<1>1. ASSUME UploadArrives(w)
      PROVE  \E u \in Users, f \in Files : Ledger!Begin(w, u, f)
  <2> PICK u \in Users, f \in Files \ drawn :
        drawn' = drawn \cup {f} /\ up' = [up EXCEPT ![w] = NewUpload(u, f)]
    BY <1>1 DEF UploadArrives
  <2>1. LedgerComing[w] = Ledger!NotComing
    BY <1>1 DEF UploadArrives, LedgerComing, Ledger!NotComing
  <2>2. LedgerComing' = [LedgerComing EXCEPT ![w] = [file |-> f, user |-> u]]
    BY UploadIs DEF LedgerComing, NewUpload
  <2>3. UNCHANGED <<users, LedgerFile, acked, wanted, shares>>
    BY <1>1, FilesStay DEF UploadArrives, database, storage, history
  <2>4. Ledger!Begin(w, u, f)
    BY <2>1, <2>2, <2>3 DEF Ledger!Begin
  <2> QED BY <2>4
<1>2. ASSUME SaveFails(w)
      PROVE  Ledger!GiveUp(w)
  <2>1. up' = [up EXCEPT ![w] = [up[w] EXCEPT !.pc = "idle"]]
    BY <1>2 DEF SaveFails, Ends
  <2>2. [up[w] EXCEPT !.pc = "idle"].pc = "idle"
    BY <1>0 DEF Upload
  <2>3. LedgerComing' = [LedgerComing EXCEPT ![w] = Ledger!NotComing]
    BY <2>1, <2>2, ComingEnds
  <2>4. UNCHANGED <<users, LedgerFile, drawn, acked, wanted, shares>>
    BY <1>2, FilesStay DEF SaveFails, database, storage, history
  <2> QED BY <2>3, <2>4 DEF Ledger!GiveUp
<1>3. ASSUME UndoSave(w)
      PROVE  (\E f \in Files : Ledger!LoseContent(f)) \/ UNCHANGED Ledger!vars
  <2> DEFINE f == up[w].file
  <2>1. /\ up[w].pc = "undo" /\ f \in Files /\ f \notin acked
        /\ UNCHANGED <<database, size, drawn, history>>
        /\ blobs' = blobs \/ blobs' = blobs \ {f}
    BY <1>3, UploadIs DEF UndoSave, UploadIsConsistent
  <2>2. LedgerComing' = LedgerComing
    <3>1. up' = [up EXCEPT ![w] = [up[w] EXCEPT !.pc = "idle"]]
      BY <1>3 DEF UndoSave, Ends
    <3>2. [up[w] EXCEPT !.pc = "idle"].pc = "idle"
      BY <1>0 DEF Upload
    <3>3. LedgerComing' = [LedgerComing EXCEPT ![w] = Ledger!NotComing]
      BY <3>1, <3>2, ComingEnds
    <3> QED BY <2>1, <3>3 DEF LedgerComing, Ledger!NotComing
  <2>3. CASE HasRow(f) /\ blobs' = blobs \ {f}
    <3>1. rows' = rows /\ size' = size
      BY <2>1 DEF database
    <3>2. /\ LedgerFile' = [LedgerFile EXCEPT ![f].holds = {}]
          /\ LedgerFile[f] # Ledger!Nothing
      BY <2>1, <2>3, <3>1, ContentIsLost
    <3>3. Ledger!LoseContent(f)
      BY <2>1, <2>2, <3>2 DEF Ledger!LoseContent, Ledger!Promised, database, history
    <3> QED BY <2>1, <3>3
  <2>4. CASE ~HasRow(f) \/ blobs' = blobs
    <3>1. LedgerFile' = LedgerFile
      BY <2>1, <2>4, FilesStay DEF database
    <3> QED BY <2>1, <2>2, <3>1 DEF Ledger!vars, database, history
  <2> QED BY <2>1, <2>3, <2>4
<1> QED BY <1>1, <1>2, <1>3, QuietUploadStep, CreateFileIsLedger
           DEF UploadStep, Ledger!Next

LEMMA RequestIsLedger ==
  ASSUME Inv, NEW o \in Ops,
         OpStep(o) \/ \E f \in Files : DeleteArrives(o, f) \/ ShareArrives(o, f)
  PROVE  [Ledger!Next]_(Ledger!vars)
<1>0. LedgerComing' = LedgerComing /\ UNCHANGED <<users, drawn, acked>>
  BY DEF OpStep, DeleteBlob, DeleteRow, CreateShare, DeleteArrives, ShareArrives,
         LedgerComing, database, history
<1>1. ASSUME NEW f \in Files, DeleteArrives(o, f)
      PROVE  Ledger!AskDeletion(f)
  <2>1. UNCHANGED <<LedgerFile, shares>> /\ wanted' = wanted \cup {f}
    BY <1>1, FilesStay DEF DeleteArrives, database, storage
  <2>2. LedgerFile[f] # Ledger!Nothing
    BY <1>1, FileByRow DEF DeleteArrives, FileIsFound
  <2> QED BY <1>0, <2>1, <2>2 DEF Ledger!AskDeletion
<1>2. ASSUME NEW f \in Files, ShareArrives(o, f)
      PROVE  UNCHANGED Ledger!vars
  BY <1>0, <1>2, FilesStay DEF ShareArrives, database, storage, history, Ledger!vars
<1>3. ASSUME DeleteBlob(o)
      PROVE  (\E f \in Files : Ledger!LoseContent(f)) \/ UNCHANGED Ledger!vars
  <2> DEFINE f == op[o].file
  <2>1. /\ f \in Files /\ f \in wanted
        /\ UNCHANGED <<database, size, history>>
        /\ blobs' = blobs \/ blobs' = blobs \ {f}
    BY <1>3, OpIs DEF DeleteBlob
  <2>2. CASE HasRow(f) /\ blobs' = blobs \ {f}
    <3>1. rows' = rows /\ size' = size
      BY <2>1 DEF database
    <3>2. /\ LedgerFile' = [LedgerFile EXCEPT ![f].holds = {}]
          /\ LedgerFile[f] # Ledger!Nothing
      BY <2>1, <2>2, <3>1, ContentIsLost
    <3>3. Ledger!LoseContent(f)
      BY <1>0, <2>1, <3>2 DEF Ledger!LoseContent, Ledger!Promised, database, history
    <3> QED BY <2>1, <3>3
  <2>3. CASE ~HasRow(f) \/ blobs' = blobs
    <3>1. LedgerFile' = LedgerFile
      BY <2>1, <2>3, FilesStay DEF database
    <3> QED BY <1>0, <2>1, <3>1 DEF Ledger!vars, database, history
  <2> QED BY <2>1, <2>2, <2>3
<1>4. ASSUME DeleteRow(o)
      PROVE  (\E f \in Files : Ledger!Remove(f)) \/ UNCHANGED Ledger!vars
  <2> PICK f \in Files : f = op[o].file
    BY <1>4, OpIs DEF DeleteRow
  <2>1. /\ f \in wanted /\ UNCHANGED <<blobs, size, wanted>>
        /\ \/ rows' = rows /\ shares' = shares
           \/ rows' = [rows EXCEPT ![f] = NoRow] /\ shares' = shares \ {f}
    BY <1>4, OpIs DEF DeleteRow, storage, history
  <2>2. CASE rows' = rows /\ shares' = shares
    BY <1>0, <2>1, <2>2, FilesStay DEF Ledger!vars
  <2>3. CASE rows' = [rows EXCEPT ![f] = NoRow] /\ shares' = shares \ {f}
    <3>1. rows'[f] = NoRow /\ \A g \in Files : g # f => rows'[g] = rows[g]
      BY <2>3 DEF Inv, TypeOK
    <3>2. LedgerFile'[f] = Ledger!Nothing
      BY <3>1 DEF LedgerFile, HasRow, NoRow, Ledger!Nothing
    <3>3. LedgerFile' = [LedgerFile EXCEPT ![f] = Ledger!Nothing]
      BY <2>1, <3>1, <3>2, FileChanges
    <3>4. Ledger!Remove(f)
      BY <1>0, <2>1, <2>3, <3>3 DEF Ledger!Remove
    <3> QED BY <3>4
  <2> QED BY <2>1, <2>2, <2>3
<1>5. ASSUME CreateShare(o)
      PROVE  (\E f \in Files : Ledger!Share(f)) \/ UNCHANGED Ledger!vars
  <2> DEFINE f == op[o].file
  <2>1. LedgerFile' = LedgerFile /\ wanted' = wanted
    BY <1>5, FilesStay DEF CreateShare, storage, history
  <2>2. CASE HasRow(f)
    <3>1. f \in drawn
      BY <1>5 DEF CreateShare, Inv, FilesAreDrawn
    <3>2. f \in Files /\ shares' = shares \cup {f}
      BY <1>5, <2>2, <3>1 DEF CreateShare, Inv, TypeOK
    <3>3. Ledger!Share(f)
      BY <1>0, <2>1, <2>2, <3>2, FileByRow DEF Ledger!Share
    <3> QED BY <3>2, <3>3
  <2>3. CASE ~HasRow(f)
    BY <1>0, <1>5, <2>1, <2>3 DEF CreateShare, Ledger!vars
  <2> QED BY <2>2, <2>3
<1> QED BY <1>1, <1>2, <1>3, <1>4, <1>5 DEF OpStep, Ledger!Next

LEMMA DeleteUserIsLedger ==
  ASSUME Inv, NEW u \in Users, DeleteUser(u)
  PROVE  Ledger!CloseAccount(u)
<1>1. /\ rows' = [f \in Files |-> IF rows[f].owner = u THEN NoRow ELSE rows[f]]
      /\ shares' = {f \in shares : rows[f].owner # u}
      /\ u \in users /\ users' = users \ {u}
      /\ UNCHANGED <<blobs, size, drawn, up, acked, wanted>>
  BY DEF DeleteUser, storage, history
<1>2. \A f \in Files : LedgerFile[f].owner = rows[f].owner
  BY FileByRow DEF HasRow, Ledger!Nothing
<1>3. ASSUME NEW f \in Files
      PROVE  LedgerFile'[f] = IF LedgerFile[f].owner = u THEN Ledger!Nothing ELSE LedgerFile[f]
  <2>1. CASE rows[f].owner = u
    <3>1. rows'[f] = NoRow
      BY <1>1, <2>1
    <3> QED BY <1>2, <2>1, <3>1 DEF LedgerFile, HasRow, NoRow, Ledger!Nothing
  <2>2. CASE rows[f].owner # u
    BY <1>1, <1>2, <2>2, FileStays
  <2> QED BY <2>1, <2>2
<1>4. LedgerFile' = [f \in Files |-> IF LedgerFile[f].owner = u THEN Ledger!Nothing
                                                                ELSE LedgerFile[f]]
  <2>1. LedgerFile' = [f \in Files |-> LedgerFile'[f]]
    BY DEF LedgerFile
  <2> QED BY <1>3, <2>1
<1>5. shares' = {f \in shares : LedgerFile[f].owner # u}
  BY <1>1, <1>2 DEF Inv, TypeOK
<1>6. LedgerComing' = LedgerComing
  BY <1>1 DEF LedgerComing
<1> QED BY <1>1, <1>4, <1>5, <1>6 DEF Ledger!CloseAccount

LEMMA LedgerStep ==
  ASSUME Inv, [Next]_vars
  PROVE  [Ledger!Next]_(Ledger!vars)
<1>1. CASE Restart
  <2>1. LedgerComing' = [w \in Ups |-> Ledger!NotComing]
    BY <1>1 DEF Restart, NoUpload, LedgerComing, Ledger!NotComing
  <2>2. UNCHANGED <<users, LedgerFile, drawn, acked, wanted, shares>>
    BY <1>1, FilesStay DEF Restart, database, storage, history
  <2> QED BY <2>1, <2>2 DEF Ledger!Restart, Ledger!Next
<1>2. CASE UNCHANGED vars
  <2>1. UNCHANGED <<users, LedgerFile, LedgerComing, drawn, acked, wanted, shares>>
    BY <1>2, FilesStay DEF vars, LedgerComing, database, storage, history
  <2> QED BY <2>1 DEF Ledger!vars
<1>3. ASSUME NEW u \in Users, DeleteUser(u)
      PROVE  Ledger!Next
  BY <1>3, DeleteUserIsLedger DEF Ledger!Next
<1> QED BY <1>1, <1>2, <1>3, UploadIsLedger, RequestIsLedger DEF Next

\* However the copying goroutine, the undo of a failed upload, deletions in two
\* steps, shares, accounts that go and restarts interleave: an upload becomes a
\* file at one instant and with the content its record tells of, and what was
\* answered is lost only after its owner asked for that or is gone.
THEOREM UploadsImplementLedger == Spec => ImplementsLedger
BY LedgerInit, LedgerStep, UploadsInvariant, PTL DEF Spec, ImplementsLedger, Ledger!Spec
=============================================================================
