--------------------------- MODULE DocumentsProofs ---------------------------
(***************************************************************************)
(* Theorems about Documents, for any documents, archives and restarts.     *)
(*                                                                         *)
(* The invariant has two halves that do not touch each other's files: Old  *)
(* speaks of the documents the migration works on, New of those that       *)
(* requests bring.  MigrationFrame and HandlerFrame say so, and each half  *)
(* is then kept by the steps of its own side.                              *)
(***************************************************************************)
EXTENDS Documents, TLAPS

-----------------------------------------------------------------------------
(* The invariant *)

\* Which rows are being migrated.
WorkShape ==
    /\ mode # "migrating" => todo = {} /\ stage = "none"
    /\ stage = "none" <=> current = Nobody
    /\ stage # "none" => current \in todo
    /\ Legacy \subseteq listed
    /\ \A d \in todo : path[d] = 0
    /\ mode # "stopped" => \A d \in Legacy : path[d] = 0 => d \in todo

\* Every encrypted copy got a name no other copy of the document had.
NamesAreFresh ==
    \A f \in whole \cup torn : f[1] \in Legacy => f[2] <= copies[f[1]]

\* What is on the disk of the document being migrated.
WorkDisk ==
    /\ stage \in {"read", "writing", "stored"} =>
          /\ held <=> Exists(Plain(current))
          /\ sound <=> Plain(current) \notin torn
    /\ stage = "writing" => Copy(current) \in torn
    /\ stage \in {"stored", "removed", "restoring", "discarding"} =>
          Copy(current) \in (IF sound THEN whole ELSE torn)
    /\ stage \notin {"none", "read"} => copies[current] > 0
    /\ stage = "removed" => ~Exists(Plain(current))
    /\ stage = "restoring" => held /\ Plain(current) \in torn
    /\ stage = "discarding" /\ held /\ current \notin unrestored =>
          Plain(current) \in (IF sound THEN whole ELSE torn)
    /\ stage # "none" /\ ~held => current \in Seeded
    /\ stage # "none" /\ ~sound => current \in halved

\* A part of a plaintext is on the disk only while it is written back, or after
\* that was cut short.
HalvesAreExplained ==
    \A d \in Legacy :
        Plain(d) \in torn =>
            d \in halved \/ (d = current /\ stage = "restoring")

\* The row of a migrated document names a complete copy, and no plaintext is
\* left.
MigratedRows ==
    \A d \in Legacy :
        path[d] # 0 =>
            /\ ~Exists(Plain(d))
            /\ d \notin halved => <<d, path[d]>> \in whole

\* A plaintext that is missing from its row's place is in work or was cut short.
PlainRows ==
    \A d \in Legacy \ (Seeded \cup cut \cup unrestored) :
        path[d] = 0 /\ current # d => Exists(Plain(d))

\* Without stops amid work and failed removals, old documents leave no file.
NoOldOrphans ==
    clean =>
        \A f \in whole \cup torn :
            f[1] \in Legacy =>
                \/ path[f[1]] = f[2]
                \/ /\ f = Copy(current) /\ f[1] = current
                   /\ stage \notin {"none", "read"}

Old ==
    /\ WorkShape
    /\ NamesAreFresh
    /\ WorkDisk
    /\ HalvesAreExplained
    /\ NothingIsLost
    /\ MigratedRows
    /\ PlainRows
    /\ NoOldOrphans

\* Where requests are, and which of them have rows.
RequestShape ==
    \A r \in Requests :
        /\ pc[r] \in {"storing", "recorded"} => mode = "serving"
        /\ pc[r] \in {"idle", "storing"} => Carries[r] \cap listed = {}
        /\ pc[r] = "recorded" => r \in Uploads
        /\ pc[r] # "done" => reply[r] = "none"

\* Documents that requests bring are stored once, encrypted, and those with a
\* row are complete unless the row could not be read back.
NewRows ==
    /\ \A f \in whole \cup torn :
          f[1] \notin Legacy => f[2] = 1 /\ copies[f[1]] = 1
    /\ \A d \in listed \ Legacy :
          path[d] = 1 /\ (d \notin forgotten => <<d, 1>> \in whole)

\* Without stops amid work and failed removals, requests leave no file behind.
NoNewOrphans ==
    clean =>
        \A f \in whole \cup torn :
            f[1] \notin Legacy =>
                \/ f[1] \in listed
                \/ \E r \in Requests : pc[r] = "storing" /\ f[1] \in Carries[r]

New ==
    /\ RequestShape
    /\ NewRows
    /\ NoNewOrphans
    /\ ImportsAreWhole

IInv == TypeOK /\ Old /\ New

-----------------------------------------------------------------------------
(* The steps of the server keep what is said of old documents *)

\* A start lists the rows that name a plaintext.
LEMMA StartKeepsOld ==
    ASSUME IInv, Start PROVE Old'
  <1> USE NobodyIsNoDocument, SeededAreLegacy
      DEF IInv, Old, TypeOK, Files, Documents, Plain, Copy, Exists, rows,
          disk, work, server, requests, history, Start, PlaintextRows
  <1>1. WorkShape'
    BY DEF WorkShape
  <1>2. NamesAreFresh'
    BY DEF WorkShape, NamesAreFresh
  <1>3. WorkDisk'
    BY DEF WorkShape, WorkDisk
  <1>4. HalvesAreExplained'
    BY DEF WorkShape, HalvesAreExplained
  <1>5. NothingIsLost'
    BY DEF WorkShape, NothingIsLost
  <1>6. MigratedRows'
    BY DEF WorkShape, MigratedRows
  <1>7. PlainRows'
    BY DEF WorkShape, PlainRows
  <1>8. NoOldOrphans'
    BY DEF WorkShape, NoOldOrphans
  <1>9. QED BY <1>1, <1>2, <1>3, <1>4, <1>5, <1>6, <1>7, <1>8

\* What was read is whole unless a part of the plaintext was left.
LEMMA ReadSourceKeepsOld ==
    ASSUME NEW d \in Legacy, IInv, ReadSource(d) PROVE Old'
  <1> USE NobodyIsNoDocument, SeededAreLegacy
      DEF IInv, Old, TypeOK, Files, Documents, Plain, Copy, Exists, At, rows,
          disk, work, server, requests, history, ReadSource
  <1>1. WorkShape'
    BY DEF WorkShape
  <1>2. NamesAreFresh'
    BY DEF WorkShape, NamesAreFresh
  <1>3. WorkDisk'
    BY DEF WorkShape, WorkDisk, HalvesAreExplained
  <1>4. HalvesAreExplained'
    BY DEF WorkShape, HalvesAreExplained
  <1>5. NothingIsLost'
    BY DEF WorkShape, NothingIsLost
  <1>6. MigratedRows'
    BY DEF WorkShape, MigratedRows
  <1>7. PlainRows'
    BY DEF WorkShape, PlainRows
  <1>8. NoOldOrphans'
    BY DEF WorkShape, NoOldOrphans
  <1>9. QED BY <1>1, <1>2, <1>3, <1>4, <1>5, <1>6, <1>7, <1>8

\* A start that is refused changes no row and no file.
LEMMA SourceMissingKeepsOld ==
    ASSUME NEW d \in Legacy, IInv, SourceMissing(d) PROVE Old'
  <1> USE NobodyIsNoDocument, SeededAreLegacy
      DEF IInv, Old, TypeOK, Files, Documents, Plain, Copy, Exists, At, rows,
          disk, work, server, requests, history, SourceMissing, Exit
  <1>1. WorkShape'
    BY DEF WorkShape
  <1>2. NamesAreFresh'
    BY DEF WorkShape, NamesAreFresh
  <1>3. WorkDisk'
    BY DEF WorkShape, WorkDisk
  <1>4. HalvesAreExplained'
    BY DEF WorkShape, HalvesAreExplained
  <1>5. NothingIsLost'
    BY DEF WorkShape, NothingIsLost
  <1>6. MigratedRows'
    BY DEF WorkShape, MigratedRows
  <1>7. PlainRows'
    BY DEF WorkShape, PlainRows
  <1>8. NoOldOrphans'
    BY DEF WorkShape, NoOldOrphans
  <1>9. QED BY <1>1, <1>2, <1>3, <1>4, <1>5, <1>6, <1>7, <1>8

\* The name of a new copy is fresh, so no other copy is touched.
LEMMA CreateCopyKeepsOld ==
    ASSUME IInv, CreateCopy PROVE Old'
  <1> USE NobodyIsNoDocument, SeededAreLegacy
      DEF IInv, Old, TypeOK, Files, Documents, Plain, Copy, Exists, At, rows,
          disk, work, server, requests, history, CreateCopy, Moves
  <1>1. WorkShape'
    BY DEF WorkShape
  <1>2. NamesAreFresh'
    BY DEF WorkShape, NamesAreFresh
  <1>3. WorkDisk'
    BY DEF WorkShape, WorkDisk
  <1>4. HalvesAreExplained'
    BY DEF WorkShape, HalvesAreExplained
  <1>5. NothingIsLost'
    BY DEF WorkShape, NothingIsLost
  <1>6. MigratedRows'
    BY DEF WorkShape, MigratedRows
  <1>7. PlainRows'
    BY DEF WorkShape, PlainRows
  <1>8. NoOldOrphans'
    BY DEF WorkShape, NoOldOrphans
  <1>9. QED BY <1>1, <1>2, <1>3, <1>4, <1>5, <1>6, <1>7, <1>8

\* Before a copy exists, giving up leaves everything in its place.
LEMMA GiveUpKeepsOld ==
    ASSUME IInv, GiveUp PROVE Old'
  <1> USE NobodyIsNoDocument, SeededAreLegacy
      DEF IInv, Old, TypeOK, Files, Documents, Plain, Copy, Exists, At, rows,
          disk, work, server, requests, history, GiveUp, Exit
  <1>1. WorkShape'
    BY DEF WorkShape
  <1>2. NamesAreFresh'
    BY DEF WorkShape, NamesAreFresh
  <1>3. WorkDisk'
    BY DEF WorkShape, WorkDisk
  <1>4. HalvesAreExplained'
    BY DEF WorkShape, HalvesAreExplained
  <1>5. NothingIsLost'
    BY DEF WorkShape, NothingIsLost
  <1>6. MigratedRows'
    BY DEF WorkShape, MigratedRows
  <1>7. PlainRows'
    BY DEF WorkShape, PlainRows, WorkDisk
  <1>8. NoOldOrphans'
    BY DEF WorkShape, NoOldOrphans
  <1>9. QED BY <1>1, <1>2, <1>3, <1>4, <1>5, <1>6, <1>7, <1>8

\* A copy is whole when what was read is.
LEMMA WriteCopyKeepsOld ==
    ASSUME IInv, WriteCopy PROVE Old'
  <1> USE NobodyIsNoDocument, SeededAreLegacy
      DEF IInv, Old, TypeOK, Files, Documents, Plain, Copy, Exists, At, rows,
          disk, work, server, requests, history, WriteCopy, Moves
  <1>1. WorkShape'
    BY DEF WorkShape
  <1>2. NamesAreFresh'
    BY DEF WorkShape, NamesAreFresh
  <1>3. WorkDisk'
    BY DEF WorkShape, WorkDisk
  <1>4. HalvesAreExplained'
    BY DEF WorkShape, HalvesAreExplained
  <1>5. NothingIsLost'
    BY DEF WorkShape, NothingIsLost
  <1>6. MigratedRows'
    BY DEF WorkShape, MigratedRows
  <1>7. PlainRows'
    BY DEF WorkShape, PlainRows
  <1>8. NoOldOrphans'
    BY DEF WorkShape, NoOldOrphans
  <1>9. QED BY <1>1, <1>2, <1>3, <1>4, <1>5, <1>6, <1>7, <1>8

\* The copy that is dropped has its plaintext beside it.
LEMMA AbandonCopyKeepsOld ==
    ASSUME IInv, AbandonCopy PROVE Old'
  <1> USE NobodyIsNoDocument, SeededAreLegacy
      DEF IInv, Old, TypeOK, Files, Documents, Plain, Copy, Exists, At, rows,
          disk, work, server, requests, history, AbandonCopy, DropCopy, Exit
  <1>1. WorkShape'
    BY DEF WorkShape
  <1>2. NamesAreFresh'
    BY DEF WorkShape, NamesAreFresh
  <1>3. WorkDisk'
    BY DEF WorkShape, WorkDisk
  <1>4. HalvesAreExplained'
    BY DEF WorkShape, HalvesAreExplained
  <1>5. NothingIsLost'
    BY DEF WorkShape, NothingIsLost, WorkDisk
  <1>6. MigratedRows'
    BY DEF WorkShape, MigratedRows
  <1>7. PlainRows'
    BY DEF WorkShape, PlainRows, WorkDisk
  <1>8. NoOldOrphans'
    BY DEF WorkShape, NoOldOrphans
  <1>9. QED BY <1>1, <1>2, <1>3, <1>4, <1>5, <1>6, <1>7, <1>8

\* The plaintext goes when its copy is written.
LEMMA RemoveSourceKeepsOld ==
    ASSUME IInv, RemoveSource PROVE Old'
  <1> USE NobodyIsNoDocument, SeededAreLegacy
      DEF IInv, Old, TypeOK, Files, Documents, Plain, Copy, Exists, At, rows,
          disk, work, server, requests, history, RemoveSource, Moves
  <1>1. WorkShape'
    BY DEF WorkShape
  <1>2. NamesAreFresh'
    BY DEF WorkShape, NamesAreFresh
  <1>3. WorkDisk'
    BY DEF WorkShape, WorkDisk
  <1>4. HalvesAreExplained'
    BY DEF WorkShape, HalvesAreExplained
  <1>5. NothingIsLost'
    BY DEF WorkShape, NothingIsLost, WorkDisk
  <1>6. MigratedRows'
    BY DEF WorkShape, MigratedRows
  <1>7. PlainRows'
    BY DEF WorkShape, PlainRows
  <1>8. NoOldOrphans'
    BY DEF WorkShape, NoOldOrphans
  <1>9. QED BY <1>1, <1>2, <1>3, <1>4, <1>5, <1>6, <1>7, <1>8

\* The row changes when its copy is written and the plaintext is gone.
LEMMA CommitRowKeepsOld ==
    ASSUME IInv, CommitRow PROVE Old'
  <1> USE NobodyIsNoDocument, SeededAreLegacy
      DEF IInv, Old, TypeOK, Files, Documents, Plain, Copy, Exists, At, rows,
          disk, work, server, requests, history, CommitRow, UpdateStorage
  <1>1. WorkShape'
    BY DEF WorkShape, WorkDisk
  <1>2. NamesAreFresh'
    BY DEF WorkShape, NamesAreFresh
  <1>3. WorkDisk'
    BY DEF WorkShape, WorkDisk
  <1>4. HalvesAreExplained'
    BY DEF WorkShape, HalvesAreExplained
  <1>5. NothingIsLost'
    BY DEF WorkShape, NothingIsLost
  <1>6. MigratedRows'
    BY DEF WorkShape, MigratedRows, WorkDisk
  <1>7. PlainRows'
    BY DEF WorkShape, PlainRows, WorkDisk
  <1>8. NoOldOrphans'
    BY DEF WorkShape, NoOldOrphans, WorkDisk
  <1>9. QED BY <1>1, <1>2, <1>3, <1>4, <1>5, <1>6, <1>7, <1>8

\* After a failed commit the plaintext is created, or counts as unrestored.
LEMMA CommitFailsKeepsOld ==
    ASSUME IInv, CommitFails PROVE Old'
  <1> USE NobodyIsNoDocument, SeededAreLegacy
      DEF IInv, Old, TypeOK, Files, Documents, Plain, Copy, Exists, At, rows,
          disk, work, server, requests, history, CommitFails, Moves
  <1>1. WorkShape'
    BY DEF WorkShape
  <1>2. NamesAreFresh'
    BY DEF WorkShape, NamesAreFresh
  <1>3. WorkDisk'
    BY DEF WorkShape, WorkDisk
  <1>4. HalvesAreExplained'
    BY DEF WorkShape, HalvesAreExplained
  <1>5. NothingIsLost'
    BY DEF WorkShape, NothingIsLost
  <1>6. MigratedRows'
    BY DEF WorkShape, MigratedRows
  <1>7. PlainRows'
    BY DEF WorkShape, PlainRows
  <1>8. NoOldOrphans'
    BY DEF WorkShape, NoOldOrphans
  <1>9. QED BY <1>1, <1>2, <1>3, <1>4, <1>5, <1>6, <1>7, <1>8

\* The plaintext is whole again when what was read is.
LEMMA RestoreKeepsOld ==
    ASSUME IInv, Restore PROVE Old'
  <1> USE NobodyIsNoDocument, SeededAreLegacy
      DEF IInv, Old, TypeOK, Files, Documents, Plain, Copy, Exists, At, rows,
          disk, work, server, requests, history, Restore, Moves
  <1>1. WorkShape'
    BY DEF WorkShape
  <1>2. NamesAreFresh'
    BY DEF WorkShape, NamesAreFresh
  <1>3. WorkDisk'
    BY DEF WorkShape, WorkDisk
  <1>4. HalvesAreExplained'
    BY DEF WorkShape, HalvesAreExplained, WorkDisk
  <1>5. NothingIsLost'
    BY DEF WorkShape, NothingIsLost
  <1>6. MigratedRows'
    BY DEF WorkShape, MigratedRows
  <1>7. PlainRows'
    BY DEF WorkShape, PlainRows
  <1>8. NoOldOrphans'
    BY DEF WorkShape, NoOldOrphans
  <1>9. QED BY <1>1, <1>2, <1>3, <1>4, <1>5, <1>6, <1>7, <1>8

\* A plaintext that could not be written counts as unrestored.
LEMMA RestoreFailsKeepsOld ==
    ASSUME IInv, RestoreFails PROVE Old'
  <1> USE NobodyIsNoDocument, SeededAreLegacy
      DEF IInv, Old, TypeOK, Files, Documents, Plain, Copy, Exists, At, rows,
          disk, work, server, requests, history, RestoreFails, Moves
  <1>1. WorkShape'
    BY DEF WorkShape
  <1>2. NamesAreFresh'
    BY DEF WorkShape, NamesAreFresh
  <1>3. WorkDisk'
    BY DEF WorkShape, WorkDisk
  <1>4. HalvesAreExplained'
    BY DEF WorkShape, HalvesAreExplained
  <1>5. NothingIsLost'
    BY DEF WorkShape, NothingIsLost
  <1>6. MigratedRows'
    BY DEF WorkShape, MigratedRows
  <1>7. PlainRows'
    BY DEF WorkShape, PlainRows
  <1>8. NoOldOrphans'
    BY DEF WorkShape, NoOldOrphans
  <1>9. QED BY <1>1, <1>2, <1>3, <1>4, <1>5, <1>6, <1>7, <1>8

\* The copy is dropped when the plaintext is back or counts as unrestored.
LEMMA DiscardKeepsOld ==
    ASSUME IInv, Discard PROVE Old'
  <1> USE NobodyIsNoDocument, SeededAreLegacy
      DEF IInv, Old, TypeOK, Files, Documents, Plain, Copy, Exists, At, rows,
          disk, work, server, requests, history, Discard, DropCopy, Exit
  <1>1. WorkShape'
    BY DEF WorkShape
  <1>2. NamesAreFresh'
    BY DEF WorkShape, NamesAreFresh
  <1>3. WorkDisk'
    BY DEF WorkShape, WorkDisk
  <1>4. HalvesAreExplained'
    BY DEF WorkShape, HalvesAreExplained
  <1>5. NothingIsLost'
    BY DEF WorkShape, NothingIsLost, WorkDisk
  <1>6. MigratedRows'
    BY DEF WorkShape, MigratedRows
  <1>7. PlainRows'
    BY DEF WorkShape, PlainRows, WorkDisk
  <1>8. NoOldOrphans'
    BY DEF WorkShape, NoOldOrphans
  <1>9. QED BY <1>1, <1>2, <1>3, <1>4, <1>5, <1>6, <1>7, <1>8

\* The server serves when no row is left to migrate.
LEMMA ServeKeepsOld ==
    ASSUME IInv, Serve PROVE Old'
  <1> USE NobodyIsNoDocument, SeededAreLegacy
      DEF IInv, Old, TypeOK, Files, Documents, Plain, Copy, Exists, At, rows,
          disk, work, server, requests, history, Serve
  <1>1. WorkShape'
    BY DEF WorkShape
  <1>2. NamesAreFresh'
    BY DEF WorkShape, NamesAreFresh
  <1>3. WorkDisk'
    BY DEF WorkShape, WorkDisk
  <1>4. HalvesAreExplained'
    BY DEF WorkShape, HalvesAreExplained
  <1>5. NothingIsLost'
    BY DEF WorkShape, NothingIsLost
  <1>6. MigratedRows'
    BY DEF WorkShape, MigratedRows
  <1>7. PlainRows'
    BY DEF WorkShape, PlainRows
  <1>8. NoOldOrphans'
    BY DEF WorkShape, NoOldOrphans
  <1>9. QED BY <1>1, <1>2, <1>3, <1>4, <1>5, <1>6, <1>7, <1>8

\* A stop leaves the files; between removal and commit it counts as cut.
LEMMA StopKeepsOld ==
    ASSUME IInv, Stop PROVE Old'
  <1> USE NobodyIsNoDocument, SeededAreLegacy
      DEF IInv, Old, TypeOK, Files, Documents, Plain, Copy, Exists, rows,
          disk, work, server, requests, history, Stop
  <1>1. WorkShape'
    BY DEF WorkShape
  <1>2. NamesAreFresh'
    BY DEF WorkShape, NamesAreFresh
  <1>3. WorkDisk'
    BY DEF WorkShape, WorkDisk
  <1>4. HalvesAreExplained'
    BY DEF WorkShape, HalvesAreExplained
  <1>5. NothingIsLost'
    BY DEF WorkShape, NothingIsLost
  <1>6. MigratedRows'
    BY DEF WorkShape, MigratedRows
  <1>7. PlainRows'
    BY DEF WorkShape, PlainRows, WorkDisk, Stages
  <1>8. NoOldOrphans'
    BY DEF WorkShape, NoOldOrphans
  <1>9. QED BY <1>1, <1>2, <1>3, <1>4, <1>5, <1>6, <1>7, <1>8

-----------------------------------------------------------------------------
(* The two halves do not disturb each other *)

\* What a step of the migration, a start or a failed start leaves alone.
NewUntouched ==
    /\ mode # "serving"
    /\ listed' = listed /\ requests' = requests /\ forgotten' = forgotten
    /\ clean' => clean
    /\ \A d \in Documents \ Legacy :
          path'[d] = path[d] /\ copies'[d] = copies[d]
    /\ \A f \in Files :
          f[1] \notin Legacy => /\ f \in whole' <=> f \in whole
                                /\ f \in torn' <=> f \in torn

\* What a request leaves alone.
OldUntouched ==
    /\ server' = server
    /\ cut' = cut /\ unrestored' = unrestored /\ halved' = halved
    /\ clean' => clean
    /\ \A d \in Legacy :
          /\ d \in listed' <=> d \in listed
          /\ path'[d] = path[d] /\ copies'[d] = copies[d]
    /\ \A f \in Files :
          f[1] \in Legacy => /\ f \in whole' <=> f \in whole
                             /\ f \in torn' <=> f \in torn

\* A request writes no file and no row of an old document.
LEMMA HandlerFrame ==
    ASSUME NEW r \in Requests, IInv, Handles(r) PROVE OldUntouched
  <1> USE RequestsCarryTheirOwn
      DEF IInv, TypeOK, Files, Documents, FilesOf, OldUntouched,
          rows, disk, work, server, requests, history, Answers, RemoveFiles
  <1>1. CASE Arrive(r)
    BY <1>1 DEF Arrive
  <1>2. ASSUME NEW d \in Carries[r], OpenFile(r, d) PROVE OldUntouched
    BY <1>2 DEF OpenFile
  <1>3. ASSUME NEW d \in Carries[r], WriteFile(r, d) PROVE OldUntouched
    BY <1>3 DEF WriteFile
  <1>4. CASE Abandon(r)
    BY <1>4 DEF Abandon
  <1>5. CASE Record(r)
    BY <1>5 DEF Record, Create, CreateImported, CreateRows
  <1>6. CASE ReadBack(r)
    BY <1>6 DEF ReadBack
  <1>7. CASE ReadBackFails(r)
    BY <1>7 DEF ReadBackFails
  <1>8. QED BY <1>1, <1>2, <1>3, <1>4, <1>5, <1>6, <1>7
       DEF Handles, ReadUpload, ReadArchive

\* So what is said of old documents survives requests.
LEMMA OldIsKept ==
    ASSUME TypeOK, TypeOK', Old, OldUntouched PROVE Old'
  <1> USE SeededAreLegacy
      DEF Old, TypeOK, OldUntouched, Files, Documents, Plain, Copy, Exists,
          work, server
  <1>1. WorkShape' /\ NamesAreFresh'
    BY DEF WorkShape, NamesAreFresh
  <1>2. WorkDisk'
    BY DEF WorkShape, WorkDisk
  <1>3. HalvesAreExplained'
    BY DEF HalvesAreExplained
  <1>4. NothingIsLost'
    BY DEF NothingIsLost
  <1>5. MigratedRows'
    BY DEF MigratedRows
  <1>6. PlainRows'
    BY DEF PlainRows
  <1>7. NoOldOrphans'
    BY DEF WorkShape, NoOldOrphans
  <1>8. QED BY <1>1, <1>2, <1>3, <1>4, <1>5, <1>6, <1>7

\* The migration touches no document that a request has brought, and no request
\* is in flight while it runs.
LEMMA MigrationFrame ==
    ASSUME IInv, Start \/ Migrates PROVE NewUntouched
  <1> USE DEF IInv, Old, WorkShape, TypeOK, Files, Documents, Plain, Copy,
          At, Moves, Exit, NewUntouched, rows, disk, work, server, requests, history
  <1>1. CASE Start
    BY <1>1 DEF Start, PlaintextRows
  <1>2. ASSUME NEW d \in Legacy, ReadSource(d) \/ SourceMissing(d)
        PROVE NewUntouched
    BY <1>2 DEF ReadSource, SourceMissing
  <1>3. CASE CreateCopy \/ GiveUp
    BY <1>3, NobodyIsNoDocument DEF CreateCopy, GiveUp
  <1>4. CASE WriteCopy \/ RemoveSource
    BY <1>4, NobodyIsNoDocument DEF WriteCopy, RemoveSource
  <1>5. CASE AbandonCopy \/ Discard
    BY <1>5, NobodyIsNoDocument DEF AbandonCopy, Discard, DropCopy
  <1>6. CASE CommitRow
    BY <1>6, NobodyIsNoDocument DEF CommitRow, UpdateStorage
  <1>7. CASE CommitFails \/ Restore \/ RestoreFails
    BY <1>7, NobodyIsNoDocument DEF CommitFails, Restore, RestoreFails
  <1>8. CASE Serve
    BY <1>8 DEF Serve
  <1>9. QED
    BY <1>1, <1>2, <1>3, <1>4, <1>5, <1>6, <1>7, <1>8 DEF Migrates

\* So what is said of requests survives the migration.
LEMMA NewIsKept ==
    ASSUME TypeOK, TypeOK', New, NewUntouched PROVE New'
  <1> USE DEF New, NewUntouched, TypeOK, Files, Documents, requests
  <1>1. RequestShape'
    BY DEF RequestShape
  <1>2. NewRows'
    BY DEF NewRows
  <1>3. NoNewOrphans'
    BY DEF NoNewOrphans
  <1>4. ImportsAreWhole'
    BY DEF ImportsAreWhole
  <1>5. QED BY <1>1, <1>2, <1>3, <1>4

-----------------------------------------------------------------------------
(* Requests *)

\* A request keeps what is said of requests: documents belong to one of them.
LEMMA HandlersKeepNew ==
    ASSUME NEW r \in Requests, IInv, Handles(r) PROVE New'
  <1> USE RequestsCarryTheirOwn, UploadsCarryOne
      DEF IInv, New, TypeOK, Files, Documents, Requests, FilesOf, RequestShape,
          NewRows, NoNewOrphans, ImportsAreWhole, rows, disk, work, server,
          requests, history, Answers, RemoveFiles
  <1>1. CASE Arrive(r)
    BY <1>1 DEF Arrive
  <1>2. ASSUME NEW d \in Carries[r], OpenFile(r, d) PROVE New'
    BY <1>2 DEF OpenFile
  <1>3. ASSUME NEW d \in Carries[r], WriteFile(r, d) PROVE New'
    BY <1>3 DEF WriteFile
  <1>4. CASE Abandon(r)
    BY <1>4 DEF Abandon
  <1>5. CASE Record(r)
    BY <1>5 DEF Record, Create, CreateImported, CreateRows
  <1>6. CASE ReadBack(r)
    BY <1>6 DEF ReadBack
  <1>7. CASE ReadBackFails(r)
    BY <1>7 DEF ReadBackFails
  <1>8. QED BY <1>1, <1>2, <1>3, <1>4, <1>5, <1>6, <1>7
       DEF Handles, ReadUpload, ReadArchive

\* A stop answers nobody, and leaves rows and files as they are.
LEMMA StopKeepsNew ==
    ASSUME IInv, Stop PROVE New'
  <1> USE DEF IInv, New, TypeOK, Stop, rows, disk
  <1>1. RequestShape'
    BY DEF RequestShape
  <1>2. NewRows'
    BY DEF NewRows
  <1>3. NoNewOrphans'
    BY DEF NoNewOrphans
  <1>4. ImportsAreWhole'
    BY DEF ImportsAreWhole, Requests
  <1>5. QED BY <1>1, <1>2, <1>3, <1>4

-----------------------------------------------------------------------------
(* Types *)

\* Every step keeps the types; a file that is created had not existed.
LEMMA TypesAreKept ==
    ASSUME IInv, Next PROVE TypeOK'
  <1> USE NobodyIsNoDocument
      DEF IInv, Old, WorkShape, TypeOK, Files, Documents, Stages, Places,
          Replies, Plain, Copy, At, Moves, Exit, rows, disk, work, server,
          requests, history
  <1>1. CASE Start
    <2>1. todo' \subseteq Legacy
      <3>1. \A d \in listed \ Legacy : path[d] = 1
        BY DEF New, NewRows
      <3>2. QED BY <1>1, <3>1 DEF Start, PlaintextRows
    <2>2. starts' \in 0..MaxStarts
      BY <1>1, StartBound DEF Start, PlaintextRows
    <2>3. QED BY <1>1, <2>1, <2>2 DEF Start, PlaintextRows
  <1>2. ASSUME NEW d \in Legacy, ReadSource(d) \/ SourceMissing(d) PROVE TypeOK'
    <2>1. CASE ReadSource(d)
      <3>1. held' \in BOOLEAN /\ sound' \in BOOLEAN
        BY <2>1 DEF ReadSource, Exists
      <3>2. QED BY <2>1, <3>1 DEF ReadSource
    <2>2. CASE SourceMissing(d)
      BY <2>2 DEF SourceMissing
    <2>3. QED BY <1>2, <2>1, <2>2
  <1>3. CASE CreateCopy
    BY <1>3 DEF CreateCopy, NamesAreFresh
  <1>4. CASE GiveUp \/ RemoveSource
    BY <1>4 DEF GiveUp, RemoveSource
  <1>5. CASE WriteCopy
    BY <1>5 DEF WriteCopy
  <1>6. CASE AbandonCopy \/ Discard
    BY <1>6 DEF AbandonCopy, Discard, DropCopy
  <1>7. CASE CommitRow
    BY <1>7 DEF CommitRow, UpdateStorage
  <1>8. CASE CommitFails
    BY <1>8 DEF CommitFails, WorkDisk, Exists
  <1>9. CASE Restore \/ RestoreFails
    <2>1. CASE Restore
      BY <2>1 DEF Restore
    <2>2. CASE RestoreFails
      BY <2>2 DEF RestoreFails
    <2>3. QED BY <1>9, <2>1, <2>2
  <1>10. CASE Serve \/ Stop
    BY <1>10 DEF Serve, Stop
  <1>11. ASSUME NEW r \in Requests, Handles(r) PROVE TypeOK'
    <2> USE RequestsCarryTheirOwn
        DEF New, NewRows, FilesOf, Answers, RemoveFiles
    <2>1. CASE Arrive(r)
      BY <2>1 DEF Arrive
    <2>2. ASSUME NEW d \in Carries[r], OpenFile(r, d) PROVE TypeOK'
      BY <2>2 DEF OpenFile
    <2>3. ASSUME NEW d \in Carries[r], WriteFile(r, d) PROVE TypeOK'
      BY <2>3 DEF WriteFile
    <2>4. CASE Abandon(r)
      BY <2>4 DEF Abandon
    <2>5. CASE Record(r)
      BY <2>5 DEF Record, Create, CreateImported, CreateRows
    <2>6. CASE ReadBack(r)
      BY <2>6 DEF ReadBack
    <2>7. CASE ReadBackFails(r)
      BY <2>7 DEF ReadBackFails
    <2>8. QED
      BY <1>11, <2>1, <2>2, <2>3, <2>4, <2>5, <2>6, <2>7
         DEF Handles, ReadUpload, ReadArchive
  <1>12. QED
    BY <1>1, <1>2, <1>3, <1>4, <1>5, <1>6, <1>7, <1>8, <1>9, <1>10, <1>11
    DEF Next, Migrates

-----------------------------------------------------------------------------
(* The invariant holds *)

\* At first there are plaintexts and rows that name them.
LEMMA InitIInv == Init => IInv
  <1> SUFFICES ASSUME Init PROVE IInv
    OBVIOUS
  <1> USE NobodyIsNoDocument, SeededAreLegacy, RequestsCarryTheirOwn, StartBound
      DEF Init, Files, Documents, Plain, Copy, Exists
  <1>1. \A f \in whole : f[1] \in Legacy /\ f[2] = 0 /\ f = <<f[1], 0>>
    OBVIOUS
  <1>2. TypeOK
    <2>1. whole \subseteq Files
      BY <1>1
    <2>2. path \in [Documents -> Nat] /\ copies \in [Documents -> Nat]
      OBVIOUS
    <2>3. pc \in [Requests -> Places] /\ reply \in [Requests -> Replies]
      BY DEF Places, Replies
    <2>4. starts \in 0..MaxStarts
      OBVIOUS
    <2>5. QED BY <2>1, <2>2, <2>3, <2>4 DEF TypeOK, Stages
  <1>3. Old
    <2>1. /\ WorkShape /\ WorkDisk
          /\ HalvesAreExplained /\ MigratedRows /\ PlainRows
      BY DEF WorkShape, WorkDisk, HalvesAreExplained, MigratedRows, PlainRows
    <2>2. NamesAreFresh /\ NoOldOrphans
      BY <1>1 DEF NamesAreFresh, NoOldOrphans
    <2>3. NothingIsLost
      <3> SUFFICES ASSUME NEW d \in Legacy, d \notin Seeded
                   PROVE  \E f \in whole : f[1] = d
        BY DEF NothingIsLost
      <3>1. Plain(d) \in whole /\ Plain(d)[1] = d
        OBVIOUS
      <3>2. QED BY <3>1
    <2>4. QED BY <2>1, <2>2, <2>3 DEF Old
  <1>4. New
    <2>1. RequestShape /\ ImportsAreWhole
      BY DEF RequestShape, ImportsAreWhole, Requests
    <2>2. NewRows /\ NoNewOrphans
      BY <1>1 DEF NewRows, NoNewOrphans
    <2>3. QED BY <2>1, <2>2 DEF New
  <1>5. QED BY <1>2, <1>3, <1>4 DEF IInv

\* Every step keeps the invariant.
LEMMA NextIInv == IInv /\ [Next]_vars => IInv'
  <1> SUFFICES ASSUME IInv, [Next]_vars PROVE IInv'
    OBVIOUS
  <1>1. CASE Next
    <2>1. TypeOK'
      BY <1>1, TypesAreKept
    <2>2. CASE Start \/ Migrates
      <3>1. New'
        BY <2>1, <2>2, MigrationFrame, NewIsKept DEF IInv
      <3>2. Old'
        BY <2>2, StartKeepsOld, ReadSourceKeepsOld, SourceMissingKeepsOld,
           CreateCopyKeepsOld, GiveUpKeepsOld, WriteCopyKeepsOld,
           AbandonCopyKeepsOld, RemoveSourceKeepsOld, CommitRowKeepsOld,
           CommitFailsKeepsOld, RestoreKeepsOld, RestoreFailsKeepsOld,
           DiscardKeepsOld, ServeKeepsOld
        DEF Migrates
      <3>3. QED BY <2>1, <3>1, <3>2 DEF IInv
    <2>3. ASSUME NEW r \in Requests, Handles(r) PROVE IInv'
      BY <2>1, <2>3, HandlerFrame, OldIsKept, HandlersKeepNew DEF IInv
    <2>4. CASE Stop
      BY <2>1, <2>4, StopKeepsOld, StopKeepsNew DEF IInv
    <2>5. QED BY <1>1, <2>2, <2>3, <2>4 DEF Next
  <1>2. CASE UNCHANGED vars
    <2> USE <1>2 DEF vars, rows, disk, work, server, requests, history, Plain,
            Copy, Exists
    <2>1. TypeOK'
      BY DEF IInv, TypeOK
    <2>2. Old'
      BY DEF IInv, Old, WorkShape, NamesAreFresh, WorkDisk, HalvesAreExplained,
             NothingIsLost, MigratedRows, PlainRows, NoOldOrphans
    <2>3. New'
      BY DEF IInv, New, RequestShape, NewRows, NoNewOrphans, ImportsAreWhole
    <2>4. QED BY <2>1, <2>2, <2>3 DEF IInv
  <1>3. QED BY <1>1, <1>2

\* The invariant holds in every reachable state.
THEOREM Invariance == Spec => []IInv
  BY InitIInv, NextIInv, PTL DEF Spec

-----------------------------------------------------------------------------
(* What it says *)

\* Every variable keeps its type; in particular no file is whole and torn.
THEOREM TypeCorrect == Spec => []TypeOK
  <1>1. IInv => TypeOK
    BY DEF IInv
  <1>2. QED BY <1>1, Invariance, PTL

\* The migration loses no document: wherever it is cut short, all of it is still
\* on disk, unless migrateTaxDocument failed to write it back.
THEOREM DocumentsSurvive == Spec => []NothingIsLost
  <1>1. IInv => NothingIsLost
    BY DEF IInv, Old
  <1>2. QED BY <1>1, Invariance, PTL

\* A serving server lists complete encrypted files, with the two exceptions that
\* the property names.
THEOREM ListedFilesAreReadable == Spec => []ServedIsReadable
  <1>1. IInv => ServedIsReadable
    <2> SUFFICES ASSUME IInv, mode = "serving",
                        NEW d \in listed, d \notin forgotten \cup halved
                 PROVE  path[d] # 0 /\ <<d, path[d]>> \in whole
      BY DEF ServedIsReadable, Downloads, ReadDocument
    <2>1. CASE d \in Legacy
      BY <2>1 DEF IInv, Old, WorkShape, MigratedRows
    <2>2. CASE d \notin Legacy
      <3>1. NewRows
        BY DEF IInv, New
      <3>2. path[d] = 1 /\ <<d, 1>> \in whole
        BY <2>2, <3>1 DEF NewRows
      <3>3. QED BY <3>2
    <2>3. QED BY <2>1, <2>2
  <1>2. QED BY <1>1, Invariance, PTL

\* No plaintext outlives its migration.
THEOREM PlaintextIsGone == Spec => []NoPlaintextLeft
  <1>1. IInv => NoPlaintextLeft
    <2> SUFFICES ASSUME IInv, NEW d \in listed, mode = "serving" \/ path[d] # 0
                 PROVE  ~Exists(Plain(d))
      BY DEF NoPlaintextLeft
    <2>1. CASE d \in Legacy
      BY <2>1 DEF IInv, Old, WorkShape, MigratedRows
    <2>2. CASE d \notin Legacy
      BY <2>2 DEF IInv, New, NewRows, Plain, Exists
    <2>3. QED BY <2>1, <2>2
  <1>2. QED BY <1>1, Invariance, PTL

\* A document is missing only after a stop or a failure between the removal of
\* its plaintext and the commit.
THEOREM MissingDocumentsAreExplained == Spec => []MissingIsExplained
  <1>1. IInv => MissingIsExplained
    <2> SUFFICES ASSUME IInv, NEW d \in listed,
                        d \notin Seeded \cup cut \cup unrestored,
                        path[d] = 0, current # d
                 PROVE  Exists(Plain(d))
      BY DEF MissingIsExplained
    <2>1. NewRows
      BY DEF IInv, New
    <2>2. CASE d \notin Legacy
      <3>1. path[d] = 1
        BY <2>1, <2>2 DEF NewRows
      <3>2. QED BY <3>1
    <2>3. CASE d \in Legacy
      BY <2>3 DEF IInv, Old, PlainRows
    <2>4. QED BY <2>2, <2>3
  <1>2. QED BY <1>1, Invariance, PTL

\* Every error path removes the files it has written.
THEOREM FilesHaveOwners == Spec => []NoOrphans
  <1>1. IInv => NoOrphans
    <2> USE DEF IInv, TypeOK, Files, Documents, NoOrphans
    <2> SUFFICES ASSUME IInv, clean, NEW f \in whole \cup torn
                 PROVE  \/ f[1] \in listed /\ path[f[1]] = f[2]
                        \/ f[1] = current
                        \/ \E r \in Requests :
                              pc[r] = "storing" /\ f[1] \in Carries[r]
      OBVIOUS
    <2>1. CASE f[1] \in Legacy
      BY <2>1 DEF Old, WorkShape, NoOldOrphans
    <2>2. CASE f[1] \notin Legacy
      BY <2>2 DEF New, NewRows, NoNewOrphans
    <2>3. QED BY <2>1, <2>2
  <1>2. QED BY <1>1, Invariance, PTL

\* The rows of an archive appear together or not at all.
THEOREM ArchivesAreWhole == Spec => []ImportsAreWhole
  <1>1. IInv => ImportsAreWhole
    BY DEF IInv, New
  <1>2. QED BY <1>1, Invariance, PTL
=============================================================================
