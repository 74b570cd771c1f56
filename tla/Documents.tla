----------------------------- MODULE Documents -----------------------------
(***************************************************************************)
(* The tax documents of src/: a file on disk and a row that names it.      *)
(*                                                                         *)
(* When the server starts it encrypts documents that an older version has  *)
(* stored as plaintext (storage/migrations.go): for each such row it       *)
(* writes an encrypted copy, updates the row in a transaction, removes the *)
(* plaintext and commits; if the commit fails it writes the plaintext      *)
(* again.  Once it serves, customers upload documents and support staff    *)
(* imports archives of them (uploads/, support/).  The server may stop     *)
(* between any two steps, and starts again with what is on disk.           *)
(*                                                                         *)
(* A file is named by its document and a number: 0 for the plaintext, and  *)
(* from 1 on for encrypted copies, which get a fresh name each time.  A    *)
(* file exists from its creation; it is torn until all of the document has *)
(* been written, and for ever when a part is all that was read.            *)
(***************************************************************************)
EXTENDS Naturals, FiniteSets

CONSTANTS
    Legacy,    \* documents with a row that names a plaintext file at first
    Seeded,    \* those whose contents are also in the fixture directory
    Uploads,   \* POST /account/tax-exemption/files
    Imports,   \* POST /support/tax-exemptions/import
    Carries,   \* [Uploads \cup Imports -> the documents a request brings]
    MaxStarts  \* bound: how often the server is started

Nobody == "nobody"
Requests == Uploads \cup Imports
Documents == Legacy \cup UNION {Carries[r] : r \in Requests}

ASSUME SeededAreLegacy == Seeded \subseteq Legacy
ASSUME NobodyIsNoDocument == Nobody \notin Documents
ASSUME StartBound == MaxStarts \in Nat
ASSUME UploadsCarryOne ==
    /\ Uploads \cap Imports = {}
    /\ \A r \in Uploads : \E d \in Carries[r] : Carries[r] = {d}
ASSUME RequestsCarryTheirOwn ==
    /\ \A r \in Requests : Carries[r] # {} /\ Carries[r] \cap Legacy = {}
    /\ \A r, s \in Requests : r # s => Carries[r] \cap Carries[s] = {}

VARIABLES
    \* uploaded_files and imported_tax_documents
    listed,      \* documents that have a row
    path,        \* [Documents -> Nat]: the file their row names
    \* the disk
    whole,       \* files that hold all of their document
    torn,        \* files that hold a part of it
    copies,      \* [Documents -> Nat]: encrypted copies created so far
    \* the server
    mode,        \* "stopped", "migrating" or "serving"
    starts,      \* how often it has been started
    todo,        \* rows listed for migration and not migrated yet
    current,     \* the document being migrated, or Nobody
    stage,       \* how far it is
    held,        \* removeSource: its plaintext was found in its place
    sound,       \* what was read of it is all of it
    \* requests
    pc,          \* [Requests -> where the handler is]
    reply,       \* [Requests -> its answer]
    \* bookkeeping
    cut,         \* documents the server stopped on after removing a plaintext
    unrestored,  \* documents whose plaintext could not be written again
    halved,      \* documents of whose plaintext a part was left on disk
    forgotten,   \* uploads whose row was written but could not be read back
    clean        \* no stop amid work and no failed removal so far

rows == <<listed, path>>
disk == <<whole, torn, copies>>
work == <<todo, current, stage, held, sound>>
server == <<mode, starts, work>>
requests == <<pc, reply>>
history == <<cut, unrestored, halved, forgotten, clean>>
vars == <<rows, disk, server, requests, history>>

Stages == {"none", "read", "writing", "stored", "removed", "restoring",
           "discarding"}
Places == {"idle", "storing", "recorded", "done"}
Replies == {"none", "stored", "error", "lost"}

\* The rows listed for migration: those that do not name an .enc file.
PlaintextRows == {d \in listed : path[d] = 0}

Plain(d) == <<d, 0>>
Copy(d) == <<d, copies[d]>>
Exists(f) == f \in whole \cup torn
FilesOf(r) == {f \in whole \cup torn : f[1] \in Carries[r]}

\* ReadDocument decrypts a whole file, and no plaintext.
ReadDocument(f) == f \in whole /\ f[2] # 0

\* A download of the document finds its row, and the file the row names.
Downloads(d) == d \in listed /\ ReadDocument(<<d, path[d]>>)

-----------------------------------------------------------------------------
(* MigrateSensitiveDataAtRest *)

\* run and New: the rows to migrate are listed.
Start ==
    /\ mode = "stopped" /\ starts < MaxStarts
    /\ mode' = "migrating"
    /\ starts' = starts + 1
    /\ todo' = PlaintextRows
    /\ UNCHANGED <<rows, disk, current, stage, held, sound, requests, history>>

\* An error of the migration is an error of New, and run returns.
Exit ==
    /\ mode' = "stopped"
    /\ todo' = {} /\ current' = Nobody /\ stage' = "none"
    /\ held' = FALSE /\ sound' = FALSE
    /\ UNCHANGED <<starts, requests>>

At(place) == mode = "migrating" /\ stage = place
Moves(place) ==
    /\ stage' = place
    /\ UNCHANGED <<mode, starts, todo, current, held, sound, requests>>

\* The contents come from the row's file, or from the fixture if there is none.
ReadSource(d) ==
    /\ At("none") /\ d \in todo
    /\ Exists(Plain(d)) \/ d \in Seeded
    /\ current' = d /\ stage' = "read"
    /\ held' = Exists(Plain(d))
    /\ sound' = (Plain(d) \notin torn)
    /\ UNCHANGED <<rows, disk, mode, starts, todo, requests, history>>

\* Fault: the migration waits for the document.
SourceMissingWaits(d) ==
    /\ At("none") /\ d \in todo
    /\ ~Exists(Plain(d)) /\ d \notin Seeded
    /\ UNCHANGED vars

\* "missing plaintext tax document": the server does not start.
SourceMissing(d) ==
    /\ At("none") /\ d \in todo
    /\ ~Exists(Plain(d)) /\ d \notin Seeded
    /\ Exit
    /\ UNCHANGED <<rows, disk, history>>

\* StoreDocument: the type is detected, and the copy created under a new name.
CreateCopy ==
    /\ At("read")
    /\ copies' = [copies EXCEPT ![current] = @ + 1]
    /\ torn' = torn \cup {<<current, copies[current] + 1>>}
    /\ Moves("writing")
    /\ UNCHANGED <<rows, whole, history>>

\* The rows can not be listed, the source can not be read or has no known type,
\* no file can be created, or a later step of New fails.
GiveUp ==
    /\ At("none") \/ At("read")
    /\ Exit
    /\ UNCHANGED <<rows, disk, history>>

\* Fault: the result of WriteString is not looked at.
WriteCopyUnchecked ==
    /\ At("writing")
    /\ \/ whole' = whole \cup {Copy(current)} /\ torn' = torn \ {Copy(current)}
       \/ UNCHANGED <<whole, torn>>
    /\ Moves("stored")
    /\ UNCHANGED <<rows, copies, history>>

WriteCopy ==
    /\ At("writing")
    /\ IF sound
       THEN /\ whole' = whole \cup {Copy(current)}
            /\ torn' = torn \ {Copy(current)}
       ELSE UNCHANGED <<whole, torn>>
    /\ Moves("stored")
    /\ UNCHANGED <<rows, copies, history>>

\* RemoveDocument of the copy, which may itself fail, and the way out.
DropCopy ==
    /\ \/ /\ whole' = whole \ {Copy(current)} /\ torn' = torn \ {Copy(current)}
          /\ UNCHANGED clean
       \/ clean' = FALSE /\ UNCHANGED <<whole, torn>>
    /\ Exit
    /\ UNCHANGED <<rows, copies, cut, unrestored, halved, forgotten>>

\* The write fails; or BeginTx, the UPDATE or the removal of the plaintext does.
AbandonCopy == (At("writing") \/ At("stored")) /\ DropCopy

\* Fault: the plaintext is removed before its copy is written.
RemoveSourceEarly ==
    /\ At("writing")
    /\ IF held
       THEN whole' = whole \ {Plain(current)} /\ torn' = torn \ {Plain(current)}
       ELSE UNCHANGED <<whole, torn>>
    /\ Moves("removed")
    /\ UNCHANGED <<rows, copies, history>>

\* Fault: the plaintext is not removed.
RemoveSourceForgotten ==
    /\ At("stored")
    /\ Moves("removed")
    /\ UNCHANGED <<rows, disk, history>>

\* Inside the transaction, with the row updated in it.
RemoveSource ==
    /\ At("stored")
    /\ IF held
       THEN whole' = whole \ {Plain(current)} /\ torn' = torn \ {Plain(current)}
       ELSE UNCHANGED <<whole, torn>>
    /\ Moves("removed")
    /\ UNCHANGED <<rows, copies, history>>

UpdateStorage(d) == path' = [path EXCEPT ![d] = copies[d]]

CommitRow ==
    /\ At("removed")
    /\ UpdateStorage(current)
    /\ todo' = todo \ {current}
    /\ current' = Nobody /\ stage' = "none" /\ held' = FALSE /\ sound' = FALSE
    /\ UNCHANGED <<listed, disk, mode, starts, requests, history>>

\* Fault: a failed commit only discards the copy.
CommitFailsOnly ==
    /\ At("removed")
    /\ Moves("discarding")
    /\ UNCHANGED <<rows, disk, history>>

\* restorePlaintextDocument begins: the file is created, or can not be.
CommitFails ==
    /\ At("removed")
    /\ \/ ~held /\ Moves("discarding") /\ UNCHANGED <<torn, unrestored>>
       \/ /\ held
          /\ torn' = torn \cup {Plain(current)}
          /\ Moves("restoring")
          /\ UNCHANGED unrestored
       \/ /\ held
          /\ unrestored' = unrestored \cup {current}
          /\ Moves("discarding")
          /\ UNCHANGED torn
    /\ UNCHANGED <<rows, whole, copies, cut, halved, forgotten, clean>>

Restore ==
    /\ At("restoring")
    /\ IF sound
       THEN /\ whole' = whole \cup {Plain(current)}
            /\ torn' = torn \ {Plain(current)}
       ELSE UNCHANGED <<whole, torn>>
    /\ Moves("discarding")
    /\ UNCHANGED <<rows, copies, history>>

\* The write fails, and what there is of the file is removed if possible.
RestoreFails ==
    /\ At("restoring")
    /\ unrestored' = unrestored \cup {current}
    /\ \/ torn' = torn \ {Plain(current)} /\ UNCHANGED <<halved, clean>>
       \/ /\ halved' = halved \cup {current}
          /\ clean' = FALSE
          /\ UNCHANGED torn
    /\ Moves("discarding")
    /\ UNCHANGED <<rows, whole, copies, cut, forgotten>>

\* discardMigratedDocument, after a commit that failed.
Discard == At("discarding") /\ DropCopy

\* New goes on, and the server listens.
Serve ==
    /\ At("none") /\ todo = {}
    /\ mode' = "serving"
    /\ UNCHANGED <<rows, disk, starts, work, requests, history>>

-----------------------------------------------------------------------------
(* Uploads and imports *)

Answers(r, answer) ==
    /\ pc' = [pc EXCEPT ![r] = "done"]
    /\ reply' = [reply EXCEPT ![r] = answer]

\* The form is well-formed and its documents have a type.
Arrive(r) ==
    /\ mode = "serving" /\ pc[r] = "idle"
    /\ pc' = [pc EXCEPT ![r] = "storing"]
    /\ UNCHANGED <<rows, disk, server, reply, history>>

\* A file of a customer, and an archive of support staff, within their limits.
ReadUpload(r) == r \in Uploads /\ Arrive(r)
ReadArchive(r) == r \in Imports /\ Arrive(r)

\* writeDocument, or one entry of an archive; entries are written in turn.
OpenFile(r, d) ==
    /\ pc[r] = "storing"
    /\ copies[d] = 0
    /\ torn \cap FilesOf(r) = {}
    /\ copies' = [copies EXCEPT ![d] = 1]
    /\ torn' = torn \cup {<<d, 1>>}
    /\ UNCHANGED <<rows, whole, server, requests, history>>

WriteFile(r, d) ==
    /\ pc[r] = "storing"
    /\ <<d, 1>> \in torn
    /\ whole' = whole \cup {<<d, 1>>}
    /\ torn' = torn \ {<<d, 1>>}
    /\ UNCHANGED <<rows, copies, server, requests, history>>

\* RemoveDocument or DiscardExtractedTaxDocumentArchive: some may stay.
RemoveFiles(r) ==
    \E left \in SUBSET FilesOf(r) :
        /\ whole' = whole \ (FilesOf(r) \ left)
        /\ torn' = torn \ (FilesOf(r) \ left)
        /\ clean' = (clean /\ left = {})

\* Fault: an import whose rows can not be written keeps its files.
AbandonKeepingFiles(r) ==
    /\ pc[r] = "storing"
    /\ Answers(r, "error")
    /\ UNCHANGED <<rows, disk, server, history>>

\* A write fails, or the statement or transaction that inserts the rows does.
Abandon(r) ==
    /\ pc[r] = "storing"
    /\ RemoveFiles(r)
    /\ Answers(r, "error")
    /\ UNCHANGED <<rows, copies, server, cut, unrestored, halved, forgotten>>

\* Fault: the rows of an archive are inserted without a transaction.
RecordOneByOne(r) ==
    /\ pc[r] = "storing"
    /\ \A d \in Carries[r] : <<d, 1>> \in whole
    /\ \E d \in Carries[r] \ listed :
          /\ listed' = listed \cup {d}
          /\ path' = [path EXCEPT ![d] = 1]
    /\ IF Carries[r] \subseteq listed'
       THEN Answers(r, "stored") ELSE UNCHANGED <<pc, reply>>
    /\ UNCHANGED <<disk, server, history>>

CreateRows(ds) ==
    /\ listed' = listed \cup ds
    /\ path' = [d \in Documents |-> IF d \in ds THEN 1 ELSE path[d]]

\* Create inserts one row, and reads it back afterwards.
Create(r) ==
    /\ r \in Uploads
    /\ CreateRows(Carries[r])
    /\ pc' = [pc EXCEPT ![r] = "recorded"] /\ UNCHANGED reply

\* CreateImported inserts all rows of an archive in one transaction, which
\* reads them too.
CreateImported(r) ==
    /\ r \in Imports
    /\ CreateRows(Carries[r])
    /\ Answers(r, "stored")

Record(r) ==
    /\ pc[r] = "storing"
    /\ \A d \in Carries[r] : <<d, 1>> \in whole
    /\ Create(r) \/ CreateImported(r)
    /\ UNCHANGED <<disk, server, history>>

\* FindByID.
ReadBack(r) ==
    /\ pc[r] = "recorded"
    /\ Answers(r, "stored")
    /\ UNCHANGED <<rows, disk, server, history>>

\* FindByID fails: Upload takes this for a row that was not written.
ReadBackFails(r) ==
    /\ pc[r] = "recorded"
    /\ RemoveFiles(r)
    /\ forgotten' = forgotten \cup Carries[r]
    /\ Answers(r, "error")
    /\ UNCHANGED <<rows, copies, server, cut, unrestored, halved>>

-----------------------------------------------------------------------------

\* The server stops between two steps: SQLite undoes an open transaction, files
\* stay as they are.
Stop ==
    /\ mode # "stopped"
    /\ mode' = "stopped"
    /\ todo' = {} /\ current' = Nobody /\ stage' = "none"
    /\ held' = FALSE /\ sound' = FALSE
    /\ pc' = [r \in Requests |-> IF pc[r] = "idle" THEN "idle" ELSE "done"]
    /\ reply' = [r \in Requests |->
                   IF pc[r] \in {"idle", "done"} THEN reply[r] ELSE "lost"]
    /\ cut' = IF stage \in {"removed", "restoring"} /\ held
              THEN cut \cup {current} ELSE cut
    /\ halved' = IF stage = "restoring" THEN halved \cup {current} ELSE halved
    /\ clean' = /\ clean /\ stage \in {"none", "read"}
                /\ \A r \in Requests : pc[r] # "storing"
    /\ UNCHANGED <<rows, disk, starts, unrestored, forgotten>>

Init ==
    /\ listed = Legacy
    /\ path = [d \in Documents |-> 0]
    /\ whole \in SUBSET {Plain(d) : d \in Legacy}
    /\ \A d \in Legacy \ Seeded : Plain(d) \in whole
    /\ torn = {}
    /\ copies = [d \in Documents |-> 0]
    /\ mode = "stopped" /\ starts = 0
    /\ todo = {} /\ current = Nobody /\ stage = "none"
    /\ held = FALSE /\ sound = FALSE
    /\ pc = [r \in Requests |-> "idle"]
    /\ reply = [r \in Requests |-> "none"]
    /\ cut = {} /\ unrestored = {} /\ halved = {}
    /\ forgotten = {} /\ clean = TRUE

Migrates ==
    \/ \E d \in Legacy : ReadSource(d) \/ SourceMissing(d)
    \/ CreateCopy \/ GiveUp \/ WriteCopy \/ AbandonCopy \/ RemoveSource
    \/ CommitRow \/ CommitFails \/ Restore \/ RestoreFails \/ Discard \/ Serve

\* What the migration does when nothing fails, and to clean up.
Proceeds ==
    \/ \E d \in Legacy : ReadSource(d) \/ SourceMissing(d)
    \/ CreateCopy \/ WriteCopy \/ RemoveSource \/ CommitRow
    \/ Restore \/ Discard \/ Serve

Handles(r) ==
    \/ ReadUpload(r) \/ ReadArchive(r)
    \/ \E d \in Carries[r] : OpenFile(r, d) \/ WriteFile(r, d)
    \/ Abandon(r) \/ Record(r) \/ ReadBack(r) \/ ReadBackFails(r)

Next == Start \/ Migrates \/ (\E r \in Requests : Handles(r)) \/ Stop

Spec == Init /\ [][Next]_vars

\* The goroutine of run goes on while the process lives, with a step of its own
\* when none of them fails.
LiveSpec == Spec /\ WF_vars(Proceeds)

-----------------------------------------------------------------------------
(* Properties *)

Files == Documents \X Nat

TypeOK ==
    /\ listed \subseteq Documents /\ path \in [Documents -> Nat]
    /\ whole \subseteq Files /\ torn \subseteq Files /\ whole \cap torn = {}
    /\ copies \in [Documents -> Nat]
    /\ mode \in {"stopped", "migrating", "serving"} /\ starts \in 0..MaxStarts
    /\ todo \subseteq Legacy /\ current \in Legacy \cup {Nobody}
    /\ stage \in Stages /\ held \in BOOLEAN /\ sound \in BOOLEAN
    /\ pc \in [Requests -> Places] /\ reply \in [Requests -> Replies]
    /\ cut \subseteq Legacy /\ unrestored \subseteq Legacy
    /\ halved \subseteq Legacy
    /\ forgotten \subseteq Documents /\ clean \in BOOLEAN

\* However often the migration is cut short, and wherever, all of a document
\* that was there before it is still on the disk, unless writing it back failed.
NothingIsLost ==
    \A d \in Legacy \ (Seeded \cup unrestored) :
        \E f \in whole : f[1] = d

\* What a serving server lists can be downloaded: every row names a complete
\* encrypted file.  The exceptions are an upload that was answered with an error
\* after its row was written, and a document of whose plaintext only a part was
\* left, when the server stopped or failed while it was written back.
ServedIsReadable ==
    mode = "serving" =>
        \A d \in listed \ (forgotten \cup halved) : Downloads(d)

\* No plaintext is left of a document whose row names an encrypted file, and
\* none at all when the server serves.
NoPlaintextLeft ==
    \A d \in listed :
        mode = "serving" \/ path[d] # 0 => ~Exists(Plain(d))

\* A start fails for want of a document only when an earlier one stopped, or
\* could not write back, between the removal of its plaintext and the commit.
MissingIsExplained ==
    \A d \in listed \ (Seeded \cup cut \cup unrestored) :
        path[d] = 0 /\ current # d => Exists(Plain(d))

\* As long as nothing has stopped the server amid work and every removal has
\* succeeded, a file is named by a row or belongs to work in progress.
NoOrphans ==
    clean =>
        \A f \in whole \cup torn :
            \/ f[1] \in listed /\ path[f[1]] = f[2]
            \/ f[1] = current
            \/ \E r \in Requests : pc[r] = "storing" /\ f[1] \in Carries[r]

\* An import is all or nothing: its rows appear together, and an import that is
\* answered with an error has none.
ImportsAreWhole ==
    \A r \in Imports :
        /\ Carries[r] \subseteq listed \/ Carries[r] \cap listed = {}
        /\ reply[r] = "error" => Carries[r] \cap listed = {}

\* The server comes up or gives up.
MigrationEnds == mode = "migrating" ~> mode # "migrating"

\* What the list of a customer's documents offers: a link that downloads each.
ListedIsReadable ==
    mode = "serving" => \A d \in listed : Downloads(d)
=============================================================================
