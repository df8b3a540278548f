------------------------------ MODULE Storage ------------------------------
(***************************************************************************)
(* Where the bytes of one event are: originals and exports in R2, archive  *)
(* copies in Google Drive, and what the database says of both.             *)
(*                                                                         *)
(*   internal/archive/service.go, platform/database/archive_repository.go  *)
(*   internal/retention/*.go, internal/exportjob/*.go                      *)
(*   internal/media/service.go (SignPage, ReadURL), httpapi: MediaContent, *)
(*   serveArchivedOriginal; cmd/api/main.go (the schedules)                *)
(*                                                                         *)
(* The archiver runs on every replica, retention by schedule or planctl,   *)
(* one exporter here; each call to R2, Drive or the database is a step, so *)
(* the others run in between, and any call may fail or be the last.        *)
(* MediaUpload models how an upload comes to be ready.  Age is left out: a *)
(* ready item is old enough to be archived.                                *)
(***************************************************************************)
EXTENDS Naturals, Sequences, FiniteSets, FiniteSetsExt

CONSTANTS
    MaxMedia,      \* bound: media of the event, oldest first
    Broken,        \* media whose copying always fails
    MaxCopies,     \* bound: copies made of one item
    Archivers,
    Batch,         \* candidates one run reads
    MaxExports,    \* bound: export jobs
    MaxHappens     \* bound: moderations, turns of the period, exports asked
                   \* for, failed calls and stopped processes, altogether

Media == 1..MaxMedia
Copies == Media \X (1..MaxCopies)
Exports == 1..MaxExports

ASSUME StorageAssumption ==
    /\ MaxMedia \in Nat /\ MaxCopies \in Nat /\ MaxExports \in Nat /\ MaxHappens \in Nat
    /\ Batch \in Nat \ {0}
    /\ Broken \subseteq Media

VARIABLES
    open,          \* the event takes uploads
    due,           \* its storage period and grace period are over
    purged,        \* media_purged_at
    status,        \* of a media row
    object,        \* its original is in R2
    sourceDeleted, \* its source_deleted_at is set
    r2Deleted,     \* its r2 replica row says deleted
    drive,         \* copies that exist in Drive
    replica,       \* what the google_drive row of a copy says
    arch,          \* of an archiver: where it is
    purge,         \* where the retention run is
    jobs,          \* event_exports, oldest first
    asking,        \* requests that found no active export
    zips,          \* export objects in R2
    exporter,      \* where the export loop is
    happened,
    swept,         \* history: a purge has begun to delete
    overlap        \* history: something was stored while a purge ran

eventVars == <<open, due, purged>>
rowVars == <<status, sourceDeleted, r2Deleted, replica>>
storeVars == <<object, drive, zips>>
exportVars == <<jobs, asking, exporter>>
vars == <<eventVars, rowVars, storeVars, arch, purge, exportVars, happened, swept, overlap>>

Verified(m) == {c \in Copies : c[1] = m /\ replica[c] = "verified"}
Oldest(s) == {m \in s : Cardinality({n \in s : n < m}) < Batch}

Stored == overlap' = (overlap \/ purge.pc # "idle")
Happens == happened < MaxHappens /\ happened' = happened + 1

-----------------------------------------------------------------------------
(* Uploads and moderation *)

\* ReserveUpload; then the guest puts the object and completes.
Reserve(m) ==
    /\ open /\ status[m] = "none"
    /\ status' = [status EXCEPT ![m] = "uploading"]
    /\ UNCHANGED <<eventVars, sourceDeleted, r2Deleted, replica, storeVars, arch, purge,
                   exportVars, happened, swept, overlap>>

\* The link that was handed out works whatever becomes of the row; it is
\* over long before a ready item is old enough to be archived.
PutObject(m) ==
    /\ status[m] \in {"uploading", "deleted"} /\ ~object[m] /\ Verified(m) = {}
    /\ object' = [object EXCEPT ![m] = TRUE]
    /\ Stored
    /\ UNCHANGED <<eventVars, rowVars, drive, zips, arch, purge, exportVars, happened, swept>>

MarkUploadReady(m) ==
    /\ status[m] = "uploading" /\ object[m]
    /\ status' = [status EXCEPT ![m] = "ready"]
    /\ UNCHANGED <<eventVars, sourceDeleted, r2Deleted, replica, storeVars, arch, purge,
                   exportVars, happened, swept, overlap>>

Shown == {"ready", "featured", "hidden"}

\* Hide, show or delete; nothing stored is touched.
Moderate(m, s) ==
    /\ status[m] \in Shown /\ s # status[m]
    /\ Happens
    /\ status' = [status EXCEPT ![m] = s]
    /\ UNCHANGED <<eventVars, sourceDeleted, r2Deleted, replica, storeVars, arch, purge,
                   exportVars, swept, overlap>>

\* The storage period runs out, and an upgrade may extend it.
Period ==
    /\ Happens
    /\ due' = ~due
    /\ UNCHANGED <<open, purged, rowVars, storeVars, arch, purge, exportVars, swept, overlap>>

-----------------------------------------------------------------------------
(* The archiver *)

Idle == [pc |-> "idle", phase |-> "idle", todo |-> {}, copy |-> <<0, 0>>]

SourceDeletionPending == {m \in Media : Verified(m) # {} /\ ~r2Deleted[m]}
ArchiveCandidates == {m \in Media : status[m] = "ready" /\ Verified(m) = {}}

\* Run: what an earlier run copied and did not remove comes first.  The query has
\* a row for each verified copy, the oldest verified_at first: any items, fewer
\* than the batch when one of them has several copies.
ListSourceDeletionPending(a) ==
    /\ arch[a].pc = "idle"
    /\ \E s \in SUBSET SourceDeletionPending :
          /\ Cardinality(s) <= Batch /\ (s = {} => SourceDeletionPending = {})
          /\ arch' = [arch EXCEPT ![a] = [Idle EXCEPT !.pc = "sources", !.phase = "sources",
                                                      !.todo = s]]
    /\ UNCHANGED <<eventVars, rowVars, storeVars, purge, exportVars, happened, swept, overlap>>

ListForArchive(a) ==
    /\ arch[a].pc = "sources" /\ arch[a].todo = {}
    /\ arch' = [arch EXCEPT ![a] = [Idle EXCEPT !.pc = "copies", !.phase = "copies",
                                                !.todo = Oldest(ArchiveCandidates)]]
    /\ UNCHANGED <<eventVars, rowVars, storeVars, purge, exportVars, happened, swept, overlap>>

ArchiveEnds(a) ==
    /\ arch[a].pc = "copies" /\ arch[a].todo = {}
    /\ arch' = [arch EXCEPT ![a] = Idle]
    /\ UNCHANGED <<eventVars, rowVars, storeVars, purge, exportVars, happened, swept, overlap>>

DeleteSource(a, m) ==
    /\ arch[a].pc = "sources" /\ m \in arch[a].todo
    /\ arch' = [arch EXCEPT ![a].pc = "remove", ![a].copy = <<m, 0>>]
    /\ UNCHANGED <<eventVars, rowVars, storeVars, purge, exportVars, happened, swept, overlap>>

\* The original is read, uploaded, read back and compared.
Upload(a, m) ==
    /\ arch[a].pc = "copies" /\ m \in arch[a].todo \ Broken
    /\ object[m]
    /\ \E c \in Copies :
          /\ c[1] = m /\ c \notin drive /\ replica[c] = "none"
          /\ \A d \in Copies : d[1] = m /\ d[2] < c[2] => d \in drive \/ replica[d] # "none"
          /\ drive' = drive \cup {c}
          /\ arch' = [arch EXCEPT ![a].pc = "record", ![a].copy = c]
    /\ Stored
    /\ UNCHANGED <<eventVars, rowVars, object, zips, purge, exportVars, happened, swept>>

\* Variant: an error of the database is ignored.
RecordVerifiedLost(a) ==
    /\ arch[a].pc = "record"
    /\ arch' = [arch EXCEPT ![a].pc = "remove"]
    /\ Stored
    /\ UNCHANGED <<eventVars, rowVars, storeVars, purge, exportVars, happened, swept>>

RecordVerified(a) ==
    /\ arch[a].pc = "record"
    /\ replica' = [replica EXCEPT ![arch[a].copy] = "verified"]
    /\ arch' = [arch EXCEPT ![a].pc = "remove"]
    /\ Stored
    /\ UNCHANGED <<eventVars, status, sourceDeleted, r2Deleted, storeVars, purge, exportVars,
                   happened, swept>>

DeleteObject(a) ==
    /\ arch[a].pc = "remove"
    /\ object' = [object EXCEPT ![arch[a].copy[1]] = FALSE]
    /\ arch' = [arch EXCEPT ![a].pc = "mark"]
    /\ UNCHANGED <<eventVars, rowVars, drive, zips, purge, exportVars, happened, swept, overlap>>

\* On to the next item of the list.
NextItem(a) ==
    arch' = [arch EXCEPT ![a] = [Idle EXCEPT !.pc = arch[a].phase, !.phase = arch[a].phase,
                                             !.todo = arch[a].todo \ {arch[a].copy[1]}]]

\* Variant: the flag the galleries read is forgotten.
MarkSourceDeletedUnflagged(a) ==
    /\ arch[a].pc = "mark"
    /\ r2Deleted' = [r2Deleted EXCEPT ![arch[a].copy[1]] = TRUE]
    /\ NextItem(a)
    /\ UNCHANGED <<eventVars, status, sourceDeleted, replica, storeVars, purge, exportVars,
                   happened, swept, overlap>>

\* The replica row and the flag in one transaction.
MarkSourceDeleted(a) ==
    /\ arch[a].pc = "mark"
    /\ r2Deleted' = [r2Deleted EXCEPT ![arch[a].copy[1]] = TRUE]
    /\ sourceDeleted' = [sourceDeleted EXCEPT ![arch[a].copy[1]] = TRUE]
    /\ NextItem(a)
    /\ UNCHANGED <<eventVars, status, replica, storeVars, purge, exportVars, happened, swept,
                   overlap>>

\* Variant: an item that fails ends the run.
CopyFailsRun(a, m) ==
    /\ arch[a].pc = "copies" /\ m \in arch[a].todo
    /\ m \in Broken \/ ~object[m]
    /\ arch' = [arch EXCEPT ![a] = Idle]
    /\ UNCHANGED <<eventVars, rowVars, storeVars, purge, exportVars, happened, swept, overlap>>

\* An item that cannot be copied is noted, and the run goes on.
CopyFails(a, m) ==
    /\ arch[a].pc = "copies" /\ m \in arch[a].todo
    /\ m \in Broken \/ ~object[m]
    /\ arch' = [arch EXCEPT ![a].todo = @ \ {m}]
    /\ UNCHANGED <<eventVars, rowVars, storeVars, purge, exportVars, happened, swept, overlap>>

\* As is one whose removal or record fails; a copy that does not compare is
\* deleted, if that works.
ItemFails(a) ==
    /\ arch[a].pc \in {"record", "remove", "mark"}
    /\ Happens
    /\ NextItem(a)
    /\ \/ arch[a].pc = "record" /\ drive' = drive \ {arch[a].copy}
       \/ UNCHANGED drive
    /\ UNCHANGED <<eventVars, rowVars, object, zips, purge, exportVars, swept, overlap>>

\* The process stops, or the run's half hour is over.
ArchiverStops(a) ==
    /\ arch[a].pc # "idle"
    /\ Happens
    /\ arch' = [arch EXCEPT ![a] = Idle]
    /\ UNCHANGED <<eventVars, rowVars, storeVars, purge, exportVars, swept, overlap>>

-----------------------------------------------------------------------------
(* Retention *)

NoPurge == [pc |-> "idle", client |-> FALSE, todo |-> {}, copy |-> <<0, 0>>]

\* Run lists the event; planctl may have no Drive client.
Candidates(client) ==
    /\ purge.pc = "idle"
    /\ due /\ ~purged
    /\ purge' = [NoPurge EXCEPT !.pc = "listed", !.client = client]
    /\ overlap' = FALSE
    /\ UNCHANGED <<eventVars, rowVars, storeVars, arch, exportVars, happened, swept>>

\* Variant: copies nobody can reach are left where they are.
ArchivedReplicasSkipped ==
    /\ purge.pc = "listed"
    /\ purge' = [purge EXCEPT !.pc = "copies",
                              !.todo = IF purge.client
                                         THEN {c \in Copies : replica[c] = "verified"} ELSE {}]
    /\ UNCHANGED <<eventVars, rowVars, storeVars, arch, exportVars, happened, swept, overlap>>

\* Without a client an event that has copies is not purged.
ArchivedReplicas ==
    /\ purge.pc = "listed"
    /\ LET found == {c \in Copies : replica[c] = "verified"}
       IN purge' = IF found # {} /\ ~purge.client THEN NoPurge
                   ELSE [purge EXCEPT !.pc = "copies", !.todo = found]
    /\ UNCHANGED <<eventVars, rowVars, storeVars, arch, exportVars, happened, swept, overlap>>

DeleteCopy(c) ==
    /\ purge.pc = "copies" /\ c \in purge.todo
    /\ drive' = drive \ {c}
    /\ purge' = [purge EXCEPT !.pc = "unmarked", !.copy = c]
    /\ swept' = TRUE
    /\ UNCHANGED <<eventVars, rowVars, object, zips, arch, exportVars, happened, overlap>>

MarkReplicaDeleted ==
    /\ purge.pc = "unmarked"
    /\ replica' = [replica EXCEPT ![purge.copy] = "deleted"]
    /\ purge' = [purge EXCEPT !.pc = "copies", !.todo = @ \ {purge.copy}]
    /\ UNCHANGED <<eventVars, status, sourceDeleted, r2Deleted, storeVars, arch, exportVars,
                   happened, swept, overlap>>

\* Variant: the sweep does not wait for the copies to be gone.
DeletePrefixEarly ==
    /\ purge.pc = "copies"
    /\ swept' = TRUE
    /\ object' = [m \in Media |-> FALSE] /\ zips' = {}
    /\ purge' = [purge EXCEPT !.pc = "mark"]
    /\ UNCHANGED <<eventVars, rowVars, drive, arch, exportVars, happened, overlap>>

\* Page by page; what a page could not delete fails the purge.
DeletePrefix ==
    /\ purge.pc = "copies" /\ purge.todo = {}
    /\ swept' = TRUE
    /\ \/ /\ object' = [m \in Media |-> FALSE]
          /\ zips' = {}
          /\ purge' = [purge EXCEPT !.pc = "mark"]
          /\ UNCHANGED happened
       \/ /\ Happens
          /\ \E m \in Media : object' = [object EXCEPT ![m] = FALSE]
          /\ purge' = NoPurge
          /\ UNCHANGED zips
    /\ UNCHANGED <<eventVars, rowVars, drive, arch, exportVars, overlap>>

\* One transaction: rows are kept as deleted, exports fail, the event closes.
MarkPurged ==
    /\ purge.pc = "mark"
    /\ status' = [m \in Media |-> IF status[m] = "none" THEN "none" ELSE "deleted"]
    /\ sourceDeleted' = [m \in Media |-> sourceDeleted[m] \/ status[m] \notin {"none", "deleted"}]
    /\ jobs' = [j \in DOMAIN jobs |-> "failed"]
    /\ open' = FALSE
    /\ purged' = TRUE
    /\ purge' = NoPurge
    /\ UNCHANGED <<due, r2Deleted, replica, storeVars, arch, asking, exporter, happened,
                   swept, overlap>>

PurgeFails ==
    /\ purge.pc # "idle"
    /\ Happens
    /\ purge' = NoPurge
    /\ UNCHANGED <<eventVars, rowVars, storeVars, arch, exportVars, swept, overlap>>

-----------------------------------------------------------------------------
(* Exports *)

NoExport == [pc |-> "idle", job |-> 0, items |-> {}]

\* Create: an active export is handed back; otherwise one is inserted, and
\* nothing keeps two requests from both doing so.
FindActive ==
    /\ \A j \in DOMAIN jobs : jobs[j] \notin {"queued", "processing"}
    /\ Len(jobs) + asking < MaxExports
    /\ Happens
    /\ asking' = asking + 1
    /\ UNCHANGED <<eventVars, rowVars, storeVars, arch, purge, jobs, exporter, swept, overlap>>

CreateExport ==
    /\ asking > 0
    /\ asking' = asking - 1
    /\ jobs' = Append(jobs, "queued")
    /\ UNCHANGED <<eventVars, rowVars, storeVars, arch, purge, exporter, happened, swept, overlap>>

ClaimNext ==
    /\ exporter.pc = "idle"
    /\ LET queued == {j \in DOMAIN jobs : jobs[j] = "queued"}
       IN /\ queued # {}
          /\ jobs' = [jobs EXCEPT ![Min(queued)] = "processing"]
          /\ exporter' = [NoExport EXCEPT !.pc = "claimed", !.job = Min(queued)]
    /\ UNCHANGED <<eventVars, rowVars, storeVars, arch, purge, asking, happened, swept, overlap>>

\* An item is read from R2 unless it is marked and a copy is known; one with
\* two copies is listed twice.
ListItems ==
    /\ exporter.pc = "claimed"
    /\ LET shown == {m \in Media : status[m] \in Shown}
           items == {<<m, 0>> : m \in {n \in shown : ~sourceDeleted[n] \/ Verified(n) = {}}}
                    \cup {c \in Copies : /\ c[1] \in shown /\ sourceDeleted[c[1]]
                                         /\ replica[c] = "verified"}
       IN exporter' = [exporter EXCEPT !.pc = IF items = {} THEN "failed" ELSE "listed",
                                       !.items = items]
    /\ UNCHANGED <<eventVars, rowVars, storeVars, arch, purge, jobs, asking, happened, swept,
                   overlap>>

Readable(i) == IF i[2] = 0 THEN object[i[1]] ELSE i \in drive

\* writeZip: one item that cannot be read fails the export.
WriteZip ==
    /\ exporter.pc = "listed"
    /\ IF \A i \in exporter.items : Readable(i)
         THEN /\ zips' = zips \cup {exporter.job}
              /\ exporter' = [exporter EXCEPT !.pc = "put"]
              /\ Stored
         ELSE /\ exporter' = [exporter EXCEPT !.pc = "failed"]
              /\ UNCHANGED <<zips, overlap>>
    /\ UNCHANGED <<eventVars, rowVars, object, drive, arch, purge, jobs, asking, happened, swept>>

WriteZipFails ==
    /\ exporter.pc = "listed"
    /\ Happens
    /\ exporter' = [exporter EXCEPT !.pc = "failed"]
    /\ UNCHANGED <<eventVars, rowVars, storeVars, arch, purge, jobs, asking, swept, overlap>>

Outcome(s) == IF exporter.pc = "put" THEN "ready" ELSE s

\* Variant: whatever the job has become.
MarkExportAnyway ==
    /\ exporter.pc \in {"put", "failed"}
    /\ jobs' = [jobs EXCEPT ![exporter.job] = Outcome("failed")]
    /\ exporter' = NoExport
    /\ UNCHANGED <<eventVars, rowVars, storeVars, arch, purge, asking, happened, swept, overlap>>

\* MarkReady and MarkFailed: only of a job that is still processing.
MarkExport ==
    /\ exporter.pc \in {"put", "failed"}
    /\ jobs' = [jobs EXCEPT ![exporter.job] =
                   IF @ = "processing" THEN Outcome("failed") ELSE @]
    /\ exporter' = NoExport
    /\ UNCHANGED <<eventVars, rowVars, storeVars, arch, purge, asking, happened, swept, overlap>>

\* The job that was claimed stays so.
ExporterStops ==
    /\ exporter.pc # "idle"
    /\ Happens
    /\ exporter' = NoExport
    /\ UNCHANGED <<eventVars, rowVars, storeVars, arch, purge, jobs, asking, swept, overlap>>

-----------------------------------------------------------------------------

\* All but the youngest item are stored and ready.
Init ==
    /\ open = TRUE /\ due = FALSE /\ purged = FALSE
    /\ status = [m \in Media |-> IF m = MaxMedia THEN "none" ELSE "ready"]
    /\ object = [m \in Media |-> m # MaxMedia]
    /\ sourceDeleted = [m \in Media |-> FALSE]
    /\ r2Deleted = [m \in Media |-> FALSE]
    /\ drive = {}
    /\ replica = [c \in Copies |-> "none"]
    /\ arch = [a \in Archivers |-> Idle]
    /\ purge = NoPurge
    /\ jobs = <<>> /\ asking = 0 /\ zips = {}
    /\ exporter = NoExport
    /\ happened = 0
    /\ swept = FALSE /\ overlap = FALSE

MediaStep(m) ==
    \/ Reserve(m) \/ PutObject(m) \/ MarkUploadReady(m)
    \/ \E s \in Shown \cup {"deleted"} : Moderate(m, s)

ArchiveStep(a) ==
    \/ ListSourceDeletionPending(a) \/ ListForArchive(a) \/ ArchiveEnds(a)
    \/ RecordVerified(a) \/ DeleteObject(a) \/ MarkSourceDeleted(a)
    \/ \E m \in Media : DeleteSource(a, m) \/ Upload(a, m) \/ CopyFails(a, m)

RetentionStep ==
    \/ \E client \in BOOLEAN : Candidates(client)
    \/ ArchivedReplicas \/ MarkReplicaDeleted \/ DeletePrefix \/ MarkPurged
    \/ \E c \in Copies : DeleteCopy(c)

ExportStep ==
    \/ FindActive \/ CreateExport
    \/ ClaimNext \/ ListItems \/ WriteZip \/ MarkExport

FailStep ==
    \/ \E a \in Archivers : ItemFails(a) \/ ArchiverStops(a)
    \/ PurgeFails \/ WriteZipFails \/ ExporterStops

Next ==
    \/ \E m \in Media : MediaStep(m)
    \/ \E a \in Archivers : ArchiveStep(a)
    \/ RetentionStep \/ ExportStep \/ FailStep \/ Period

Spec == Init /\ [][Next]_vars

\* The archiver's schedule, on every replica.
FairSpec == Spec /\ \A a \in Archivers : WF_vars(ArchiveStep(a))

-----------------------------------------------------------------------------
(* What a browser gets *)

InGallery(m) == status[m] \in {"ready", "featured"}

\* SignPage links to the object unless the row is marked, and otherwise to
\* the content route.
Signed(m) == InGallery(m) /\ ~sourceDeleted[m]

\* The content route: ReadURL signs the object of any shown item, and only
\* when there is none is the archive asked.
Content(m) ==
    IF InGallery(m) THEN "redirect"
    ELSE IF Verified(m) # {} THEN "archive" ELSE "none"

Served(m) ==
    \/ Signed(m) /\ object[m]
    \/ ~Signed(m) /\ Content(m) = "redirect" /\ object[m]
    \/ ~Signed(m) /\ Content(m) = "archive" /\ Verified(m) \cap drive # {}

-----------------------------------------------------------------------------
(* Properties *)

TypeOK ==
    /\ open \in BOOLEAN /\ due \in BOOLEAN /\ purged \in BOOLEAN
    /\ status \in [Media -> {"none", "uploading", "ready", "featured", "hidden", "deleted"}]
    /\ object \in [Media -> BOOLEAN]
    /\ sourceDeleted \in [Media -> BOOLEAN] /\ r2Deleted \in [Media -> BOOLEAN]
    /\ drive \subseteq Copies
    /\ replica \in [Copies -> {"none", "verified", "deleted"}]
    /\ \A a \in Archivers :
          /\ arch[a].pc \in {"idle", "sources", "copies", "record", "remove", "mark"}
          /\ arch[a].pc = "record" => arch[a].copy \in drive
    /\ purge.pc \in {"idle", "listed", "copies", "unmarked", "mark"}
    /\ purge.pc = "mark" => purge.todo = {}
    /\ \A j \in DOMAIN jobs : jobs[j] \in {"queued", "processing", "ready", "failed"}
    /\ zips \subseteq DOMAIN jobs
    /\ exporter.pc # "idle" => exporter.job \in DOMAIN jobs
    /\ swept \in BOOLEAN /\ overlap \in BOOLEAN

\* As long as no purge has begun, an item that is shown has its original or
\* a copy the database knows of, wherever the archiver was stopped
\* (archive/service.go, archive: the original goes last).
NothingLost ==
    \A m \in Media : status[m] \in Shown /\ ~swept =>
        object[m] \/ Verified(m) \cap drive # {}

\* The original is deleted before the row says so (service.go:139), so that a
\* gallery signs a key that is gone, although "a listing can never sign a key
\* whose object has already been deleted" (archive_repository.go:65-68).  What is
\* left of it: such an item has a verified copy and is among those the next runs
\* list, wherever the archiver stopped ("a prior run may have verified Drive but
\* failed while deleting R2", service.go:62), so that the window can be closed.
DanglingIsPending ==
    \A m \in Media : Signed(m) /\ ~object[m] /\ ~swept => m \in SourceDeletionPending

\* Nothing of a purged event is offered for download, also by an export that
\* was being written (retention/repository.go, MarkPurged; exportjob,
\* MarkReady).
PurgedNotOffered == purged => \A j \in DOMAIN jobs : jobs[j] # "ready"

\* "An event is only marked purged after every copy is confirmed gone"
\* (retention.go): of what was stored and recorded before the purge, nothing
\* is left, whatever failed in it or in purges before.  A copy in Drive that
\* was never recorded is not known to it.
PurgeLeavesNothing ==
    [][purged' /\ ~purged /\ ~overlap =>
         /\ \A m \in Media : ~object'[m]
         /\ zips' = {}
         /\ \A c \in drive' : replica'[c] = "none"]_vars

\* "Each item is independent": as long as those that cannot be copied do not
\* fill a batch, the others are archived (service.go, Run).
OthersArchived ==
    \A m \in Media \ Broken :
        status[m] = "ready" ~> (r2Deleted[m] \/ status[m] # "ready" \/ swept)

\* "Media whose original has been archived out of hot storage keeps its
\* application route: only that route can stream the copy from the archive"
\* (media/service.go:861-862): an archived item that is shown can be fetched.
ArchivedIsServed ==
    \A m \in Media : InGallery(m) /\ sourceDeleted[m] /\ ~swept => Served(m)
=============================================================================
