---------------------------- MODULE MediaUpload ----------------------------
(***************************************************************************)
(* Guest uploads of one event: the media rows, the quota counters kept on  *)
(* the event row, the objects in R2, and the code that moves between them. *)
(*                                                                         *)
(*   internal/media/service.go                       CreateUpload,         *)
(*       Complete, CompleteMany, ExpireStale, UpdateStatus(es), Delete...  *)
(*   internal/platform/database/media_repository.go  the transactions      *)
(*                                                                         *)
(* Every statement the repository sends is keyed by event_id, so one event *)
(* is enough.  A database transaction or a storage call is one step; what  *)
(* a handler read before a step may be stale when it takes the next one.   *)
(* CompleteMany runs Complete in several goroutines: several members of    *)
(* Requests inside Complete at once.  Consecutive reads with no write of   *)
(* the same handler between them are one step.                             *)
(*                                                                         *)
(* A handler that is refused (upload window closed, rate limited, invalid  *)
(* size or checksum) answers without a state change, and one whose call    *)
(* fails or whose process stops leaves its earlier steps in place: Abort.  *)
(***************************************************************************)
EXTENDS Integers, FiniteSets

CONSTANTS
    MaxMedia,         \* bound: media rows ever inserted
    ClientUploads,    \* (guest_session_id, client_upload_id) pairs
    File,             \* what each client upload sends: checksum, size, kind
    MaxFileBytes,     \* the largest size CreateUpload accepts
    MixedCase,        \* client uploads whose checksum is not lower case hex
    Requests,         \* requests of guests and hosts in flight at the same time
    Plans,            \* limits a grant may put on the event row
    EnforceItems,     \* plan enforcement: item limits apply to reservations
    LegacyEventBytes, \* byte cap used while enforcement is off
    StaleBatch,       \* rows one ExpireStale run reads
    Stuck,            \* ids whose object the provider may never delete
    NoUpload          \* "no client upload"

MediaIDs == 1..MaxMedia
Kinds == {"photo", "video"}
Resources == {"media"} \cup Kinds

LimitRecord == [bytes : Nat, items : [Resources -> Nat]]

ASSUME ConstantsAssumption ==
    /\ MaxMedia \in Nat /\ MaxFileBytes \in Nat
    /\ StaleBatch \in Nat \ {0}
    /\ Stuck \subseteq MediaIDs
    /\ NoUpload \notin ClientUploads
    /\ \A u \in ClientUploads :
           /\ File[u].size \in 1..MaxFileBytes
           /\ File[u].kind \in Kinds
    /\ MixedCase \subseteq ClientUploads
    /\ Plans \subseteq LimitRecord
    /\ EnforceItems \in BOOLEAN
    /\ LegacyEventBytes \in Nat \ {0}

(***************************************************************************)
(* Media statuses.  No code stores 'uploading', 'uploaded', 'processing'   *)
(* or 'failed'; "none" is an id with no row.                               *)
(***************************************************************************)
Curated == {"ready", "featured", "hidden"}
Completed == Curated \cup {"deleted"}
Statuses == {"none", "pending"} \cup Completed

VARIABLES
    eventStatus,      \* events.status
    limit,            \* events.max_media_bytes and max_*_items
    granted,          \* history: every value limit has had
    used,             \* events.used_media_bytes
    reserved,         \* events.reserved_media_bytes
    uploaded,         \* events.uploaded_{media,photo,video}_items
    reservedItems,    \* events.reserved_{media,photo,video}_items
    unreturned, lost, \* history: ids by which used and uploaded left the rows
    created,          \* rows inserted so far; ids are in order of insertion
    status,           \* media.status by id
    owner,            \* the client upload a row was inserted for
    jobs,             \* ids with a row in media_jobs
    object,           \* R2: does the id's key hold the announced file
    urls,             \* ids whose presigned PUT was handed out
    horizon,          \* ids up to here were last active before the stale age
    pc, up, md, cap,  \* a request: next step, client upload, row, byte cap
    doomed, summed,   \* a deletion: rows it names, rows its SUM has counted
    cleaner, batch    \* ExpireStale: next step, rows read by FindStale

eventVars == <<eventStatus, limit, granted>>
driftVars == <<unreturned, lost>>
countVars == <<used, reserved, uploaded, reservedItems, driftVars>>
rowVars == <<created, status, owner, jobs>>
storeVars == <<object, urls>>
delVars == <<doomed, summed>>
reqVars == <<pc, up, md, cap, delVars>>
cleanVars == <<cleaner, batch>>
vars == <<eventVars, countVars, rowVars, storeVars, horizon, reqVars, cleanVars>>

-----------------------------------------------------------------------------
(* What a row weighs *)

SizeOf(m) == File[owner[m]].size
ChecksumOf(m) == File[owner[m]].checksum

\* mediaKind: a file counts as media and as a photo or a video
Weight(u, r) == IF r = "media" \/ r = File[u].kind THEN 1 ELSE 0

\* SUM(size) over the rows, counted as the <<row, offset>> pairs they hold.
Bytes(ids) == UNION {{m} \X (1..SizeOf(m)) : m \in ids}
BytesOf(ids) == Cardinality(Bytes(ids))
OfResource(ids, r) == {m \in ids : Weight(owner[m], r) = 1}
CountOf(ids, r) == Cardinality(OfResource(ids, r))

RowsIn(S) == {m \in MediaIDs : status[m] \in S}
RowsOf(u) == {m \in MediaIDs : status[m] # "none" /\ owner[m] = u}

\* GREATEST(n, 0)
AtLeastZero(n) == IF n < 0 THEN 0 ELSE n

-----------------------------------------------------------------------------
(* The request's own fields *)

Goto(r, label) == pc' = [pc EXCEPT ![r] = label]
Finish(r) ==
    /\ Goto(r, "idle")
    /\ up' = [up EXCEPT ![r] = NoUpload]
    /\ md' = [md EXCEPT ![r] = 0]
    /\ cap' = [cap EXCEPT ![r] = 0]
    /\ doomed' = [doomed EXCEPT ![r] = {}]
    /\ summed' = [summed EXCEPT ![r] = {}]

\* The handler step failed, its client went away or the process stopped.
Abort(r) ==
    /\ pc[r] # "idle"
    /\ Finish(r)
    /\ UNCHANGED <<eventVars, countVars, rowVars, storeVars, horizon, cleanVars>>

-----------------------------------------------------------------------------
(* CreateUpload *)

\* The byte cap a handler passes on, read with the event at its start.
MaxEventBytes == IF EnforceItems THEN limit.bytes ELSE LegacyEventBytes

\* Compares the checksum as sent with stored checksums, which are lower case.
HasReadyChecksum(u) ==
    /\ u \notin MixedCase
    /\ \E m \in RowsIn({"ready"}) : ChecksumOf(m) = File[u].checksum

\* A retry of a client upload reuses its row, whatever became of it.
CreateUpload(r, u) ==
    /\ pc[r] = "idle"
    /\ eventStatus = "active"
    /\ \/ \E m \in RowsOf(u) :
             /\ md' = [md EXCEPT ![r] = m]
             /\ Goto(r, "sign")
             /\ UNCHANGED cap
       \/ /\ RowsOf(u) = {}
          /\ ~HasReadyChecksum(u)
          /\ cap' = [cap EXCEPT ![r] = MaxEventBytes]
          /\ Goto(r, "reserve")
          /\ UNCHANGED md
    /\ up' = [up EXCEPT ![r] = u]
    /\ UNCHANGED <<eventVars, countVars, rowVars, storeVars, horizon, delVars, cleanVars>>

\* Variant: a limit is compared with what is confirmed, not with what is held.
ReservationFitsConfirmed(u, c) ==
    /\ eventStatus = "active"
    /\ used + File[u].size <= (IF c = 0 THEN limit.bytes ELSE c)
    /\ EnforceItems => \A r \in Resources :
         Weight(u, r) = 0 \/ limit.items[r] = 0 \/ uploaded[r] + 1 <= limit.items[r]

\* The condition of the conditional UPDATE on the event row.
ReservationFits(u, c) ==
    /\ eventStatus = "active"
    /\ used + reserved + File[u].size <= (IF c = 0 THEN limit.bytes ELSE c)
    /\ EnforceItems =>
         \A r \in Resources :
            \/ Weight(u, r) = 0
            \/ limit.items[r] = 0
            \/ uploaded[r] + reservedItems[r] + 1 <= limit.items[r]

\* Variant: no unique index.
ClientUploadAlwaysFree(u) == TRUE

\* The unique index on (event_id, guest_session_id, client_upload_id).
ClientUploadFree(u) == RowsOf(u) = {}

\* One transaction: the counters and the row, or neither.
ReserveUpload(r) ==
    /\ pc[r] = "reserve"
    /\ created < MaxMedia
    /\ LET u == up[r]
           m == created + 1
       IN  /\ ReservationFits(u, cap[r])
           /\ ClientUploadFree(u)
           /\ reserved' = reserved + File[u].size
           /\ reservedItems' = [x \in Resources |-> reservedItems[x] + Weight(u, x)]
           /\ created' = m
           /\ status' = [status EXCEPT ![m] = "pending"]
           /\ owner' = [owner EXCEPT ![m] = u]
           /\ md' = [md EXCEPT ![r] = m]
    /\ Goto(r, "signNew")
    /\ UNCHANGED <<eventVars, used, uploaded, driftVars, jobs, storeVars, horizon,
                   up, cap, delVars, cleanVars>>

\* The UPDATE matched nothing, or the INSERT hit the unique index and the
\* reservation was rolled back with it.
ReserveRefused(r) ==
    /\ pc[r] = "reserve"
    /\ ~(ReservationFits(up[r], cap[r]) /\ ClientUploadFree(up[r]))
    /\ Goto(r, "refind")
    /\ UNCHANGED <<eventVars, countVars, rowVars, storeVars, horizon, up, md, cap, delVars, cleanVars>>

\* A concurrent request for the same client upload may have won the race.
RefindUpload(r) ==
    /\ pc[r] = "refind"
    /\ \/ \E m \in RowsOf(up[r]) :
             /\ md' = [md EXCEPT ![r] = m]
             /\ Goto(r, "sign")
             /\ UNCHANGED <<up, cap, delVars>>
       \/ /\ RowsOf(up[r]) = {}
          /\ Finish(r)
    /\ UNCHANGED <<eventVars, countVars, rowVars, storeVars, horizon, cleanVars>>

PresignPut(r) ==
    /\ pc[r] \in {"sign", "signNew"}
    /\ urls' = urls \cup {md[r]}
    /\ Finish(r)
    /\ UNCHANGED <<eventVars, countVars, rowVars, object, horizon, cleanVars>>

\* Only the request that inserted the row takes it back.
PresignFailed(r) ==
    /\ pc[r] = "signNew"
    /\ Goto(r, "undo")
    /\ UNCHANGED <<eventVars, countVars, rowVars, storeVars, horizon, up, md, cap, delVars, cleanVars>>

\* Removes rows whatever their status, gives back what the pending ones held;
\* media_jobs rows go with them (ON DELETE CASCADE).
DeleteManyUploads(ids) ==
    LET held == ids \cap RowsIn({"pending"})
    IN  /\ status' = [m \in MediaIDs |-> IF m \in ids THEN "none" ELSE status[m]]
        /\ jobs' = jobs \ ids
        /\ reserved' = AtLeastZero(reserved - BytesOf(held))
        /\ reservedItems' = [x \in Resources |->
                                AtLeastZero(reservedItems[x] - CountOf(held, x))]
        /\ unreturned' = unreturned \cup (ids \cap RowsIn(Curated))
        /\ lost' = lost \cup (ids \cap RowsIn(Completed))
        /\ UNCHANGED <<used, uploaded, created, owner>>

UndoReservation(r) ==
    /\ pc[r] = "undo"
    /\ DeleteManyUploads({md[r]})
    /\ Finish(r)
    /\ UNCHANGED <<eventVars, storeVars, horizon, cleanVars>>

-----------------------------------------------------------------------------
(* Complete *)

\* FindUploadForSession and Head.  A row that is ready already, an object that
\* is missing or does not match end the request without a change.
Complete(r, m) ==
    /\ pc[r] = "idle"
    /\ eventStatus = "active"
    /\ status[m] = "pending"
    /\ object[m] = "match"
    /\ md' = [md EXCEPT ![r] = m]
    /\ Goto(r, "mark")
    /\ UNCHANGED <<eventVars, countVars, rowVars, storeVars, horizon, up, cap, delVars, cleanVars>>

\* The unique index on (event_id, checksum_sha256) WHERE status = 'ready'.
ReadyChecksumTaken(m) ==
    \E n \in RowsIn({"ready"}) \ {m} : ChecksumOf(n) = ChecksumOf(m)

\* Variants: the status is not tested again; or the job is left to a later call.
ConfirmRow(r, enqueued) ==
    LET m == md[r]
        u == owner[m]
    IN  /\ ~ReadyChecksumTaken(m)
        /\ status' = [status EXCEPT ![m] = "ready"]
        /\ used' = used + SizeOf(m)
        /\ reserved' = AtLeastZero(reserved - SizeOf(m))
        /\ uploaded' = [x \in Resources |-> uploaded[x] + Weight(u, x)]
        /\ reservedItems' = [x \in Resources |-> AtLeastZero(reservedItems[x] - Weight(u, x))]
        /\ jobs' = jobs \cup enqueued
        /\ Finish(r)
        /\ UNCHANGED <<eventVars, driftVars, created, owner, storeVars, horizon, cleanVars>>
MarkReadyUntested(r) == pc[r] = "mark" /\ ConfirmRow(r, {md[r]})
MarkReadyNoJob(r) == pc[r] = "mark" /\ status[md[r]] = "pending" /\ ConfirmRow(r, {})

\* One transaction: the row becomes ready, its reservation becomes usage, its
\* thumbnail job is enqueued.
MarkReady(r) ==
    /\ pc[r] = "mark"
    /\ LET m == md[r]
           u == owner[m]
       IN  /\ status[m] = "pending"
           /\ ~ReadyChecksumTaken(m)
           /\ status' = [status EXCEPT ![m] = "ready"]
           /\ used' = used + SizeOf(m)
           /\ reserved' = AtLeastZero(reserved - SizeOf(m))
           /\ uploaded' = [x \in Resources |-> uploaded[x] + Weight(u, x)]
           /\ reservedItems' = [x \in Resources |->
                                   AtLeastZero(reservedItems[x] - Weight(u, x))]
           /\ jobs' = jobs \cup {m}
    /\ Finish(r)
    /\ UNCHANGED <<eventVars, driftVars, created, owner, storeVars, horizon, cleanVars>>

\* Another Complete won, or the row is gone: success or ErrNotFound.
MarkReadyNotFound(r) ==
    /\ pc[r] = "mark"
    /\ status[md[r]] # "pending"
    /\ Finish(r)
    /\ UNCHANGED <<eventVars, countVars, rowVars, storeVars, horizon, cleanVars>>

MarkReadyDuplicate(r) ==
    /\ pc[r] = "mark"
    /\ status[md[r]] = "pending"
    /\ ReadyChecksumTaken(md[r])
    /\ Goto(r, "dropObject")
    /\ UNCHANGED <<eventVars, countVars, rowVars, storeVars, horizon, up, md, cap, delVars, cleanVars>>

\* The object of a duplicate is deleted; a failure is ignored.
DropDuplicateObject(r) ==
    /\ pc[r] = "dropObject"
    /\ \/ object' = [object EXCEPT ![md[r]] = "other"]
       \/ UNCHANGED object
    /\ Goto(r, "dropRow")
    /\ UNCHANGED <<eventVars, countVars, rowVars, urls, horizon, up, md, cap, delVars, cleanVars>>

DropDuplicateRow(r) ==
    /\ pc[r] = "dropRow"
    /\ DeleteManyUploads({md[r]})
    /\ Finish(r)
    /\ UNCHANGED <<eventVars, storeVars, horizon, cleanVars>>

-----------------------------------------------------------------------------
(* The browser, the storage provider and time (external).  "other": the key  *)
(* holds nothing, or an object whose size or type is not the announced one. *)

\* A PUT is atomic, and may store something else than the file announced.
\* Expiry of the URL only takes behaviours away and is left out.
PutObject(m, o) ==
    /\ m \in urls
    /\ object' = [object EXCEPT ![m] = o]
    /\ UNCHANGED <<eventVars, countVars, rowVars, urls, horizon, reqVars, cleanVars>>

\* The next oldest row passes the stale age.  A retry of CreateUpload does not
\* touch last_activity_at, so its URL may outlive that moment.
GrowStale ==
    /\ horizon < created
    /\ horizon' = horizon + 1
    /\ UNCHANGED <<eventVars, countVars, rowVars, storeVars, reqVars, cleanVars>>

-----------------------------------------------------------------------------
(* ExpireStale, run by cron *)

StaleRows == {m \in RowsIn({"pending"}) : m <= horizon}

\* The oldest StaleBatch stale rows.
FindStale ==
    /\ cleaner = "idle"
    /\ StaleRows # {}
    /\ batch' = {m \in StaleRows : Cardinality({n \in StaleRows : n < m}) < StaleBatch}
    /\ cleaner' = "objects"
    /\ UNCHANGED <<eventVars, countVars, rowVars, storeVars, horizon, reqVars>>

\* Variant: one key that cannot be removed keeps every row of the batch.
ExpireObjectsAllOrNone(unremoved) ==
    /\ cleaner = "objects"
    /\ unremoved \subseteq batch
    /\ object' = [m \in MediaIDs |->
                     IF m \in batch \ unremoved THEN "other" ELSE object[m]]
    /\ batch' = IF unremoved = {} THEN batch ELSE {}
    /\ cleaner' = "rows"
    /\ UNCHANGED <<eventVars, countVars, rowVars, urls, horizon, reqVars>>

\* DeleteMany reports the keys it could not remove; their rows are kept.
ExpireObjects(unremoved) ==
    /\ cleaner = "objects"
    /\ unremoved \subseteq batch
    /\ object' = [m \in MediaIDs |->
                     IF m \in batch \ unremoved THEN "other" ELSE object[m]]
    /\ batch' = batch \ unremoved
    /\ cleaner' = "rows"
    /\ UNCHANGED <<eventVars, countVars, rowVars, urls, horizon, reqVars>>

ExpireRows ==
    /\ cleaner = "rows"
    /\ DeleteManyUploads(batch)
    /\ cleaner' = "idle"
    /\ batch' = {}
    /\ UNCHANGED <<eventVars, storeVars, horizon, reqVars>>

\* The statement failed, the run timed out or the process stopped.
AbortExpire ==
    /\ cleaner # "idle"
    /\ cleaner' = "idle"
    /\ batch' = {}
    /\ UNCHANGED <<eventVars, countVars, rowVars, storeVars, horizon, reqVars>>

-----------------------------------------------------------------------------
(* The host, who may name any row of the event. *)

\* One UPDATE: the rows that are still curated change even when others of the
\* request are not, and ErrNotFound is returned.  UpdateStatus is one id.
UpdateStatuses(ids, s) ==
    LET changed == {m \in ids : status[m] \in Curated}
    IN  /\ eventStatus # "deleted"
        /\ changed # {}
        /\ s = "ready" =>
             \A m \in changed, n \in changed \cup RowsIn({"ready"}) :
                 m # n => ChecksumOf(m) # ChecksumOf(n)
        /\ status' = [m \in MediaIDs |-> IF m \in changed THEN s ELSE status[m]]
        /\ UNCHANGED <<eventVars, countVars, created, owner, jobs, storeVars,
                       horizon, reqVars, cleanVars>>

\* The first statement of the deletion adds up the rows that are curated now.
SumDeleted(r, ids) ==
    /\ pc[r] = "idle"
    /\ eventStatus # "deleted"
    /\ ids # {}
    /\ doomed' = [doomed EXCEPT ![r] = ids]
    /\ summed' = [summed EXCEPT ![r] = ids \cap RowsIn(Curated)]
    /\ Goto(r, "delete")
    /\ UNCHANGED <<eventVars, countVars, rowVars, storeVars, horizon, up, md, cap, cleanVars>>

\* Variant: rows that are deleted already are deleted again.
DeleteForEventAgain(r) ==
    /\ pc[r] = "delete"
    /\ doomed[r] \subseteq RowsIn(Completed)
    /\ status' = [m \in MediaIDs |-> IF m \in doomed[r] THEN "deleted" ELSE status[m]]
    /\ used' = AtLeastZero(used - BytesOf(summed[r]))
    /\ unreturned' = unreturned \cup (doomed[r] \ summed[r])
    /\ Finish(r)
    /\ UNCHANGED <<eventVars, reserved, uploaded, reservedItems, lost, created,
                   owner, jobs, storeVars, horizon, cleanVars>>

\* The two UPDATEs and the commit: the first one locks the rows until then.  All
\* must be curated, otherwise the transaction rolls back (Abort).  The bytes of
\* the earlier SUM are given back; items count for the life of the event.
DeleteForEvent(r) ==
    /\ pc[r] = "delete"
    /\ doomed[r] \subseteq RowsIn(Curated)
    /\ status' = [m \in MediaIDs |-> IF m \in doomed[r] THEN "deleted" ELSE status[m]]
    /\ used' = AtLeastZero(used - BytesOf(summed[r]))
    /\ unreturned' = unreturned \cup (doomed[r] \ summed[r])
    /\ Finish(r)
    /\ UNCHANGED <<eventVars, reserved, uploaded, reservedItems, lost, created,
                   owner, jobs, storeVars, horizon, cleanVars>>

CloseOwned ==
    /\ eventStatus = "active"
    /\ eventStatus' = "closed"
    /\ UNCHANGED <<limit, granted, countVars, rowVars, storeVars, horizon, reqVars, cleanVars>>

DeleteOwned ==
    /\ eventStatus # "deleted"
    /\ eventStatus' = "deleted"
    /\ UNCHANGED <<limit, granted, countVars, rowVars, storeVars, horizon, reqVars, cleanVars>>

\* A grant is activated, superseded or revoked: limits may rise or fall.
ApplyHotLimits(p) ==
    /\ limit' = [bytes |-> IF p.bytes > 0 THEN p.bytes ELSE limit.bytes,
                 items |-> p.items]
    /\ granted' = granted \cup {limit'}
    /\ UNCHANGED <<eventStatus, countVars, rowVars, storeVars, horizon, reqVars, cleanVars>>

-----------------------------------------------------------------------------
Init ==
    /\ eventStatus = "active"
    /\ limit \in Plans /\ limit.bytes > 0
    /\ granted = {limit}
    /\ used = 0 /\ reserved = 0
    /\ uploaded = [x \in Resources |-> 0]
    /\ reservedItems = [x \in Resources |-> 0]
    /\ unreturned = {} /\ lost = {}
    /\ created = 0
    /\ status = [m \in MediaIDs |-> "none"]
    /\ owner = [m \in MediaIDs |-> NoUpload]
    /\ jobs = {}
    /\ object = [m \in MediaIDs |-> "other"]
    /\ urls = {}
    /\ horizon = 0
    /\ pc = [r \in Requests |-> "idle"]
    /\ up = [r \in Requests |-> NoUpload]
    /\ md = [r \in Requests |-> 0]
    /\ cap = [r \in Requests |-> 0]
    /\ doomed = [r \in Requests |-> {}]
    /\ summed = [r \in Requests |-> {}]
    /\ cleaner = "idle"
    /\ batch = {}

RequestStep(r) ==
    \/ \E u \in ClientUploads : CreateUpload(r, u)
    \/ ReserveUpload(r)
    \/ ReserveRefused(r)
    \/ RefindUpload(r)
    \/ PresignPut(r)
    \/ PresignFailed(r)
    \/ UndoReservation(r)
    \/ \E m \in MediaIDs : Complete(r, m)
    \/ MarkReady(r)
    \/ MarkReadyNotFound(r)
    \/ MarkReadyDuplicate(r)
    \/ DropDuplicateObject(r)
    \/ DropDuplicateRow(r)
    \/ \E ids \in SUBSET (1..created) : SumDeleted(r, ids)
    \/ DeleteForEvent(r)
    \/ Abort(r)

CleanerStep ==
    \/ FindStale
    \/ \E unremoved \in SUBSET batch : ExpireObjects(unremoved)
    \/ ExpireRows
    \/ AbortExpire

HostStep ==
    \/ \E ids \in SUBSET (1..created), s \in Curated : UpdateStatuses(ids, s)
    \/ CloseOwned
    \/ DeleteOwned
    \/ \E p \in Plans : ApplyHotLimits(p)

WorldStep ==
    \/ \E m \in MediaIDs, o \in {"match", "other"} : PutObject(m, o)
    \/ GrowStale

Next ==
    \/ \E r \in Requests : RequestStep(r)
    \/ CleanerStep
    \/ HostStep
    \/ WorldStep

Spec == Init /\ [][Next]_vars

-----------------------------------------------------------------------------
(* Properties *)

Labels == {"idle", "reserve", "refind", "sign", "signNew", "undo",
           "mark", "dropObject", "dropRow", "delete"}

\* The columns, the store and the cleanup run; an id is in use up to created.
DataTypeOK ==
    /\ eventStatus \in {"active", "closed", "deleted"}
    /\ limit \in granted
    /\ granted \subseteq LimitRecord
    /\ used \in Nat /\ reserved \in Nat
    /\ uploaded \in [Resources -> Nat]
    /\ reservedItems \in [Resources -> Nat]
    /\ unreturned \subseteq 1..created /\ lost \subseteq 1..created
    /\ created \in 0..MaxMedia
    /\ status \in [MediaIDs -> Statuses]
    /\ owner \in [MediaIDs -> ClientUploads \cup {NoUpload}]
    /\ \A m \in MediaIDs : IF m <= created THEN owner[m] \in ClientUploads
                                           ELSE status[m] = "none"
    /\ jobs \subseteq MediaIDs
    /\ object \in [MediaIDs -> {"match", "other"}]
    /\ urls \subseteq 1..created
    /\ horizon \in 0..created
    /\ cleaner \in {"idle", "objects", "rows"}
    /\ batch \subseteq 1..created

\* The locals of each request's handler.
RequestTypeOK ==
    /\ pc \in [Requests -> Labels]
    /\ up \in [Requests -> ClientUploads \cup {NoUpload}]
    /\ md \in [Requests -> 0..MaxMedia]
    /\ cap \in [Requests -> Nat]
    /\ doomed \in [Requests -> SUBSET (1..created)]
    /\ summed \in [Requests -> SUBSET (1..created)]
    /\ \A r \in Requests :
         /\ pc[r] \in {"reserve", "refind"} => up[r] \in ClientUploads
         /\ pc[r] \notin {"idle", "reserve", "refind", "delete"} => md[r] \in 1..created
         /\ summed[r] \subseteq doomed[r]

\* The columns and the handlers' locals keep their types; a handler past its
\* lookup holds a row that was inserted, or a client upload to insert one for.
TypeOK == DataTypeOK /\ RequestTypeOK

\* "a lost upload cannot leak quota" (media_repository.go:151-152): whatever
\* handlers race, retry or die, the reserved item counters are exactly the
\* pending rows, in total and by kind.
ReservedItemsExact ==
    \A x \in Resources : reservedItems[x] = CountOf(RowsIn({"pending"}), x)

\* The same of the reserved bytes.
ReservedBytesExact == reserved = BytesOf(RowsIn({"pending"}))

\* "concurrent uploads near a limit can never overshoot it"
\* (media_repository.go:37-38), for items: what is uploaded and reserved
\* together stays within some limit the event has had.
ItemLimitsHeld ==
    EnforceItems =>
        \A x \in Resources :
            \E p \in granted : \/ p.items[x] = 0
                               \/ uploaded[x] + reservedItems[x] <= p.items[x]

\* The same for bytes, where the cap is the one the handler read earlier.
ByteCaps == IF EnforceItems THEN {p.bytes : p \in granted} ELSE {LegacyEventBytes}
ByteLimitHeld == \E c \in ByteCaps : used + reserved <= c

\* "Concurrent uploads near a limit can never overshoot it"
\* (media_repository.go:38), in items or in bytes, whatever the plan becomes
\* between a handler's read of the cap and its reservation.
LimitsHeld == ItemLimitsHeld /\ ByteLimitHeld

\* Usage counts every row that still takes part in it, once, and beside those
\* only two kinds of row: what a cleanup removed after it was completed, and what
\* a deletion took without having seen it in its SUM.  Usage is never given
\* back twice and never below the rows.  By unreturned and lost the counters
\* do drift: where media_repository.go:160 says "removes never-completed upload
\* records", the DELETE tests no status, and CounterDrift
\* (entitlement/repository.go:421-437) reports the difference.
UsageExplained ==
    /\ used = BytesOf(RowsIn(Curated) \cup unreturned)
    /\ \A x \in Resources : uploaded[x] = CountOf(RowsIn(Completed) \cup lost, x)

\* "a lost upload cannot leak quota" (media_repository.go:151-152): however
\* requests, retries, cleanups and deletions interleave, what is reserved is
\* exactly what is pending, and usage is what was completed and not given back.
CountersMatchRows == ReservedItemsExact /\ ReservedBytesExact /\ UsageExplained

\* "either the media is ready and its thumbnail is owed, or neither happened"
\* (media_repository.go:299-302): exactly the completed rows have a job.
ThumbnailOwed == jobs = RowsIn(Completed)

\* A lost response followed by a retry, or two concurrent retries, never
\* reserve twice for one client upload (service.go:128-129).
OneRowPerClientUpload ==
    \A m, n \in RowsIn(Statuses \ {"none"}) : owner[m] = owner[n] => m = n

\* A confirmation or a curation racing the host's deletion never brings the
\* media back (media_repository.go:235, 265: both statements test the status).
DeletedIsFinal ==
    [][\A m \in MediaIDs : status[m] = "deleted" => status'[m] \in {"deleted", "none"}]_vars

(***************************************************************************)
(* Liveness.  Time passes, the cron schedule keeps starting ExpireStale    *)
(* and a started run takes its steps; database and storage calls do not    *)
(* fail for ever, except the deletion of the Stuck objects.                *)
(***************************************************************************)
Fairness ==
    /\ WF_vars(GrowStale)
    /\ WF_vars(CleanerStep)
    /\ SF_vars(ExpireObjects(batch \cap Stuck))
    /\ SF_vars(batch # {} /\ ExpireRows)

FairSpec == Spec /\ Fairness

\* "One item that cannot be cleaned up must not hold up the rest"
\* (service.go:590): with fewer stuck objects than a batch holds, every other
\* abandoned reservation is given back in the end.
AbandonedReleased ==
    Cardinality(Stuck) < StaleBatch =>
        \A m \in MediaIDs \ Stuck : status[m] = "pending" ~> status[m] # "pending"
=============================================================================
