-------------------------- MODULE StorageProofs ---------------------------
(***************************************************************************)
(* Theorems about Storage, for any number of media, copies, archivers and  *)
(* exports: an original goes only after its copy is known, what a gallery  *)
(* still signs will be marked, and what a purge leaves.                    *)
(***************************************************************************)
EXTENDS Storage, WellFoundedInduction, TLAPS

-----------------------------------------------------------------------------
(* Types *)

Places == Nat \X Nat

RowTypes ==
    /\ open \in BOOLEAN /\ due \in BOOLEAN /\ purged \in BOOLEAN
    /\ status \in [Media -> {"none", "uploading", "ready", "featured", "hidden", "deleted"}]
    /\ object \in [Media -> BOOLEAN]
    /\ sourceDeleted \in [Media -> BOOLEAN] /\ r2Deleted \in [Media -> BOOLEAN]
    /\ drive \subseteq Copies
    /\ replica \in [Copies -> {"none", "verified", "deleted"}]
    /\ swept \in BOOLEAN /\ overlap \in BOOLEAN

ArchTypes ==
    /\ arch \in [Archivers ->
           [pc : {"idle", "sources", "copies", "record", "remove", "mark"},
            phase : {"idle", "sources", "copies"}, todo : SUBSET Media, copy : Places]]
    /\ \A a \in Archivers :
          /\ arch[a].pc \in {"record", "remove", "mark"} => arch[a].copy[1] \in Media
          /\ arch[a].pc = "sources" => arch[a].phase = "sources"

PurgeTypes ==
    /\ purge \in [pc : {"idle", "listed", "copies", "unmarked", "mark"}, client : BOOLEAN,
                  todo : SUBSET Copies, copy : Places]
    /\ purge.pc = "unmarked" => purge.copy \in Copies
    /\ purge.pc = "mark" => purge.todo = {}

ExportTypes ==
    /\ jobs \in Seq({"queued", "processing", "ready", "failed"})
    /\ exporter \in [pc : {"idle", "claimed", "listed", "put", "failed"}, job : Nat,
                     items : SUBSET Places]
    /\ exporter.pc # "idle" => exporter.job \in DOMAIN jobs
    /\ zips \subseteq DOMAIN jobs

Types == RowTypes /\ ArchTypes /\ PurgeTypes /\ ExportTypes

LEMMA TypesNext == Types' <=> RowTypes' /\ ArchTypes' /\ PurgeTypes' /\ ExportTypes'
BY DEF Types

\* Media and the copies of media are numbered.
LEMMA Numbered ==
    /\ Media \subseteq Nat /\ Copies \subseteq Places
    /\ \A c \in Copies : c[1] \in Media
    /\ \A m \in Media : <<m, 0>> \in Places /\ <<m, 0>>[1] = m
BY StorageAssumption DEF Media, Copies, Places

\* A set of naturals that is not empty has a least element.
LEMMA MinOf ==
    ASSUME NEW S, S \subseteq Nat, S # {}
    PROVE  Min(S) \in S
<1>. DEFINE Less == {ss \in Nat \X Nat : ss[1] < ss[2]}
<1>1. IsWellFoundedOn(Less, Nat)
  BY NatLessThanWellFounded DEF OpToRel
<1>2. PICK x \in S : \A y \in S : <<y, x>> \notin Less
  <2>. HIDE DEF Less
  <2>. QED  BY <1>1, WFMin
<1>3. ASSUME NEW y \in S, ~(x =< y)
      PROVE  FALSE
  <2>1. <<y, x>> \in Nat \X Nat /\ <<y, x>>[1] < <<y, x>>[2]
    BY <1>3
  <2>. QED  BY <1>2, <2>1
<1>. QED  BY <1>3 DEF Min

LEMMA TypesInit == Init => Types
<1>. SUFFICES ASSUME Init PROVE Types  OBVIOUS
<1>. USE DEF Init
<1>1. RowTypes  BY DEF RowTypes
<1>2. ArchTypes  BY DEF ArchTypes, Idle, Places
<1>3. PurgeTypes  BY DEF PurgeTypes, NoPurge, Places
<1>4. ExportTypes  BY DEF ExportTypes, NoExport
<1>. QED  BY <1>1, <1>2, <1>3, <1>4 DEF Types

LEMMA TypesMedia ==
    ASSUME Types, (\E m \in Media : MediaStep(m)) \/ Period
    PROVE  Types'
<1>. USE DEF storeVars, exportVars
<1>1. RowTypes'
  <2>. USE DEF Types, RowTypes, rowVars
  <2>1. ASSUME NEW m \in Media, Reserve(m) \/ MarkUploadReady(m)
        PROVE  RowTypes'
    BY <2>1 DEF Reserve, MarkUploadReady, eventVars
  <2>2. ASSUME NEW m \in Media, PutObject(m)
        PROVE  RowTypes'
    BY <2>2 DEF PutObject, Stored, eventVars
  <2>3. ASSUME NEW m \in Media, NEW s \in Shown \cup {"deleted"}, Moderate(m, s)
        PROVE  RowTypes'
    BY <2>3 DEF Moderate, Shown, eventVars
  <2>4. CASE Period
    BY <2>4 DEF Period
  <2>. QED  BY <2>1, <2>2, <2>3, <2>4 DEF MediaStep
<1>2. UNCHANGED <<arch, purge, exportVars, zips>>
  BY DEF MediaStep, Reserve, PutObject, MarkUploadReady, Moderate, Period
<1>. QED
  BY <1>1, <1>2, TypesNext DEF Types, ArchTypes, PurgeTypes, ExportTypes

LEMMA TypesArchive ==
    ASSUME Types, NEW a \in Archivers, ArchiveStep(a) \/ ItemFails(a) \/ ArchiverStops(a)
    PROVE  Types'
<1>. USE Numbered DEF Types, eventVars, rowVars, storeVars
<1>1. RowTypes'
  <2>1. ASSUME NEW m \in Media, Upload(a, m)
        PROVE  RowTypes'
    BY <2>1 DEF RowTypes, Upload, Stored
  <2>2. CASE RecordVerified(a)
    BY <2>2 DEF RowTypes, RecordVerified, Stored
  <2>3. CASE \/ DeleteObject(a) \/ MarkSourceDeleted(a) \/ ItemFails(a)
    BY <2>3 DEF RowTypes, DeleteObject, MarkSourceDeleted, ItemFails
  <2>4. CASE \/ ListSourceDeletionPending(a) \/ ListForArchive(a) \/ ArchiveEnds(a)
             \/ (\E m \in Media : DeleteSource(a, m) \/ CopyFails(a, m))
             \/ ArchiverStops(a)
    BY <2>4 DEF RowTypes, ListSourceDeletionPending, ListForArchive, ArchiveEnds,
                DeleteSource, CopyFails, ArchiverStops
  <2>. QED  BY <2>1, <2>2, <2>3, <2>4 DEF ArchiveStep
<1>2. ArchTypes'
  <2>1. Idle \in [pc : {"idle", "sources", "copies", "record", "remove", "mark"},
                  phase : {"idle", "sources", "copies"}, todo : SUBSET Media, copy : Places]
    BY DEF Idle, Places
  <2>2. ASSUME NEW m \in Media, Upload(a, m)
        PROVE  ArchTypes'
    <3>1. PICK c \in Copies : arch' = [arch EXCEPT ![a].pc = "record", ![a].copy = c]
      BY <2>2 DEF Upload
    <3>2. c \in Places /\ c[1] \in Media
      OBVIOUS
    <3>3. arch'[a] = [pc |-> "record", phase |-> arch[a].phase, todo |-> arch[a].todo, copy |-> c]
      <4>1. arch \in [Archivers ->
               [pc : {"idle", "sources", "copies", "record", "remove", "mark"},
                phase : {"idle", "sources", "copies"}, todo : SUBSET Media, copy : Places]]
        BY DEF ArchTypes
      <4>2. arch[a] = [pc |-> arch[a].pc, phase |-> arch[a].phase, todo |-> arch[a].todo,
                       copy |-> arch[a].copy]
        BY <4>1
      <4>3. arch'[a] = [arch[a] EXCEPT !.pc = "record", !.copy = c]
        BY <3>1, <4>1
      <4>. QED  BY <4>2, <4>3
    <3>4. arch'[a] \in [pc : {"record"}, phase : {"idle", "sources", "copies"},
                        todo : SUBSET Media, copy : Places]
      BY <3>2, <3>3 DEF ArchTypes
    <3>. QED  BY <3>1, <3>2, <3>3, <3>4 DEF ArchTypes
  <2>3. ASSUME NEW m \in Media, DeleteSource(a, m) \/ CopyFails(a, m)
        PROVE  ArchTypes'
    BY <2>3 DEF ArchTypes, DeleteSource, CopyFails
  <2>4. CASE RecordVerified(a) \/ DeleteObject(a)
    BY <2>4 DEF ArchTypes, RecordVerified, DeleteObject
  <2>5. CASE MarkSourceDeleted(a) \/ ItemFails(a)
    <3>1. NextItem(a)
      BY <2>5 DEF MarkSourceDeleted, ItemFails
    <3>2. arch'[a] = [pc |-> arch[a].phase, phase |-> arch[a].phase,
                      todo |-> arch[a].todo \ {arch[a].copy[1]}, copy |-> <<0, 0>>]
      BY <3>1 DEF NextItem, ArchTypes, Idle
    <3>3. arch'[a] \in [pc : {"idle", "sources", "copies"}, phase : {"idle", "sources", "copies"},
                        todo : SUBSET Media, copy : Places]
      BY <3>2 DEF ArchTypes, Places
    <3>. QED  BY <3>1, <3>3 DEF NextItem, ArchTypes
  <2>6. CASE ListSourceDeletionPending(a)
    <3>1. PICK s \in SUBSET Media :
             arch' = [arch EXCEPT ![a] = [Idle EXCEPT !.pc = "sources", !.phase = "sources",
                                                      !.todo = s]]
      BY <2>6 DEF ListSourceDeletionPending, SourceDeletionPending
    <3>. QED  BY <2>1, <3>1 DEF ArchTypes, Idle
  <2>7. CASE ListForArchive(a)
    <3>1. Oldest(ArchiveCandidates) \subseteq Media
      BY DEF Oldest, ArchiveCandidates
    <3>. QED  BY <2>1, <2>7, <3>1 DEF ArchTypes, ListForArchive, Idle
  <2>8. CASE ArchiveEnds(a) \/ ArchiverStops(a)
    BY <2>1, <2>8 DEF ArchTypes, ArchiveEnds, ArchiverStops, Idle
  <2>. QED  BY <2>2, <2>3, <2>4, <2>5, <2>6, <2>7, <2>8 DEF ArchiveStep
<1>3. UNCHANGED <<purge, exportVars, zips>>
  BY DEF ArchiveStep, ListSourceDeletionPending, ListForArchive, ArchiveEnds, DeleteSource,
         Upload, RecordVerified, DeleteObject, MarkSourceDeleted, CopyFails, ItemFails,
         ArchiverStops
<1>. QED
  BY <1>1, <1>2, <1>3, TypesNext DEF PurgeTypes, ExportTypes, exportVars

LEMMA TypesRetention ==
    ASSUME Types, RetentionStep \/ PurgeFails
    PROVE  Types'
<1>. USE Numbered DEF Types, eventVars, rowVars, storeVars, exportVars
<1>1. NoPurge \in [pc : {"idle", "listed", "copies", "unmarked", "mark"}, client : BOOLEAN,
                   todo : SUBSET Copies, copy : Places]
  BY DEF NoPurge, Places
<1>2. ASSUME NEW c \in Copies, DeleteCopy(c)
      PROVE  Types'
  <2>1. RowTypes'  BY <1>2 DEF DeleteCopy, RowTypes
  <2>2. PurgeTypes'  BY <1>2 DEF DeleteCopy, PurgeTypes
  <2>. QED  BY <1>2, <2>1, <2>2, TypesNext DEF DeleteCopy, ArchTypes, ExportTypes
<1>3. CASE \/ (\E client \in BOOLEAN : Candidates(client))
           \/ ArchivedReplicas \/ MarkReplicaDeleted \/ PurgeFails
  <2>1. RowTypes'
    BY <1>3 DEF RowTypes, PurgeTypes, Candidates, ArchivedReplicas, MarkReplicaDeleted,
                PurgeFails
  <2>2. PurgeTypes'
    <3>1. CASE \E client \in BOOLEAN : Candidates(client)
      BY <1>1, <3>1 DEF PurgeTypes, Candidates, NoPurge
    <3>2. CASE PurgeFails
      BY <1>1, <3>2 DEF PurgeTypes, PurgeFails, NoPurge
    <3>4. CASE ArchivedReplicas
      BY <1>1, <3>4 DEF PurgeTypes, ArchivedReplicas, NoPurge
    <3>3. CASE MarkReplicaDeleted
      BY <3>3 DEF PurgeTypes, MarkReplicaDeleted
    <3>. QED  BY <1>3, <3>1, <3>2, <3>3, <3>4
  <2>. QED
    BY <1>3, <2>1, <2>2, TypesNext DEF Candidates, ArchivedReplicas, MarkReplicaDeleted,
                                       PurgeFails, ArchTypes, ExportTypes
<1>4. CASE DeletePrefix
  <2>1. RowTypes'
    <3>1. \/ object' = [m \in Media |-> FALSE]
          \/ \E m \in Media : object' = [object EXCEPT ![m] = FALSE]
      BY <1>4 DEF DeletePrefix
    <3>2. object' \in [Media -> BOOLEAN]
      BY <3>1 DEF RowTypes
    <3>. QED  BY <1>4, <3>2 DEF DeletePrefix, RowTypes
  <2>2. PurgeTypes'  BY <1>1, <1>4 DEF DeletePrefix, PurgeTypes, NoPurge
  <2>. QED  BY <1>4, <2>1, <2>2, TypesNext DEF DeletePrefix, ArchTypes, ExportTypes
<1>5. CASE MarkPurged
  <2>1. RowTypes'  BY <1>5 DEF MarkPurged, RowTypes
  <2>2. PurgeTypes'  BY <1>1, <1>5 DEF MarkPurged, PurgeTypes, NoPurge
  <2>3. ExportTypes'
    <3>1. jobs' = [j \in 1..Len(jobs) |-> "failed"]
      BY <1>5 DEF MarkPurged, ExportTypes
    <3>2. jobs' \in Seq({"queued", "processing", "ready", "failed"}) /\ DOMAIN jobs' = DOMAIN jobs
      BY <3>1 DEF ExportTypes
    <3>. QED  BY <1>5, <3>2 DEF MarkPurged, ExportTypes
  <2>. QED  BY <1>5, <2>1, <2>2, <2>3, TypesNext DEF MarkPurged, ArchTypes
<1>. QED  BY <1>2, <1>3, <1>4, <1>5 DEF RetentionStep

LEMMA TypesExport ==
    ASSUME Types, ExportStep \/ WriteZipFails \/ ExporterStops
    PROVE  Types'
<1>. USE DEF Types, eventVars, rowVars, storeVars, exportVars
<1>1. RowTypes'
  BY DEF RowTypes, ExportStep, FindActive, CreateExport, ClaimNext, ListItems, WriteZip,
         MarkExport, WriteZipFails, ExporterStops, Stored
<1>2. UNCHANGED <<arch, purge>>
  BY DEF ExportStep, FindActive, CreateExport, ClaimNext, ListItems, WriteZip,
         MarkExport, WriteZipFails, ExporterStops
<1>3. ExportTypes'
  <2>1. CASE CreateExport
    BY <2>1 DEF CreateExport, ExportTypes
  <2>2. CASE ClaimNext
    <3>1. PICK j \in DOMAIN jobs :
             /\ jobs' = [jobs EXCEPT ![j] = "processing"]
             /\ exporter' = [NoExport EXCEPT !.pc = "claimed", !.job = j]
      <4>. DEFINE queued == {j \in DOMAIN jobs : jobs[j] = "queued"}
      <4>1. queued # {} /\ queued \subseteq 1..Len(jobs)
        BY <2>2 DEF ClaimNext, ExportTypes
      <4>2. Min(queued) \in queued
        <5>1. queued \subseteq Nat  BY <4>1
        <5>. HIDE DEF queued
        <5>. QED  BY <4>1, <5>1, MinOf
      <4>. QED  BY <2>2, <4>2 DEF ClaimNext
    <3>2. j \in 1..Len(jobs)
      BY DEF ExportTypes
    <3>3. jobs' \in Seq({"queued", "processing", "ready", "failed"}) /\ DOMAIN jobs' = 1..Len(jobs)
      BY <3>1, <3>2 DEF ExportTypes
    <3>4. exporter' = [pc |-> "claimed", job |-> j, items |-> {}]
      BY <3>1 DEF NoExport
    <3>5. zips' = zips
      BY <2>2 DEF ClaimNext
    <3>. QED  BY <3>2, <3>3, <3>4, <3>5 DEF ExportTypes
  <2>3. CASE ListItems
    <3>1. PICK p \in {"failed", "listed"}, s \in SUBSET Places :
             exporter' = [exporter EXCEPT !.pc = p, !.items = s]
      <4>. DEFINE items ==
             {<<m, 0>> : m \in {n \in {n \in Media : status[n] \in Shown} :
                                  ~sourceDeleted[n] \/ Verified(n) = {}}}
             \cup {c \in Copies : /\ c[1] \in {n \in Media : status[n] \in Shown}
                                  /\ sourceDeleted[c[1]] /\ replica[c] = "verified"}
      <4>1. items \subseteq Places
        BY Numbered
      <4>. HIDE DEF items
      <4>2. exporter' = [exporter EXCEPT !.pc = IF items = {} THEN "failed" ELSE "listed",
                                         !.items = items]
        BY <2>3 DEF ListItems, items
      <4>. QED  BY <4>1, <4>2
    <3>. QED  BY <2>3, <3>1 DEF ListItems, ExportTypes
  <2>4. CASE WriteZip \/ WriteZipFails
    BY <2>4 DEF WriteZip, WriteZipFails, ExportTypes
  <2>5. CASE MarkExport
    BY <2>5 DEF MarkExport, Outcome, NoExport, ExportTypes
  <2>6. CASE FindActive \/ ExporterStops
    BY <2>6 DEF FindActive, ExporterStops, NoExport, ExportTypes
  <2>. QED  BY <2>1, <2>2, <2>3, <2>4, <2>5, <2>6 DEF ExportStep
<1>. QED  BY <1>1, <1>2, <1>3, TypesNext DEF ArchTypes, PurgeTypes

LEMMA TypesHold ==
    ASSUME Types, [Next]_vars
    PROVE  Types'
<1>1. CASE UNCHANGED vars
  BY <1>1 DEF vars, eventVars, rowVars, storeVars, exportVars, Types, RowTypes, ArchTypes,
              PurgeTypes, ExportTypes
<1>2. CASE Next
  BY <1>2, TypesMedia, TypesArchive, TypesRetention, TypesExport DEF Next, FailStep
<1>. QED  BY <1>1, <1>2

-----------------------------------------------------------------------------
(* The inductive invariant *)

\* A copy being recorded exists, is not known yet, and is one archiver's.
Recording ==
    /\ \A a \in Archivers : arch[a].pc = "record" =>
          arch[a].copy \in drive /\ replica[arch[a].copy] = "none"
    /\ \A a, b \in Archivers : arch[a].pc = "record" /\ arch[b].pc = "record" /\ a # b =>
          arch[a].copy # arch[b].copy

\* What the rows say of copies is true, but for copies a purge is deleting.
KnownCopies ==
    /\ \A c \in Copies : replica[c] = "deleted" => c \notin drive
    /\ ~swept => \A c \in Copies : replica[c] = "verified" => c \in drive
    /\ purge.pc \in {"copies", "unmarked"} => \A c \in purge.todo : replica[c] # "none"
    /\ purge.pc = "unmarked" =>
          swept /\ purge.copy \notin drive /\ replica[purge.copy] # "none"

\* Only originals with a known copy are removed.
Copied ==
    ~swept => \A a \in Archivers :
        /\ arch[a].pc \in {"remove", "mark"} => Verified(arch[a].copy[1]) # {}
        /\ arch[a].phase = "sources" => \A m \in arch[a].todo : Verified(m) # {}

Flagged == \A m \in Media : r2Deleted[m] => sourceDeleted[m]

\* Nothing is shown of a purged event, and no export of it is under way.
Closed ==
    purged =>
        /\ ~open
        /\ \A m \in Media : status[m] \in {"none", "deleted"}
        /\ exporter.pc \in {"listed", "put"} => jobs[exporter.job] # "processing"

\* What a purge has yet to delete, unless something is stored meanwhile.
Purging ==
    ~overlap =>
        /\ purge.pc \in {"copies", "unmarked"} =>
              \A c \in drive : replica[c] # "none" => c \in purge.todo
        /\ purge.pc = "mark" =>
              /\ \A m \in Media : ~object[m]
              /\ zips = {}
              /\ \A c \in drive : replica[c] = "none"

IInv ==
    /\ Types
    /\ Recording /\ KnownCopies /\ Copied /\ Flagged
    /\ NothingLost
    /\ Closed /\ PurgedNotOffered
    /\ Purging

LEMMA InvInit == Init => IInv
<1>. SUFFICES ASSUME Init PROVE IInv  OBVIOUS
<1>1. Types
  BY TypesInit
<1>2. Recording /\ KnownCopies /\ Copied /\ Flagged
  BY Numbered DEF Init, Recording, KnownCopies, Copied, Flagged, Idle, NoPurge
<1>3. NothingLost /\ Closed /\ PurgedNotOffered /\ Purging
  BY DEF Init, NothingLost, Closed, PurgedNotOffered, Purging, NoPurge, Shown
<1>. QED  BY <1>1, <1>2, <1>3 DEF IInv

\* Uploads and moderation.
LEMMA InvMedia ==
    ASSUME IInv, (\E m \in Media : MediaStep(m)) \/ Period
    PROVE  IInv'
<1>1. UNCHANGED <<sourceDeleted, r2Deleted, replica, drive, zips, arch, purge, exportVars,
                  swept, purged>>
  BY DEF MediaStep, Reserve, PutObject, MarkUploadReady, Moderate, Period, rowVars,
         storeVars, eventVars
<1>. USE <1>1 DEF IInv, exportVars
<1>2. Types'
  BY TypesHold DEF Next
<1>3. Recording' /\ KnownCopies' /\ Copied' /\ Flagged' /\ PurgedNotOffered'
  BY DEF Recording, KnownCopies, Copied, Flagged, PurgedNotOffered, Verified
<1>4. NothingLost' /\ Closed' /\ Purging'
  <2>1. ASSUME NEW m \in Media, Reserve(m) \/ MarkUploadReady(m)
        PROVE  NothingLost' /\ Closed' /\ Purging'
    BY <2>1 DEF Reserve, MarkUploadReady, NothingLost, Closed, Purging, Verified, Shown,
                Types, RowTypes, eventVars, storeVars
  <2>2. ASSUME NEW m \in Media, PutObject(m)
        PROVE  NothingLost' /\ Closed' /\ Purging'
    <3>1. NothingLost' /\ Closed'
      BY <2>2 DEF PutObject, NothingLost, Closed, Verified, Types, RowTypes, eventVars, rowVars
    <3>2. Purging'
      BY <2>2 DEF PutObject, Stored, Purging, Types, RowTypes
    <3>. QED  BY <3>1, <3>2
  <2>3. ASSUME NEW m \in Media, NEW s \in Shown \cup {"deleted"}, Moderate(m, s)
        PROVE  NothingLost' /\ Closed' /\ Purging'
    BY <2>3 DEF Moderate, NothingLost, Closed, Purging, Verified, Shown,
                Types, RowTypes, eventVars, storeVars
  <2>4. CASE Period
    BY <2>4 DEF Period, NothingLost, Closed, Purging, Verified, rowVars, storeVars
  <2>. QED  BY <2>1, <2>2, <2>3, <2>4 DEF MediaStep
<1>. QED  BY <1>2, <1>3, <1>4

\* The archiver.
LEMMA InvArchive ==
    ASSUME IInv, NEW a \in Archivers, ArchiveStep(a) \/ ItemFails(a) \/ ArchiverStops(a)
    PROVE  IInv'
<1>. USE Numbered DEF IInv, eventVars, rowVars, storeVars, exportVars
<1>1. UNCHANGED <<eventVars, status, zips, purge, exportVars, swept>>
  BY DEF ArchiveStep, ListSourceDeletionPending, ListForArchive, ArchiveEnds, DeleteSource,
         Upload, RecordVerified, DeleteObject, MarkSourceDeleted, CopyFails, ItemFails,
         ArchiverStops
<1>2. Types'
  BY TypesArchive
<1>3. Closed' /\ PurgedNotOffered'
  BY <1>1 DEF Closed, PurgedNotOffered
<1>. DEFINE Rest == Recording /\ KnownCopies /\ Copied /\ Flagged /\ NothingLost /\ Purging
<1>4. ASSUME NEW m \in Media, Upload(a, m)
      PROVE  Rest'
  <2>1. PICK c \in Copies :
           /\ c \notin drive /\ replica[c] = "none" /\ drive' = drive \cup {c}
           /\ arch' = [arch EXCEPT ![a].pc = "record", ![a].copy = c]
    BY <1>4 DEF Upload
  <2>2. UNCHANGED <<rowVars, object>> /\ Stored
    BY <1>4 DEF Upload
  <2>3. Recording'
    BY <2>1, <2>2 DEF Recording, Types, ArchTypes
  <2>4. KnownCopies'
    BY <1>1, <2>1, <2>2 DEF KnownCopies, Types, PurgeTypes
  <2>5. Copied'
    BY <1>1, <2>1, <2>2 DEF Copied, Verified, Types, ArchTypes
  <2>6. Flagged' /\ NothingLost'
    BY <1>1, <2>1, <2>2 DEF Flagged, NothingLost, Verified
  <2>7. Purging'
    BY <1>1, <2>2 DEF Purging, Stored, Types, RowTypes
  <2>. QED  BY <2>3, <2>4, <2>5, <2>6, <2>7
<1>5. ASSUME RecordVerified(a)
      PROVE  Rest'
  <2>1. /\ arch[a].pc = "record" /\ arch' = [arch EXCEPT ![a].pc = "remove"]
        /\ replica' = [replica EXCEPT ![arch[a].copy] = "verified"]
        /\ UNCHANGED <<sourceDeleted, r2Deleted, object, drive>> /\ Stored
    BY <1>5 DEF RecordVerified
  <2>2. arch[a].copy \in Copies /\ arch[a].copy \in drive /\ replica[arch[a].copy] = "none"
    BY <2>1 DEF Recording, Types, RowTypes
  <2>3. Recording'
    BY <2>1, <2>2 DEF Recording, Types, ArchTypes, RowTypes
  <2>4. KnownCopies'
    BY <1>1, <2>1, <2>2 DEF KnownCopies, Types, PurgeTypes, RowTypes
  <2>5. \A m \in Media : Verified(m) \subseteq Verified(m)'
    BY <2>1, <2>2 DEF Verified, Types, RowTypes
  <2>6. arch[a].copy \in Verified(arch[a].copy[1])'
    BY <2>1, <2>2 DEF Verified, Types, RowTypes
  <2>7. Copied'
    BY <1>1, <2>1, <2>5, <2>6 DEF Copied, Types, ArchTypes
  <2>8. Flagged' /\ NothingLost'
    BY <1>1, <2>1, <2>5 DEF Flagged, NothingLost
  <2>9. Purging'
    BY <1>1, <2>1 DEF Purging, Stored, Types, RowTypes
  <2>. QED  BY <2>3, <2>4, <2>7, <2>8, <2>9
<1>6. ASSUME DeleteObject(a)
      PROVE  Rest'
  <2>1. /\ arch[a].pc = "remove" /\ arch' = [arch EXCEPT ![a].pc = "mark"]
        /\ object' = [object EXCEPT ![arch[a].copy[1]] = FALSE]
        /\ UNCHANGED <<rowVars, drive, overlap>>
    BY <1>6 DEF DeleteObject
  <2>2. Recording' /\ KnownCopies' /\ Flagged'
    BY <1>1, <2>1 DEF Recording, KnownCopies, Flagged, Types, ArchTypes
  <2>3. Copied'
    BY <1>1, <2>1 DEF Copied, Verified, Types, ArchTypes
  <2>4. NothingLost'
    <3>1. ~swept => Verified(arch[a].copy[1]) \cap drive # {}
      BY <2>1 DEF Copied, KnownCopies, Verified
    <3>. QED  BY <1>1, <2>1, <3>1 DEF NothingLost, Verified, Types, RowTypes
  <2>5. Purging'
    BY <1>1, <2>1 DEF Purging, Types, RowTypes
  <2>. QED  BY <2>2, <2>3, <2>4, <2>5
<1>7. ASSUME MarkSourceDeleted(a) \/ ItemFails(a)
      PROVE  Rest'
  <2>1. /\ arch[a].pc \in {"record", "remove", "mark"} /\ NextItem(a)
        /\ UNCHANGED <<status, object, replica, overlap>>
    BY <1>7 DEF MarkSourceDeleted, ItemFails
  <2>2. arch'[a] = [pc |-> arch[a].phase, phase |-> arch[a].phase,
                    todo |-> arch[a].todo \ {arch[a].copy[1]}, copy |-> <<0, 0>>]
    BY <2>1 DEF NextItem, Types, ArchTypes, Idle
  <2>3. arch'[a].pc \in {"idle", "sources", "copies"}
    BY <2>2 DEF Types, ArchTypes
  <2>4. \A b \in Archivers : b # a => arch'[b] = arch[b]
    BY <2>1 DEF NextItem, Types, ArchTypes
  <2>5. \/ drive' = drive
        \/ arch[a].pc = "record" /\ drive' = drive \ {arch[a].copy}
    BY <1>7 DEF MarkSourceDeleted, ItemFails
  <2>6. Recording'
    BY <2>1, <2>3, <2>4, <2>5 DEF Recording
  <2>7. KnownCopies'
    BY <1>1, <2>1, <2>5 DEF KnownCopies, Recording
  <2>8. Copied'
    BY <1>1, <2>1, <2>2, <2>3, <2>4 DEF Copied, Verified
  <2>9. Flagged'
    BY <1>7 DEF Flagged, MarkSourceDeleted, ItemFails, Types, RowTypes, ArchTypes
  <2>10. NothingLost'
    BY <1>1, <2>1, <2>5 DEF NothingLost, Verified, Recording
  <2>11. Purging'
    BY <1>1, <2>1, <2>5 DEF Purging
  <2>. QED  BY <2>6, <2>7, <2>8, <2>9, <2>10, <2>11
<1>8. ASSUME \/ ListSourceDeletionPending(a) \/ ListForArchive(a) \/ ArchiveEnds(a)
             \/ (\E m \in Media : DeleteSource(a, m) \/ CopyFails(a, m))
             \/ ArchiverStops(a)
      PROVE  Rest'
  <2>1. UNCHANGED <<eventVars, rowVars, storeVars, purge, swept, overlap>>
    BY <1>8 DEF ListSourceDeletionPending, ListForArchive, ArchiveEnds, DeleteSource,
                CopyFails, ArchiverStops
  <2>2. KnownCopies' /\ Flagged' /\ NothingLost' /\ Purging'
    BY <2>1 DEF KnownCopies, Flagged, NothingLost, Purging, Verified
  <2>3. Recording' /\ Copied'
    <3>1. CASE ListSourceDeletionPending(a)
      <4>1. PICK s \in SUBSET SourceDeletionPending :
               arch' = [arch EXCEPT ![a] = [Idle EXCEPT !.pc = "sources", !.phase = "sources",
                                                        !.todo = s]]
        BY <3>1 DEF ListSourceDeletionPending
      <4>2. \A m \in s : Verified(m) # {}
        BY DEF SourceDeletionPending
      <4>. QED  BY <2>1, <4>1, <4>2 DEF Recording, Copied, Verified, Types, ArchTypes, Idle
    <3>2. CASE ListForArchive(a) \/ ArchiveEnds(a) \/ ArchiverStops(a)
      <4>1. /\ arch'[a].pc \in {"idle", "copies"} /\ arch'[a].phase \in {"idle", "copies"}
            /\ \A b \in Archivers : b # a => arch'[b] = arch[b]
        <5>1. CASE ListForArchive(a)
          BY <5>1 DEF ListForArchive, Types, ArchTypes, Idle
        <5>2. CASE ArchiveEnds(a) \/ ArchiverStops(a)
          BY <5>2 DEF ArchiveEnds, ArchiverStops, Types, ArchTypes, Idle
        <5>. QED  BY <3>2, <5>1, <5>2
      <4>. QED  BY <2>1, <4>1 DEF Recording, Copied, Verified
    <3>3. ASSUME NEW m \in Media, DeleteSource(a, m)
          PROVE  Recording' /\ Copied'
      <4>1. arch[a].pc = "sources" /\ m \in arch[a].todo
        BY <3>3 DEF DeleteSource
      <4>. QED  BY <2>1, <3>3, <4>1 DEF DeleteSource, Recording, Copied, Verified, Types, ArchTypes
    <3>4. ASSUME NEW m \in Media, CopyFails(a, m)
          PROVE  Recording' /\ Copied'
      BY <2>1, <3>4 DEF CopyFails, Recording, Copied, Verified, Types, ArchTypes
    <3>. QED  BY <1>8, <3>1, <3>2, <3>3, <3>4
  <2>. QED  BY <2>2, <2>3
<1>. QED
  BY <1>2, <1>3, <1>4, <1>5, <1>6, <1>7, <1>8 DEF ArchiveStep

\* Retention.
LEMMA InvRetention ==
    ASSUME IInv, RetentionStep \/ PurgeFails
    PROVE  IInv'
<1>. USE DEF IInv, eventVars, rowVars, storeVars, exportVars
<1>1. Types'
  BY TypesRetention
<1>2. UNCHANGED <<r2Deleted, arch, exporter>>
  BY DEF RetentionStep, Candidates, ArchivedReplicas, DeleteCopy, MarkReplicaDeleted,
         DeletePrefix, MarkPurged, PurgeFails
<1>. DEFINE Rest == /\ Recording /\ KnownCopies /\ Copied /\ Flagged /\ NothingLost
                    /\ Closed /\ PurgedNotOffered /\ Purging
<1>3. ASSUME (\E client \in BOOLEAN : Candidates(client)) \/ PurgeFails
      PROVE  Rest'
  <2>1. purge'.pc \in {"idle", "listed"}
    <3>1. \A client \in BOOLEAN : Candidates(client) => purge'.pc = "listed"
      BY DEF Candidates, NoPurge
    <3>. QED  BY <1>3, <3>1 DEF PurgeFails, NoPurge
  <2>2. UNCHANGED <<eventVars, rowVars, storeVars, arch, exportVars, swept>>
    BY <1>3 DEF Candidates, PurgeFails
  <2>3. Recording' /\ Copied' /\ Flagged' /\ NothingLost' /\ Closed' /\ PurgedNotOffered'
    BY <2>2 DEF Recording, Copied, Flagged, NothingLost, Closed, PurgedNotOffered, Verified
  <2>4. KnownCopies' /\ Purging'
    BY <2>1, <2>2 DEF KnownCopies, Purging
  <2>. QED  BY <2>3, <2>4
<1>4. ASSUME ArchivedReplicas
      PROVE  Rest'
  <2>. DEFINE found == {c \in Copies : replica[c] = "verified"}
  <2>1. purge'.pc = "idle" \/ (purge'.pc = "copies" /\ purge'.todo = found)
    BY <1>4 DEF ArchivedReplicas, NoPurge, Types, PurgeTypes
  <2>2. UNCHANGED <<eventVars, rowVars, storeVars, arch, exportVars, swept, overlap>>
    BY <1>4 DEF ArchivedReplicas
  <2>3. Recording' /\ Copied' /\ Flagged' /\ NothingLost' /\ Closed' /\ PurgedNotOffered'
    BY <2>2 DEF Recording, Copied, Flagged, NothingLost, Closed, PurgedNotOffered, Verified
  <2>4. KnownCopies' /\ Purging'
    BY <2>1, <2>2 DEF KnownCopies, Purging, Types, RowTypes
  <2>. QED  BY <2>3, <2>4
<1>5. ASSUME NEW c \in Copies, DeleteCopy(c)
      PROVE  Rest'
  <2>1. /\ purge.pc = "copies" /\ c \in purge.todo /\ drive' = drive \ {c} /\ swept'
        /\ UNCHANGED <<eventVars, rowVars, object, zips, arch, exportVars, overlap>>
    BY <1>5 DEF DeleteCopy
  <2>2. purge'.pc = "unmarked" /\ purge'.copy = c /\ purge'.todo = purge.todo
    BY <1>5 DEF DeleteCopy, Types, PurgeTypes
  <2>3. Recording' /\ KnownCopies' /\ Purging'
    BY <2>1, <2>2 DEF Recording, KnownCopies, Purging
  <2>4. Copied' /\ Flagged' /\ NothingLost' /\ Closed' /\ PurgedNotOffered'
    BY <2>1 DEF Copied, Flagged, NothingLost, Closed, PurgedNotOffered
  <2>. QED  BY <2>3, <2>4
<1>6. ASSUME MarkReplicaDeleted
      PROVE  Rest'
  <2>1. /\ purge.pc = "unmarked" /\ replica' = [replica EXCEPT ![purge.copy] = "deleted"]
        /\ UNCHANGED <<eventVars, status, sourceDeleted, r2Deleted, storeVars, arch,
                        exportVars, swept, overlap>>
    BY <1>6 DEF MarkReplicaDeleted
  <2>2. purge'.pc = "copies" /\ purge'.todo = purge.todo \ {purge.copy}
    BY <1>6 DEF MarkReplicaDeleted, Types, PurgeTypes
  <2>3. purge.copy \in Copies /\ purge.copy \notin drive /\ swept
    BY <2>1 DEF KnownCopies, Types, PurgeTypes
  <2>4. Recording'
    BY <2>1, <2>3 DEF Recording, Types, RowTypes
  <2>5. KnownCopies' /\ Purging'
    BY <2>1, <2>2, <2>3 DEF KnownCopies, Purging, Types, RowTypes, PurgeTypes
  <2>6. Copied' /\ Flagged' /\ NothingLost' /\ Closed' /\ PurgedNotOffered'
    BY <2>1, <2>3 DEF Copied, Flagged, NothingLost, Closed, PurgedNotOffered
  <2>. QED  BY <2>4, <2>5, <2>6
<1>7. ASSUME DeletePrefix
      PROVE  Rest'
  <2>1. /\ purge.pc = "copies" /\ purge.todo = {} /\ swept'
        /\ UNCHANGED <<eventVars, rowVars, drive, arch, exportVars, overlap>>
    BY <1>7 DEF DeletePrefix
  <2>2. \/ purge'.pc = "mark" /\ object' = [m \in Media |-> FALSE] /\ zips' = {}
        \/ purge'.pc = "idle"
    BY <1>7 DEF DeletePrefix, NoPurge, Types, PurgeTypes
  <2>3. KnownCopies' /\ Purging'
    BY <2>1, <2>2 DEF KnownCopies, Purging
  <2>4. /\ Recording' /\ Copied' /\ Flagged' /\ NothingLost' /\ Closed'
        /\ PurgedNotOffered'
    BY <2>1 DEF Recording, Copied, Flagged, NothingLost, Closed, PurgedNotOffered
  <2>. QED  BY <2>3, <2>4
<1>8. ASSUME MarkPurged
      PROVE  Rest'
  <2>1. /\ purge'.pc = "idle"
        /\ UNCHANGED <<r2Deleted, replica, storeVars, arch, exporter, swept, overlap>>
    BY <1>8 DEF MarkPurged, NoPurge
  <2>2. /\ \A m \in Media : status'[m] \in {"none", "deleted"}
        /\ \A m \in Media : sourceDeleted[m] => sourceDeleted'[m]
    BY <1>8 DEF MarkPurged, Types, RowTypes
  <2>3. ~open' /\ jobs' = [j \in DOMAIN jobs |-> "failed"]
    BY <1>8 DEF MarkPurged
  <2>4. Recording' /\ KnownCopies' /\ Copied' /\ Purging'
    BY <2>1 DEF Recording, KnownCopies, Copied, Purging, Verified
  <2>5. Flagged' /\ NothingLost'
    BY <2>1, <2>2 DEF Flagged, NothingLost, Shown
  <2>6. Closed' /\ PurgedNotOffered'
    BY <2>1, <2>2, <2>3 DEF Closed, PurgedNotOffered, Types, ExportTypes
  <2>. QED  BY <2>4, <2>5, <2>6
<1>. QED
  BY <1>1, <1>3, <1>4, <1>5, <1>6, <1>7, <1>8 DEF RetentionStep

\* Exports.
LEMMA InvExport ==
    ASSUME IInv, ExportStep \/ WriteZipFails \/ ExporterStops
    PROVE  IInv'
<1>. USE DEF IInv, eventVars, rowVars, storeVars, exportVars
<1>1. Types'
  BY TypesExport
<1>2. UNCHANGED <<eventVars, rowVars, object, drive, arch, purge, swept>>
  BY DEF ExportStep, FindActive, CreateExport, ClaimNext, ListItems, WriteZip, MarkExport,
         WriteZipFails, ExporterStops
<1>3. Recording' /\ KnownCopies' /\ Copied' /\ Flagged' /\ NothingLost'
  BY <1>2 DEF Recording, KnownCopies, Copied, Flagged, NothingLost, Verified
<1>4. Purging'
  <2>1. UNCHANGED <<zips, overlap>> \/ Stored
    BY DEF ExportStep, FindActive, CreateExport, ClaimNext, ListItems, WriteZip, MarkExport,
           WriteZipFails, ExporterStops
  <2>. QED  BY <1>2, <2>1 DEF Purging, Stored, Types, RowTypes
<1>5. Closed' /\ PurgedNotOffered'
  <2>1. CASE CreateExport
    BY <1>2, <2>1 DEF CreateExport, Closed, PurgedNotOffered, Types, ExportTypes
  <2>2. CASE ClaimNext
    <3>1. PICK j : jobs' = [jobs EXCEPT ![j] = "processing"]
      BY <2>2 DEF ClaimNext
    <3>2. exporter'.pc = "claimed"
      BY <2>2 DEF ClaimNext, NoExport
    <3>. QED  BY <1>2, <3>1, <3>2 DEF Closed, PurgedNotOffered, Types, ExportTypes
  <2>3. CASE ListItems
    <3>1. jobs' = jobs
      BY <2>3 DEF ListItems
    <3>2. ASSUME purged
          PROVE  exporter'.pc = "failed"
      <4>1. {m \in Media : status[m] \in Shown} = {}
        BY <3>2 DEF Closed, Shown
      <4>2. exporter' = [exporter EXCEPT !.pc = "failed", !.items = {}]
        BY <2>3, <4>1, Numbered DEF ListItems
      <4>. QED  BY <4>2 DEF Types, ExportTypes
    <3>. QED  BY <1>2, <3>1, <3>2 DEF Closed, PurgedNotOffered
  <2>4. CASE WriteZip \/ WriteZipFails
    BY <1>2, <2>4 DEF WriteZip, WriteZipFails, Closed, PurgedNotOffered, Types, ExportTypes
  <2>5. CASE MarkExport
    <3>1. exporter'.pc = "idle"
      BY <2>5 DEF MarkExport, NoExport
    <3>2. purged => \A j \in DOMAIN jobs : jobs'[j] # "ready"
      BY <2>5 DEF MarkExport, Outcome, Closed, PurgedNotOffered, Types, ExportTypes
    <3>3. DOMAIN jobs' = DOMAIN jobs
      BY <2>5 DEF MarkExport
    <3>. QED  BY <1>2, <3>1, <3>2, <3>3 DEF Closed, PurgedNotOffered
  <2>6. CASE FindActive \/ ExporterStops
    BY <1>2, <2>6 DEF FindActive, ExporterStops, NoExport, Closed, PurgedNotOffered
  <2>. QED  BY <2>1, <2>2, <2>3, <2>4, <2>5, <2>6 DEF ExportStep
<1>. QED  BY <1>1, <1>3, <1>4, <1>5

LEMMA InvHolds ==
    ASSUME IInv, [Next]_vars
    PROVE  IInv'
<1>1. CASE UNCHANGED vars
  <2>1. Types'
    BY TypesHold DEF IInv
  <2>. QED
    BY <1>1, <2>1 DEF vars, eventVars, rowVars, storeVars, exportVars, IInv, Recording,
       KnownCopies, Copied, Flagged, NothingLost, Closed, PurgedNotOffered, Purging, Verified
<1>2. CASE Next
  BY <1>2, InvMedia, InvArchive, InvRetention, InvExport DEF Next, FailStep
<1>. QED  BY <1>1, <1>2

\* The fairness of the schedule is not needed for safety.
LEMMA Inductive == Spec => []IInv
<1>. QED  BY InvInit, InvHolds, PTL DEF Spec

-----------------------------------------------------------------------------
(* Theorems *)

\* Types hold, and a copy an archiver is recording exists (archive/service.go).
THEOREM StorageTypeCorrect == Spec => []TypeOK
<1>1. IInv => TypeOK
  BY DEF IInv, Types, RowTypes, ArchTypes, PurgeTypes, ExportTypes, Recording, TypeOK
<1>. QED  BY <1>1, Inductive, PTL

\* Wherever an archiver, a purge or an export is stopped, an item that is shown
\* has its original or a known copy until a purge begins to delete
\* (archive/service.go, archive).
THEOREM ArchiveIsSafe == Spec => []NothingLost
<1>1. IInv => NothingLost
  BY DEF IInv
<1>. QED  BY <1>1, Inductive, PTL

\* An original that is gone while galleries sign it is among those the next runs
\* list (archive/service.go, the deletions an earlier run left pending).
THEOREM DanglingIsFound == Spec => []DanglingIsPending
<1>1. IInv => DanglingIsPending
  <2>. SUFFICES ASSUME IInv, NEW m \in Media, Signed(m), ~object[m], ~swept
                PROVE  m \in SourceDeletionPending
    BY DEF IInv, DanglingIsPending
  <2>1. Verified(m) # {}
    BY DEF IInv, NothingLost, Signed, InGallery, Shown
  <2>2. ~r2Deleted[m]
    BY DEF IInv, Flagged, Signed
  <2>. QED  BY <2>1, <2>2 DEF SourceDeletionPending
<1>. QED  BY <1>1, Inductive, PTL

\* No export of a purged event is offered, whenever it was asked for and
\* however far it was written (retention/repository.go, MarkPurged;
\* exportjob/repository.go, MarkReady).
THEOREM PurgedIsClosed == Spec => []PurgedNotOffered
<1>1. IInv => PurgedNotOffered
  BY DEF IInv
<1>. QED  BY <1>1, Inductive, PTL

\* An event is marked purged only with nothing left of what was stored and
\* recorded before the purge (retention.go, purge).
THEOREM PurgeIsComplete == Spec => PurgeLeavesNothing
<1>1. ASSUME IInv, [Next]_vars, purged', ~purged, ~overlap
      PROVE  /\ \A m \in Media : ~object'[m]
             /\ zips' = {}
             /\ \A c \in drive' : replica'[c] = "none"
  <2>1. MarkPurged
    <3>1. purged' # purged
      BY <1>1
    <3>2. ~ UNCHANGED vars
      BY <3>1 DEF vars, eventVars
    <3>. QED
      BY <1>1, <3>1, <3>2 DEF Next, MediaStep, Reserve, PutObject, MarkUploadReady,
         Moderate, Period, ArchiveStep, ListSourceDeletionPending, ListForArchive,
         ArchiveEnds, DeleteSource, Upload, RecordVerified, DeleteObject,
         MarkSourceDeleted, CopyFails, RetentionStep, Candidates, ArchivedReplicas, DeleteCopy, MarkReplicaDeleted,
         DeletePrefix, ExportStep, FindActive, CreateExport, ClaimNext, ListItems, WriteZip,
         MarkExport, FailStep, ItemFails, ArchiverStops, PurgeFails, WriteZipFails,
         ExporterStops, eventVars
  <2>. QED  BY <1>1, <2>1 DEF MarkPurged, IInv, Purging, storeVars
<1>2. IInv /\ [Next]_vars =>
         [purged' /\ ~purged /\ ~overlap =>
             /\ \A m \in Media : ~object'[m]
             /\ zips' = {}
             /\ \A c \in drive' : replica'[c] = "none"]_vars
  BY <1>1
<1>. QED  BY <1>2, Inductive, PTL DEF PurgeLeavesNothing, Spec
=============================================================================
