# Verification of the CandidCrowd backend

TLA+ models of the event photo-sharing backend in `src/` (Go, PostgreSQL,
Cloudflare R2, Google Drive, Redis, Paddle), with TLC configurations that check them on small
instances and TLAPS proofs of the main safety properties for all instances.

## 1. Inventory

The server is one binary (`cmd/api`); several replicas may run it against one
PostgreSQL database. State that matters lives in database rows, R2 objects and
Drive copies; handlers keep only locals, except the realtime hub, whose topics
and streams live in one process. Concurrency comes from HTTP requests, the
goroutines of `CompleteMany` and of the hub, cron jobs, the thumbnail worker and
`planctl`, and everything can stop between two database or storage calls.

| Component | State | Operations | Interacts with | What makes it correct |
|---|---|---|---|---|
| Guest uploads and quota (`media`, `media_repository.go`) | `media` rows, counters and limits on `events`, R2 objects | CreateUpload, Complete(Many), ExpireStale, UpdateStatus(es), Delete | R2, `media_jobs`, limits from entitlements | reservations equal pending rows; no limit overshot; retries do not reserve twice; abandoned uploads are released |
| Thumbnail queue (`mediajob`) | `media_jobs` rows, goroutines | ClaimBatch, process, MarkDone, Reschedule, MarkFailed | `media` rows, R2 | one runner per job; bounded attempts and pool; every job settles |
| Daily archive (`archive`) | `storage_replicas` rows, Drive copies | copy, verify, record, delete source | R2, Drive, gallery URLs | a source goes only after a verified copy is recorded; what is shown can be fetched; one bad item does not stop the rest |
| Retention (`retention`) | `events.media_purged_at`, objects, copies | Run, purge, MarkPurged | R2, archive, exports | a purge that is marked left nothing behind |
| Exports (`exportjob`) | `event_exports`, ZIP objects | Create, ClaimNext, writeZip, MarkReady/Failed | R2, Drive, retention | nothing of a purged event is offered |
| Billing (`billing`) | `billing_purchases`, `billing_provider_events` | CreateCheckout, HandleProviderEvent, ReconcileUnapplied | Paddle, entitlements | what was paid is granted exactly once and upwards; refunds are counted once; duplicated or reordered events are harmless |
| Entitlements (`entitlement`) | grants, licenses, limits on `events` | Provision, Activate, Revoke, ActivatePurchase, back-fill, Reconcile | billing, event rows | one active grant per event; the row carries its limits; revoking is the undo of an upgrade; windows only grow |
| Catalog and pricing (`catalog`, `billing/pricing.go`) | read-only plans | quotes | billing, entitlements | no path through upgrades, credits and loyalty undercuts the price list |
| Events (`event`) | `events` rows, trial indexes | Create, Close, Delete | entitlements | one running trial; one event per request id; the trial window |
| Guest sessions (`guest`) | `guest_sessions` | Create | plan of the event | seats are not oversold |
| Realtime hub (`realtime`, `httpapi/stream.go`) | topics, subscriptions with bounded buffers | Subscribe, deliver, Close, shutdown | Redis, HTTP streams | no send on a closed channel; a gap is told; guests learn nothing private; empty topics end |
| Live wall (`livewall`) | `live_wall_sessions` | create, update, command, end, revoke | realtime hub, plans | a stale remote overwrites nothing |
| Insights, profiles, users, API errors | rows of their own | queries, upserts | – | no protocol of their own |
| Adapters (`platform/*`), wiring (`cmd`, `config`, `httpapi/router.go`) | – | calls to external services, cron | all | outcomes are choices in the modules that call them |

What is hard here: statements of different handlers interleave on one event
row; values are read in one statement and used in a later one; object storage
and database are updated in separate steps; a client retries what has been
done; a worker or cron run stops half-way; provider events arrive twice or out
of order; streams, topics and the hub end in any order. `PROJECT.json` lists
each hazard at its line.

## 2. Plan

1. Uploads: `MediaUpload`, `MediaUploadProofs`, `MediaLimitProofs`. Done.
2. Thumbnails: `MediaJob`, `MediaJobProofs`. Done.
3. Billing: `Billing`, the abstract `PurchasePromise` it implements,
   `BillingProofs`. Done.
4. Storage: `Storage` (archive, retention, exports), `StorageProofs`. Done.
5. Entitlements and prices: `Pricing`, `EventPlans`, the abstract `PlanStack` it
   implements, `EventPlansProofs`. Done.
6. Events and guests: `Events`, `EventsProofs`. Done.
7. Streams: `Realtime`, `LiveWall` on top of it, `LiveWallProofs`. Done.
8. Left: several hubs behind one Redis, time-limited prices and new plan
   versions, the contents of an export.

Who composes whom: `LiveWall` extends `Realtime` and drives its notifications;
`EventPlans` extends `Pricing`. The other modules meet in the rows: `MediaJob`
starts from the job that `MediaUpload` promises (`ThumbnailOwed`); `Storage`
takes ready items from it; `Billing` settles the purchases that `EventPlans`
grants for two events at once; `Events` and `MediaUpload` see plans change as
`EventPlans` changes them.

## 3. Modules and code

### MediaUpload

One event: every statement of the media repository is keyed by the event.

| Variable | In the code |
|---|---|
| `eventStatus`, `limit` | `events.status`, `max_media_bytes`, `max_*_items` |
| `used`, `reserved`, `uploaded`, `reservedItems` | the counters of the event row, items in total and by kind |
| `created`, `status`, `owner` | `media` rows; ids are in insertion order |
| `jobs` | ids with a `media_jobs` row |
| `object`, `urls` | R2 keys, presigned PUTs that were handed out |
| `horizon` | rows whose `last_activity_at` is older than the stale age |
| `pc`, `up`, `md`, `cap` | where a request's handler is, and its locals |
| `cleaner`, `batch` | the same for a run of ExpireStale |
| `doomed`, `summed` | a deletion's ids, and those its SUM has counted |
| `granted` | history variable: limits the event has had |
| `unreturned`, `lost` | history variables: deleted media whose bytes a stale SUM left in use; completed media a cleanup removed |

A transaction or a storage call is one step. `CreateUpload` is split into the
lookups with the read of the byte cap (`CreateUpload`), the reserving
transaction (`ReserveUpload`, or `ReserveRefused` followed by `RefindUpload`),
the signing (`PresignPut`, or `PresignFailed` followed by `UndoReservation`).
`Complete` is the lookup with Head, then `MarkReady`, `MarkReadyNotFound` or
`MarkReadyDuplicate` with its two clean-up steps. `ExpireStale` is `FindStale`,
`ExpireObjects` (the provider may leave any of the keys), `ExpireRows`. `Abort`
and `AbortExpire` end a handler or a run anywhere: an error, a time-out, a
stopped process. The host's deletion reads its SUM first (`SumDeleted`) and then
updates rows and counter (`DeleteForEvent`); under READ COMMITTED everything may
happen in between. Other changes of the host and of the plan are one statement each.
The browser's PUT and the passage of time are external.

Abstractions: a file is its checksum, size and kind; a key that holds nothing
and a key that holds something that does not match are the same to the code. A
PUT replaces whatever the key held. A checksum that is not lower-case
hexadecimal is normalised by the INSERT but not by the early duplicate lookup;
`MixedCase` is the set of uploads announced like that. Rate limits, validation
and the upload window only refuse requests and are part of "the guest does not
send it". Mime types are photos and videos, the only ones accepted.

### MediaJob

Rows of `media_jobs` and, for each worker, the goroutine of each job it has
claimed. `ClaimBatch` takes as many due jobs as fit, counts the attempt and
starts the goroutines; `GenerateThumbnail`, `PutThumbnail`,
`UpdateProcessingResult` are the calls of the render path; `MarkDone` and `Fail`
record the outcome. `OutcomeNotRecorded` is the failure of that last UPDATE and
`StopProcess` a crash or a shutdown, which does not wait for the worker.
`StreamFails` says whether a storage read that was opened, or ffmpeg, may still
break off. `SKIP LOCKED` makes concurrent claims take different rows; rows that
were locked are skipped as though the other claim had committed first.

`MarkReady`, `DeleteForEvent` and `DeleteRow` are what the actions of
`MediaUpload` do to one row, so the queue starts as `ThumbnailOwed` promises it.

### Billing

One event and its host. A purchase is known by its idempotency key.

| Variable | In the code |
|---|---|
| `status`, `refunded`, `total`, `applied`, `checkout` | columns of `billing_purchases` |
| `grants`, `plan`, `flag` | grants written for the purchase, rank of the active grant, `events.billing_status` |
| `sent`, `record` | what Paddle has sent; `billing_provider_events.status` |
| `cpc`, `ckey` | a CreateCheckout request |
| `wpc`, `wnote`, `wrow` | a webhook request: next statement, notification, the row GetPurchase returned |
| `rpc`, `rkey`, `todo` | a run of ReconcileUnapplied |

`CreateCheckout` is the look-ups, then `CreatePurchase` (the unique indexes
decide), the provider's call, and `UpdateCheckout` or `UndoPurchase`. A webhook
is `InsertProviderEvent`, `GetPurchase` with the branch its row selects
(`SettlementNext`, `FailureNext`, `ReversalNext`, `DisputeReversedNext`), then
one step per statement, each of which uses the row as it was read. `ActivatePurchase`
is the licensing transaction, shared by webhooks and reconciliation; it locks
the license and the event, and `EventConsumed` is the unique index on the event
of a consumed license. A statement that fails leads to
`MarkProviderEventFailed`; `StopDelivery`, `StopCheckout` and `StopReconcile`
cut a handler off. The provider is external: it sends a notification about a
transaction whose id is on record, in the order payments happen, and delivers it
any number of times; with `EarlyDelivery` also before the one it is about.

Abstractions: a quote is a constant total for each key; verification of
signature, price and currency is the set `Mismatched`; notifications that are
ignored or have no purchase change nothing but their own record.
`RevokeUnconsumed` never finds a license, since a license is inserted and consumed
in one transaction. `UnappliedSettled` lists all purchases of the event that are due,
where the query takes the oldest of all events up to its batch: a batch full of
purchases that can never be granted (section 6) is not seen.

`PurchasePromise` has no handlers: a purchase is paid, and what is paid and an
upgrade is granted, once. `KeepsPromise` is that specification under the mapping
`paid` = completions sent at the quoted price, `granted` = purchases with a
grant, `level` = rank of the active grant.

### EventPlans, Pricing and PlanStack

Two events of one host, one of them older than plans. A change of grants is one
transaction under the lock of the event row, so it is one step.

| Variable | In the code |
|---|---|
| `status`, `date` | columns of `events` |
| `grants` | `event_plan_grants` of an event, with source, reference, status, activation and end of the window |
| `row` | the limits copied to the event row |
| `purchases` | `billing_purchases` with license and quote; `quote` the checkout that holds one |
| `listed` | what a run of planctl has listed and not yet visited |

`Provision`, `Grant`, `Revoke`, `ActivatePurchase` and `BillingReconcileGrant`
are the writers of grants; `BackfillCandidates`/`BackfillVisit` and
`UnappliedSettled`/`BillingReconcile*` are planctl's runs, which act on what they
listed and may stop. `Pricing` holds the algorithms: the order of plans, windows,
and the quotes for a first plan and for an upgrade. A day is the unit of time.
The mapping to `PlanStack` takes the plan of an event's active grant (its rank and
the last day of its window) as `held` and those of its superseded grants as
`below`: every step brings a higher plan and puts the one it replaces below, or
takes away what is held and brings back the highest one below, or stutters.

### Events

One host. `Create` to `InsertRefused`/`GetByClientRequest` are the statements of
`Service.Create` with trial limits enabled: the count of the window, the count
of running trials, the insert with its Free grant, and the look-up after a
conflict. `Conflicts` is the two unique indexes. A guest's session is
`FindSeat`, what `GetPublic` and the snapshot of the locking SELECT see, and
`TakeSeat`, what happens once the locks on event and grant are held: PostgreSQL
evaluates the condition again on the locked rows (`StillJoined`). `ActivateGrant`,
`RevokeGrant`, `CloseOwned`, `DeleteOwned` and `LeaveWindow` go on meanwhile.

### Storage

One event. `object`, `drive` and `zips` are what R2 and Drive hold; `status`,
`sourceDeleted`, `r2Deleted`, `replica`, `jobs` and `purged` what the database
says of it; `arch`, `purge` and `exporter` where each process is. Every call is a
step, after which the others run; `ItemFails`, `ArchiverStops`, `PurgeFails`,
`WriteZipFails` and `ExporterStops` end or skip at any of them.
`ListSourceDeletionPending` and `ListForArchive` are the two parts of `Run`; the
first query returns a row per copy, ordered by when the copy was verified, so up
to Batch rows may be fewer items: the model reads any of them, at most Batch. The
second reads the oldest items. `Purge` may run without a Drive client (planctl). `InGallery`,
`Signed` and `Served` are what the gallery and the content routes do with a row.
`swept` and `overlap` are history variables: a purge has begun to delete, and
something was stored while one ran.

### Realtime and LiveWall

The hub of one process and one event. What is done under one lock is one step,
which is why `Subscribe` is `SubscribeFind` (under `hub.mu`) and `Join`
(`topic.add`), `Subscription.Close` is `CloseFind` and `CloseRemove`, and
`topic.shutdown` is `Stop` and `Release`.

| Variable | In the code |
|---|---|
| `hub`, `current` | `Hub.closed` and the event's entry in `Hub.topics` |
| `run`, `cancelled`, `subs` | of each topic made: its goroutine, context, subscribers |
| `inbox` | what Redis holds for its subscription |
| `cpc`, `topic` | a stream request: next step and the topic it found |
| `queue`, `open`, `dropped` | the channel of its subscription |
| `pending` | messages of announced changes whose goroutine has yet to publish them |
| `wall`, `saw`, `want`, `expect` | the row of the live wall, and what each remote last read, asks for and expects |
| `sent`, `got` | history: messages delivered by a topic, and received by a stream |

`MediaMessages` is how one change is told to the two audiences; a message is its
kind and whom it is for, what else it says nothing here depends on. A publish may
fail and Redis delivers in order. `LiveWall` adds the remotes: an update passes
the plan's gate and then is one conditional UPDATE; a command is one UPDATE.

Operators introduced by a comment "Variant" are altered forms of the definition
after them: faults that the properties detect. No specification uses them.

## 4. Runs

| Run | Instance | What it shows |
|---|---|---|
| `uploads` | two requests, a photo and a video, two rows, three plans | `CountersMatchRows`, `ThumbnailOwed`, `OneRowPerClientUpload`, `DeletedIsFinal` under every interleaving; `LimitsHeld`: limits are not overshot although the byte cap is read early |
| `upload_cleanup_live` | one request, batch of two, one object that can never be deleted | `AbandonedReleased`: the rest is given back |
| `jobs` | two workers, a pool of one, two jobs, two attempts, goroutines cut off anywhere | `OneRunner`, `AttemptsSpent`, `ReadyMeansStored`; `JobSettled` |
| `billing_races` | two purchases of different tiers, a chargeback that is won, a wrong price, two checkouts, two webhooks in any order, one failure, one stop | `GrantsSound`, `OneOpenPurchase`, `RefundedWithinTotal`, `RefundsOnce` |
| `billing_live` | two purchases, of the first a failed, a cancelled and a completed payment, two webhooks in any order, one failure, no stop | `KeepsPromise` (refinement), `PaidIsGranted`, `SettledStays` |
| `billing_refunds` | one purchase, two partial refunds, two webhooks, nothing fails | violation of `RefundsCounted`, section 6 |
| `billing_upgrade` | two purchases of rising tiers, one webhook, nothing fails | violation of `UpgradeIsGranted`, section 6 |
| `events` | three events, two creates, one request id, two scans, a plan of one seat and one without limit, three changes by host, operator or clock | `OneActiveTrial`, `RetriesAgree`, `TrialWindowHeld`, `SeatsHeld` |
| `plans` | two events (one old), the three plans of the catalog at their list and loyalty prices, two purchases, two days, two operator steps | `RowFollowsGrant`, `NeverBelowFirst`, `NeverBelowPrice`, `StackDiscipline` (refinement) |
| `storage` | two items, of which the older can never be copied, three copies each, two archivers, one export, two happenings | `TypeOK`, `NothingLost`, `DanglingIsPending`, `PurgedNotOffered`, `PurgeLeavesNothing`, `OthersArchived` |
| `storage_served` | the same, one archiver, nothing fails | violation of `ArchivedIsServed`, section 6 |
| `live` | three casts: a host and a guest with one change; a projector and a remote, or two remotes, with two; buffer of one, two topics | `TypeOK`, `SendsAreSafe`, `GapsAreTold`, `IdleCancelled`, `SilentOnJoinOnly`, `NoLostUpdate`, `ShutdownFrees` |

Bounds. Every race in the upload code is between two handlers, or a handler and
the cleanup run or the host, about one row or about the last unit of a limit:
two rows, two requests and one run produce all of them. `u2` is announced in
mixed case, which is how a duplicate gets past the early check without a race.
Of the plans one allows both files' bytes but a single item, one allows both
items but not their bytes, and one has no byte limit and leaves the column
alone: a handler may carry the larger cap into the plan with the smaller one.
`MCRacesOrPlans` explores, under the widest plan alone, deletions by the host beside
confirmations, other deletions and the cleanup, and everything else until one
step beyond the end of the event; and, while no row is stale and the event
is open, one change of plan. The two files of `uploads` differ in content;
`upload_cleanup_live` has the same photo twice, so the duplicate path and the
early duplicate check occur there. Requests are symmetric. In `jobs` a pool of
one with two jobs makes a worker wait for its batch; two attempts separate a retry
from the retirement.

In billing, handlers race in pairs about one row; a total of 3 separates two
refunds from one, from a chargeback of 2 and from all of it; one failure and one
stop reach every statement of a handler. No run serialises the webhooks: two
deliveries are in flight, repeated and in any order. `billing_live` has no refunds and
no chargeback, because one that is handled after a grant failed takes the purchase
out of what is owed, and no stop, because the code never recovers from it (section
6).

In `events`, two creates and two scans are the smallest race for one trial and
one seat; three changes let a plan be replaced, revoked and replaced again
between a scan's read and its lock. In `plans`, three tiers make an upgrade of an
upgrade, two events make the loyalty of one visible in the price of the other,
and two operator steps cover grant and revoke, or a run of planctl with either.
In `storage`, a batch of two holds the broken item and one more, and three copies
are two archivers' simultaneous ones and a third after a failure; what happens
from outside (moderations, turns of the storage period, exports asked for,
failures, stops) is bounded together by `MaxHappens`, so any two of them meet. In
`live`, a second topic is made after the first was given up, a buffer of one
overflows at the second message, and the casts bound who takes part at the same
time: streams of both audiences, a projector with the remote that drives it, and
two remotes against each other.

Deadlock is not checked: rows, time and happenings are bounded in the models,
and the systems may come to rest (a deleted event, all jobs settled, all
notifications processed, a hub that closed).

Fairness. Upload: time passes (`GrowStale`); cron keeps starting ExpireStale and
a started run takes its steps (`CleanerStep`); although single calls fail at
times, a run does not fail for ever, so the deletion of all objects but the
`Stuck` ones and the deletion of the rows are strongly fair. Guests and hosts
are not fair. Queue: time passes, an idle worker polls again (the ticker in
`Run`), and a goroutine continues to its end (every call has a time-out). Which
way a call turns out is never fair: all attempts of a job may fail. Billing:
handlers that run continue, cron starts reconciliation again and again
(`cmd/api/main.go:265`), and the provider repeats a notification until it is
acknowledged, so its delivery is strongly fair while a handler would take it; a
mismatch is acknowledged at once. Hosts and payments are not fair. Storage: the
archiver of each replica is started by its schedule and takes its steps;
failures and stops use up a bound and are never fair. Realtime: goroutines that
can continue do (topics, pumps and `Hub.Close`); requests, changes and the
shutdown itself are not fair.

## 5. Proofs

All theorems are for arbitrary constants that satisfy the assumption named in
their module: sizes are positive and bounded (CreateUpload refuses others),
kinds are photo or video, plans have natural limits, batch, pool, buffer and
attempt limits are positive, the media of the queue are finite; purchases have a
positive rank and a natural total, notifications name a purchase, a type and a
natural amount; seats and trial limits are natural numbers and the creates in
flight finitely many; the catalog is a sequence of plans that starts with Free
and has the one back-fills grant; the wall's transitions include the classic one
a session starts with.

*MediaUploadProofs.* `TypeCorrect` is `Spec => []TypeOK`; `TypeOK` contains the
facts the code takes for granted, such as that a handler past its lookup holds
the id of a row that was inserted. Where no run lists a type invariant, as here,
the theorem takes its place. `AccountingHolds` proves `CountersMatchRows`
(what is reserved is exactly the pending rows, usage is what was completed and not
given back) and, with `ThumbnailsFollow`, `ThumbnailOwed`. A row that leaves usage
behind is named (`lost`, `unreturned`), so nothing else can: usage is not given
back twice, although two deletions may have summed the same rows. Together with `TypeOK` they are inductive and none of the
counters' properties is provable without the types, because `GREATEST(n, 0)` is
exact only if the amount subtracted is part of the sum. The argument: sums over
rows are cardinalities (`HeldAdd`, `HeldRemove`, `ItemsAdd`, `ItemsRemove`);
each transaction that touches counters has a lemma about its effect
(`AccountsReserve`, `AccountsRemove`, `AccountsReady`, `AccountsDelete`,
`AccountsCurate`); `StepKinds` sorts every step of the system into these or into
one that leaves the counters alone.

*MediaLimitProofs.* `LimitsHold` proves `LimitsHeld`, in items and in bytes.
The inductive invariant adds `CapsHeld` (a handler about to reserve carries a
cap the event has had: the stale read) and needs the exact accounting: a
confirmation moves bytes from `reserved` to `used`, and the total does not grow
only because the row's size is contained in `reserved`. `OneRow` proves
`OneRowPerClientUpload`; `DeletionIsFinal` the action property
`DeletedIsFinal`.

*MediaJobProofs.* `JobTypeCorrect`, `JobExclusive` (`OneRunner`), `JobAttempts`
(`AttemptsSpent`) and `ThumbnailOrder` (`ReadyMeansStored`, and
`DoneMeansRendered` where reads do not break off) follow from one inductive
invariant `JobInv`. It adds that the attempts a goroutine saw are those of the
row and that a queued job has attempts left (`AttemptsKept`), that a goroutine
about to record a thumbnail has stored it (`StoredFirst`), and that one about to
report success has nothing left to do (`RenderedFirst`).

*BillingProofs.* `BillingTypeCorrect` is `Spec => []TypeOK`. The other
theorems each have an inductive invariant on top of it:

- `OneOpen` proves `OneOpenPurchase`. `OpenInv` adds that a request between the
  insertion and the provider's answer owns a pending purchase without a checkout
  (`CheckoutsHeld`, `CheckoutsApart`), and that the provider only sends
  notifications for checkouts that are known (`SentKnown`). So the unconditional
  status updates of webhooks and reconciliation can close a purchase but never
  reopen one (`CloseOnly`), and a request opens only what it inserted.
- `GrantSafety` proves `GrantsSound`: granted once, only when paid, applied only
  when granted. `GrantInv` adds that a handler about to record a grant has seen it committed
  (`MarkedLater`) and that everyone about to settle, grant or reverse acts on a
  payment that was verified (`PaidFirst`). Retries are harmless because the
  licensing transaction looks the purchase up before it writes (`GrantEffect`).
- `RefundsBounded` proves `RefundedWithinTotal`. `TotalsKept` says that a
  handler's stale copy of the purchase never has a larger total than the row, so
  the cap computed from the copy is good for the row. Its hypothesis
  `ChargesPositive` is needed: a settled total of zero is no ceiling
  (`service.go:593`).
- `SettledIsKept` proves the action property `SettledStays`, for any number of
  concurrent requests. `DecidedOpen` says that a request about to write a status
  which is not one after settlement read the purchase before it was settled; so
  the write that undoes a settlement is one that was overtaken, and section 6
  shows that there is one.
- `RefundsBookedOnce` proves `RefundsOnce`: while no statement has failed, no more
  is booked than was returned, whatever overtakes what. `HandledOnce` says that
  each notification is with one request and handled once, `BookedOnce` that the row
  and every copy of it are covered by the notifications past their booking; amounts
  are sets of cells, so that two notifications add up because their cells are
  apart. Its hypothesis `AmountsGiven` says that refunds name their amount: without
  one a refund counts as all of it.
- `PromiseKept` proves the refinement `KeepsPromise`: `Spec` implies
  `PurchasePromise` under the mapping of section 3. It rests on the invariants of
  `GrantSafety`: a grant step takes a purchase that was paid, was not granted and
  is above the active plan; every other step leaves the mapped variables alone
  or pays one purchase.

*EventsProofs.* `EventsTypeCorrect` is `Spec => []TypeOK`, which says that a
scan that waits for its lock names an event with a row and that every event has
a grant. `CreatesSafe` proves `OneActiveTrial` and, with `AnswersAgree`,
`RetriesAgree`; its inductive invariant adds that an answer names an event whose
row carries the id. `WindowOverrun` proves `TrialWindowHeld`: the trials in the
window and the creates that have passed its count stay below the limit and the
number of creates together, so a count that was passed pays for one insert.
`SeatsAreHeld` proves the action property `SeatsHeld`.

*StorageProofs.* `StorageTypeCorrect`, `ArchiveIsSafe` (`NothingLost`),
`DanglingIsFound` (`DanglingIsPending`), `PurgedIsClosed` (`PurgedNotOffered`) and
`PurgeIsComplete` (the action property `PurgeLeavesNothing`) share one inductive
invariant. `KnownCopies` and `Copied` carry `NothingLost`: until a purge begins
to delete, what is recorded as verified exists, and an archiver that is about to
remove or mark an original finds such a copy of it. `Flagged` says that a row whose original is marked gone
in R2 is marked archived as well. `Closed` is why a late export is harmless: the
purge closes the jobs in the transaction that marks the event, and an export
that is still being written finds its job no longer `processing`. `Purging` says
what a purge that nothing overlaps still has on its list; when it marks, that is
nothing.

*EventPlansProofs.* `PlansTypeCorrect` is `Spec => []TypeOK`, at most one active
grant included, and `RowsFollow` is `Spec => []RowFollowsGrant`. The inductive
part is `OneInForce`: an event with grants has exactly one in force, and its
limits are those of the row. `ReplaceKeeps` proves it for any transaction that
leaves an event one grant in force and copies that one's limits; `Provision`,
`WriteGrant` with its callers and `Revoke` are instances. `Revoke` needs in
addition that the newest superseded grant exists (`NewestIn`), for which
activation times must not lie in the future. Of purchases and quotes these two
need the types only: a quote's credit is at most its price (`TermsAreQuoted`).

`History` says what came first (an event, its first grant, its purchases, their
payment); `Moves` sorts every step into one that leaves an event's grants alone,
appends a higher one that lasts no shorter (`Pushes`) or revokes the active one.
From them follow two theorems for any catalog. `FirstPlanStays` proves
`NeverBelowFirst`; its invariant `Bottom` says that the first grant of an event is
the least in rank and window and was not revoked, and that nothing is superseded when
it is the active one: it was activated first, and `Revoke` takes back what was
activated last (`repository.go:352-358`). `RevokingUndoes` says that the plan of an
event changes in two ways only: a grant goes up, shortens no window and keeps what
it replaces, and a revocation brings back one plan that was replaced and leaves the
others. That it is the very plan the revoked grant replaced (`StackDiscipline`, a
refinement of `PlanStack`) is checked in `plans` with the three tiers of the
catalog; it is not so in every catalog (section 6), and no theorem says so.

`PriceListHolds` proves `NeverBelowPrice`. `Checkouts` says that an event has one
open checkout, the latest; `Origins` that every grant which counts as bought
was sold by a purchase of its event, and what was applied has such a grant;
`Ledger` that what an event paid, with an open checkout or a quote added, covers
each plan it has bought, and the first one on top where that was sold at the
list price and the later one at the loyalty price. An upgrade's credit is
covered by the purchase it comes from (`QuoteCovers`); a plan bought in full
again, because the first was not granted yet, is where loyalty could undercut.
Hence `ModestLoyalty`: no loyalty price is above its list price, and no
discount is above the price of a plan on sale. The default prices (39 and 32, 69
and 59) satisfy it; section 6 says what happens without it. Amounts spent are
sets of dollars, so sums are cardinalities.

*LiveWallProofs.* The invariants of the hub are mutually dependent and proved
together (`Wiring`). `MapHoldsAlive` (while the hub is open its map holds the one
topic that is alive), `Joined` (a stream is in one topic, the one it found) and
`OpenToSends` give `SendsMeetOpenChannels`; `Channels` and the count of what a
topic delivered give `GapsCloseStreams`; `IdleTopicsEnd` is inductive with them.
`SilenceIsOnJoin` is proved action by action: only `Join` of a topic that has
stopped makes a stream silent. `UpdatesAreInformed` rests on `OnScreen`: what a
remote has on screen is the row unless the revision has moved on. All are about
`LiveWall`'s specification, which contains `Realtime`'s steps.

Only model-checked: the liveness properties `AbandonedReleased`, `JobSettled`,
`PaidIsGranted`, `OthersArchived` and `ShutdownFrees`, since fairness is outside
the proof system's reach; `StackDiscipline`, which holds in catalogs of three tiers;
and the three violations of section 6. All other properties of the runs, the
refinement `KeepsPromise` included, are proved.

## 6. Findings

Three runs show the code at odds with what the repository says of it.

1. **An upgrade that was paid is never granted** (`billing_upgrade`).
   `ActivatePurchase` inserts one license for each purchase and marks it consumed
   by the event (`entitlement/license.go:192`); the index
   `event_licenses_consumed_event_idx` (`000037:31`) allows one of an event. The
   second purchase of an event fails at that statement in the webhook and in
   every reconciliation, for ever. `planctl billing-reconcile`, which grants
   without a license, gets past it.
2. **An archived item cannot be fetched** (`storage_served`). `ReadURL` signs the
   R2 key of any item that is shown (`media/service.go:897`), also when its
   original has been moved to the archive; the content routes reach the archive
   only for items that are not shown.
3. **Of two refunds handled at once one is lost** (`billing_refunds`).
   `handleReversal` adds to the amount it read (`billing/service.go:592`) and stores
   the sum without a condition, where "Two genuinely different partial refunds must
   still accumulate" (`billing/hardening_test.go:425`).

The models show more places where a comment or a test says what the code does not
do. The passing properties that come near such a case name it, as a history variable,
a condition or a parameter; the last column says which.

| The repository says | What happens | In the models |
|---|---|---|
| `media_repository.go:160`: DeleteManyUploads "removes never-completed upload records"; the drift report of `entitlement/repository.go:421-437` expects none | the rows a cleanup listed are deleted by id, whatever their status is by then (`:172`): an upload completed in between is lost and stays counted | `lost`, which `UsageExplained` counts |
| the same report | a deletion's SUM (`media_repository.go:235`) is read before its rows are locked: what turns ready in between is deleted and stays in `used_media_bytes` | `unreturned`, which `UsageExplained` counts |
| `event/service.go:181-182`: a retried submit after a lost response "answers with the event the first attempt created instead of failing"; `service_test.go:774` tests it without limits | with trial limits the retry is refused by the counts (`:141-160`) before its id is looked up; one that loses the race for the trial fails with the raw conflict | `Create`, `GetByClientRequest`; `RetriesAgree` is about the answers only |
| `realtime/notifier.go:117-118`: "Hidden media must never reach a guest" | `media.created` may be published after the photo was hidden, and its thumbnail is announced to guests whatever its status is by then, also when the row is gone (`media/service.go:385-388`, 468-482) | `MediaThumbnail`, `Publish` in any order; no property is about what a message says |
| `media/service.go:231-232`: a thumbnail job "survives a restart, it retries" | a job claimed by a process that stops stays `processing`; claims select `queued` rows only (`mediajob/repository.go:25`). `OneRunner` depends on that: a fix needs a lease | `lost` in `JobSettled` |
| `media/service.go:305-306`: nil means that nothing further is needed | a storage read that breaks off, or ffmpeg's time-out, is taken for an undecodable file and the job is done without a thumbnail (`:346`) | `DoneMeansRendered` with `StreamFails = TRUE` |
| `billing/service.go:443-445`: a repeated delivery repairs itself | a handler that is cut off leaves its notification `received`, and retries count as duplicates (`gorm_repository.go:239`); the purchase is not settled, so reconciliation does not see it | `PaidIsGranted` with `MaxStops = 1` |
| `billing/service.go:265-266`: of a checkout that was not persisted, "Reconciliation can recover this state" | the purchase stays pending and blocks the event's checkouts; reconciliation lists settled purchases only | `StopCheckout`; no property |
| `billing/hardening_test.go:144-145`: a completion after the money went back "must not put the purchase back into a paid state" | a refund handled before the completion only cancels; the completion then settles and grants (`service.go:584`, 458) | `ReversalNext` with `EarlyDelivery`; no property |
| `billing/hardening_test.go:169`: a failure "that overtakes the completion must not undo it" | `handleFailure` writes without a condition on the status (`service.go:562`) and overwrites a settlement that committed since it read; the grant stays | `Overtaken` in `SettledStays` |
| `billing/service.go:354-355`: a refund announced twice "is applied once" | a refund whose handler fails after RecordReversal is booked again by the retry (`:625`) | `RefundsOnce` without `failures = 0` |
| `platform/database/archive_repository.go:65-68`: "a listing can never sign a key whose object has already been deleted" | between the deletion from R2 (`archive/service.go:139`) and the transaction that marks the row, and for as long as that fails, listings sign the key | `DanglingIsPending`, which says that the next run has it on its list |
| `realtime/hub.go:124-125`: "Close releases every connection" | Subscribe lets go of the hub's lock before it joins (`:92-104`); a stream that joins a topic which has ended is fed and released by nobody until its maximal age. And during `Hub.Close` a stream that ends closes its channel while its topic may still send on it, which is a panic | `Silent` in `SilentOnJoinOnly` and `ShutdownFrees`; `hub # "open"` in `SendsAreSafe` |
| `entitlement/repository.go:69`: Revoke "reinstates the one it superseded"; by `catalog/plan.go:16-19` and migration `000039:1-3` a tier can be added as data | with a fourth tier, a purchase of rank 3 settled on day 0 is granted after a manual grant of rank 2 on day 1 but dated before it; revoking a rank 4 on top reinstates rank 2 (`:352-358`) | `StackDiscipline` with four `Plans` |
| `archive/service.go:68-70`: stopping on a candidate that keeps failing "would stall archiving for the whole deployment" | the run moves on, but such candidates stay at the head of every later batch: once they fill it, nothing else is archived | `OthersArchived` with `Batch = 1` |

Further behaviour of the code that the models contain and no property forbids,
since nothing in the repository says what should happen:

- With plans at 10 and 69 and loyalty prices 10 and 40, an event pays the first plan
  at its list price; before that is granted another event of the host is paid too,
  and the first event's next purchase is a full one at the loyalty price: 50 in all
  for a plan of 69. The default prices exclude this (`ModestLoyalty`).
- A chargeback that was won takes what it disputed off the refunded amount, where
  the ceiling had hidden part of it, and makes the purchase `settled`, also when
  it had been refunded (`billing/service.go:666`). It is handled in several
  statements; when one fails, the retry finds no dispute any more and leaves the
  event under review (`:655`).
- A refund or chargeback handled after the grant of its purchase failed, in part or
  in full, ends the attempts to grant it; one handled between the listing of a
  reconciliation and its grant does not.
- A copy recorded, a ZIP stored or an upload put after a purge listed what to delete
  survives it, and so does a copy whose archiver stopped between upload and record;
  `PurgeLeavesNothing` is about purges that nothing overlaps and copies that are on
  record.
- An upgrade paid while a purge runs does not stop it; the archive lists
  only `ready` items, so featured and hidden ones stay in R2; two archivers may
  both copy an item, which an export then lists twice; an export whose process
  stops stays `processing` and is handed out as the active one.
- Ending or revoking a live wall does not change its revision and does not end
  the projectors' streams; a guest whose stream was admitted just before the
  gallery was closed keeps it until the notice arrives; messages that Redis
  loses are not noticed.
- A purchase that was quoted before another was applied may be paid in full for a
  plan that is no upgrade any more.

## 7. Not modelled

Listing, cursors and sorting of the media service, event settings and covers,
the audit trail of grants, account-wide licenses, publication of plan versions
and time-limited prices, what an export contains and when its link expires, pings
of streams, and the fields of a live wall other than its transition and whether
it plays. Insights, profiles, users and error mapping have no protocol: each
request is one statement whose result decides nothing elsewhere. Adapters,
configuration and routing are represented by the outcomes of the calls made to
them. Crashes of PostgreSQL and lost commits are outside the models: a committed
transaction stays committed.
