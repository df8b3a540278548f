------------------------------ MODULE Billing ------------------------------
(***************************************************************************)
(* Purchases of event plans: checkouts, the payment provider's webhooks,   *)
(* the grant of what was bought, and reconciliation.                       *)
(*                                                                         *)
(*   internal/billing/service.go, gorm_repository.go                       *)
(*   internal/entitlement/license.go              ActivatePurchase         *)
(*                                                                         *)
(* One event and its host.  A purchase is known by its idempotency key,    *)
(* which the database keeps unique per host.  Each statement is a step;    *)
(* webhook handlers decide on a purchase row they read earlier (wrow).     *)
(* A license is inserted and consumed in the transaction that writes its   *)
(* grant, so a purchase has a consumed license iff it has a grant, and     *)
(* RevokeUnconsumed never finds one to revoke.                             *)
(***************************************************************************)
EXTENDS Integers, FiniteSets

CONSTANTS
    Keys,          \* idempotency keys of the host's checkouts
    Rank,          \* tier_rank of the plan each is for
    Total,         \* what the provider charges for each
    Notes,         \* notifications of the provider, by dedupe key
    Note,          \* their content: key, type, amount
    Mismatched,    \* completions that are not for the quoted price
    Checkouts,     \* CreateCheckout requests in flight
    Deliveries,    \* webhook requests in flight
    EarlyDelivery, \* may a notification overtake the one it is about
    MaxFailures,   \* bound: statements that fail
    MaxStops,      \* bound: handlers that stop half-way
    NoKey, NoNote

Adjustments == {"refunded", "disputed", "dispute_reversed"}
NoteTypes == {"settled", "failed", "canceled"} \cup Adjustments

ASSUME BillingAssumption ==
    /\ Rank \in [Keys -> Nat \ {0}] /\ Total \in [Keys -> Nat]
    /\ Note \in [Notes -> [key : Keys, type : NoteTypes, amount : Nat]]
    /\ Mismatched \subseteq Notes
    /\ EarlyDelivery \in BOOLEAN
    /\ MaxFailures \in Nat /\ MaxStops \in Nat
    /\ NoKey \notin Keys /\ NoNote \notin Notes

Open == {"pending", "checkout_created"}
PostSettlement == {"settled", "partially_refunded", "refunded", "disputed"}
Statuses == {"none", "failed", "canceled"} \cup Open \cup PostSettlement

VARIABLES
    status,     \* billing_purchases.status; "none" without a row
    refunded,   \* refunded_amount_minor
    total,      \* settled_total_minor, 0 before settlement
    applied,    \* entitlement_applied_at is set
    checkout,   \* provider_checkout_id is set
    grants,     \* grants written for the purchase
    plan,       \* tier_rank of the event's active grant
    flag,       \* events.billing_status
    sent,       \* notifications the provider has sent
    record,     \* billing_provider_events.status; "none" without a row
    cpc, ckey,           \* a checkout request: next step, key
    wpc, wnote, wrow,    \* a webhook request: next step, notification, row read
    rpc, rkey, todo,     \* ReconcileUnapplied: next step, purchase, the rest
    failures, stops

rowVars == <<status, refunded, total, applied, checkout>>
eventVars == <<grants, plan, flag>>
providerVars == <<sent, record>>
checkoutVars == <<cpc, ckey>>
webhookVars == <<wpc, wnote, wrow>>
reconcileVars == <<rpc, rkey, todo>>
lossVars == <<failures, stops>>
vars == <<rowVars, eventVars, providerVars, checkoutVars, webhookVars, reconcileVars, lossVars>>

OpenPurchases == {k \in Keys : status[k] \in Open}

-----------------------------------------------------------------------------
(* CreateCheckout *)

CheckoutAt(c, label, k) ==
    /\ cpc' = [cpc EXCEPT ![c] = label]
    /\ ckey' = [ckey EXCEPT ![c] = k]

\* The lookups.  A key that was used, a plan that is no upgrade, and an open
\* purchase end the request without a change.
CreateCheckout(c, k) ==
    /\ cpc[c] = "idle"
    /\ status[k] = "none"
    /\ Rank[k] > plan
    /\ OpenPurchases = {}
    /\ CheckoutAt(c, "create", k)
    /\ UNCHANGED <<rowVars, eventVars, providerVars, webhookVars, reconcileVars, lossVars>>

\* Variant: no unique index on open purchases.
CreatePurchaseUnindexed(c) ==
    /\ cpc[c] = "create"
    /\ status[ckey[c]] = "none"
    /\ status' = [status EXCEPT ![ckey[c]] = "pending"]
    /\ CheckoutAt(c, "provider", ckey[c])
    /\ UNCHANGED <<refunded, total, applied, checkout, eventVars, providerVars,
                   webhookVars, reconcileVars, lossVars>>

\* Unique indexes: one row per key, one open purchase per event.
CreatePurchase(c) ==
    /\ cpc[c] = "create"
    /\ status[ckey[c]] = "none"
    /\ OpenPurchases = {}
    /\ status' = [status EXCEPT ![ckey[c]] = "pending"]
    /\ CheckoutAt(c, "provider", ckey[c])
    /\ UNCHANGED <<refunded, total, applied, checkout, eventVars, providerVars,
                   webhookVars, reconcileVars, lossVars>>

CreatePurchaseRefused(c) ==
    /\ cpc[c] = "create"
    /\ status[ckey[c]] # "none" \/ OpenPurchases # {}
    /\ CheckoutAt(c, "idle", NoKey)
    /\ UNCHANGED <<rowVars, eventVars, providerVars, webhookVars, reconcileVars, lossVars>>

ProviderCheckout(c) ==
    /\ cpc[c] = "provider"
    /\ \E next \in {"persist", "undo"} : CheckoutAt(c, next, ckey[c])
    /\ UNCHANGED <<rowVars, eventVars, providerVars, webhookVars, reconcileVars, lossVars>>

\* Writes the status whatever it is by then.
UpdateCheckout(c) ==
    /\ cpc[c] = "persist"
    /\ status' = [status EXCEPT ![ckey[c]] = "checkout_created"]
    /\ checkout' = [checkout EXCEPT ![ckey[c]] = TRUE]
    /\ CheckoutAt(c, "idle", NoKey)
    /\ UNCHANGED <<refunded, total, applied, eventVars, providerVars,
                   webhookVars, reconcileVars, lossVars>>

\* The provider refused.
UndoPurchase(c) ==
    /\ cpc[c] = "undo"
    /\ status' = [status EXCEPT ![ckey[c]] = "failed"]
    /\ CheckoutAt(c, "idle", NoKey)
    /\ UNCHANGED <<refunded, total, applied, checkout, eventVars, providerVars,
                   webhookVars, reconcileVars, lossVars>>

\* A statement failed or the process stopped.
StopCheckout(c) ==
    /\ cpc[c] # "idle"
    /\ stops < MaxStops
    /\ stops' = stops + 1
    /\ CheckoutAt(c, "idle", NoKey)
    /\ UNCHANGED <<rowVars, eventVars, providerVars, webhookVars, reconcileVars, failures>>

-----------------------------------------------------------------------------
(* The provider (external).  A transaction can be paid once its id is on    *)
(* record, since that is where the browser gets it from.                    *)

Of(k, types) == {n \in Notes : Note[n].key = k /\ Note[n].type \in types}

Send(n) ==
    LET k == Note[n].key
    IN  /\ n \notin sent
        /\ checkout[k]
        /\ Note[n].type = "settled" => Of(k, {"canceled"}) \cap sent = {}
        /\ Note[n].type \in {"failed", "canceled"} => Of(k, {"settled"}) \cap sent = {}
        /\ Note[n].type \in Adjustments => Of(k, {"settled"}) \cap sent # {}
        /\ Note[n].type = "dispute_reversed" => Of(k, {"disputed"}) \cap sent # {}
        /\ sent' = sent \cup {n}
        /\ UNCHANGED <<rowVars, eventVars, record, checkoutVars, webhookVars,
                       reconcileVars, lossVars>>

\* What a notification is about: the payment, or the dispute.
Causes(n) ==
    LET k == Note[n].key
    IN  CASE Note[n].type \in {"refunded", "disputed"} -> Of(k, {"settled"})
          [] Note[n].type = "dispute_reversed" -> Of(k, {"settled", "disputed"})
          [] OTHER -> {}

-----------------------------------------------------------------------------
(* HandleProviderEvent *)

At(d, label) == wpc' = [wpc EXCEPT ![d] = label]
Release(d) ==
    /\ At(d, "idle")
    /\ wnote' = [wnote EXCEPT ![d] = NoNote]
    /\ wrow' = [wrow EXCEPT ![d] = {}]

NoteOf(d) == Note[wnote[d]]
KeyOf(d) == NoteOf(d).key
TypeOf(d) == NoteOf(d).type

\* Variant: what was received before is handled again.
InsertProviderEventAlways(d, n) ==
    /\ wpc[d] = "idle"
    /\ n \in sent
    /\ ~EarlyDelivery => \A m \in Causes(n) \cap sent : record[m] = "processed"
    /\ record' = [record EXCEPT ![n] = "received"]
    /\ wnote' = [wnote EXCEPT ![d] = n]
    /\ At(d, "load")
    /\ UNCHANGED <<rowVars, eventVars, sent, checkoutVars, wrow, reconcileVars, lossVars>>

\* A notification is delivered, perhaps again: only one that is new, or that
\* failed, is taken; for another one the request is a duplicate.
InsertProviderEvent(d, n) ==
    /\ wpc[d] = "idle"
    /\ n \in sent
    /\ ~EarlyDelivery => \A m \in Causes(n) \cap sent : record[m] = "processed"
    /\ record[n] \in {"none", "failed"}
    /\ record' = [record EXCEPT ![n] = "received"]
    /\ wnote' = [wnote EXCEPT ![d] = n]
    /\ At(d, "load")
    /\ UNCHANGED <<rowVars, eventVars, sent, checkoutVars, wrow, reconcileVars, lossVars>>

RowOf(k) == [status |-> status[k], refunded |-> refunded[k],
             total |-> total[k], applied |-> applied[k]]

\* handleSettlement up to its first write, for the row r.
SettlementNext(n, r) ==
    CASE r.status = "settled" -> IF r.applied THEN "ack" ELSE "grant"
      [] r.status \in PostSettlement \ {"settled"} -> "ack"
      [] r.status \notin PostSettlement -> IF n \in Mismatched THEN "nack" ELSE "settle"

\* Variant: a failure is believed although the payment has settled.
FailureNextAlways(n, r) == IF r.status = Note[n].type THEN "ack" ELSE "write"

\* handleFailure
FailureNext(n, r) ==
    IF r.status \in PostSettlement \/ r.status = Note[n].type THEN "ack" ELSE "write"

\* handleReversal: before settlement it closes an open checkout.
ReversalNext(r) ==
    CASE r.status \in PostSettlement -> "reverse"
      [] r.status \in Open -> "write"
      [] OTHER -> "ack"

\* handleDisputeReversed
DisputeReversedNext(r) == IF r.status = "disputed" THEN "restore" ELSE "ack"

\* GetPurchase and the branch of the handler that its row selects.
GetPurchase(d) ==
    /\ wpc[d] = "load"
    /\ LET n == wnote[d]
           r == RowOf(KeyOf(d))
       IN  /\ wrow' = [wrow EXCEPT ![d] = {r}]
           /\ At(d, CASE TypeOf(d) = "settled" -> SettlementNext(n, r)
                      [] TypeOf(d) \in {"failed", "canceled"} -> FailureNext(n, r)
                      [] TypeOf(d) \in {"refunded", "disputed"} -> ReversalNext(r)
                      [] TypeOf(d) = "dispute_reversed" -> DisputeReversedNext(r))
    /\ UNCHANGED <<rowVars, eventVars, providerVars, checkoutVars, wnote, reconcileVars, lossVars>>

ReadRow(d) == CHOOSE r \in wrow[d] : TRUE

\* UpdateStatus: written whatever the status is by then.
UpdateStatus(d) ==
    /\ wpc[d] = "write"
    /\ status' = [status EXCEPT ![KeyOf(d)] =
                     IF TypeOf(d) = "failed" THEN "failed" ELSE "canceled"]
    /\ At(d, "ack")
    /\ UNCHANGED <<refunded, total, applied, checkout, eventVars, providerVars,
                   checkoutVars, wnote, wrow, reconcileVars, lossVars>>

\* Only a settled row is left alone.
SettlePurchase(d) ==
    LET k == KeyOf(d)
    IN  /\ wpc[d] = "settle"
        /\ \/ /\ status[k] # "settled"
              /\ status' = [status EXCEPT ![k] = "settled"]
              /\ total' = [total EXCEPT ![k] = Total[k]]
           \/ /\ status[k] = "settled"
              /\ UNCHANGED <<status, total>>
        /\ At(d, IF ReadRow(d).applied THEN "ack" ELSE "grant")
        /\ UNCHANGED <<refunded, applied, checkout, eventVars, providerVars,
                       checkoutVars, wnote, wrow, reconcileVars, lossVars>>

\* Variant: the license of an earlier attempt is not looked for.
ActivatePurchaseAgain(k) ==
    /\ Rank[k] >= plan
    /\ grants' = [grants EXCEPT ![k] = @ + 1]
    /\ plan' = Rank[k]
    /\ UNCHANGED flag

\* Variant: neither the plan the event has nor its license is looked at.
ActivatePurchaseUnchecked(k) ==
    /\ grants[k] = 0
    /\ grants' = [grants EXCEPT ![k] = @ + 1]
    /\ plan' = Rank[k]
    /\ UNCHANGED flag

\* event_licenses_consumed_event_idx: an event consumes one license for ever.
EventConsumed(k) == \E j \in Keys \ {k} : grants[j] > 0

\* One transaction: license, grant and limits.  A consumed license is enough;
\* a plan that is no upgrade any more is refused (CheckTransition), and so is
\* a second license for the event, by the unique index.
ActivatePurchase(k) ==
    /\ \/ /\ grants[k] = 0
          /\ Rank[k] > plan
          /\ ~EventConsumed(k)
          /\ grants' = [grants EXCEPT ![k] = @ + 1]
          /\ plan' = Rank[k]
       \/ /\ grants[k] > 0
          /\ UNCHANGED <<grants, plan>>
    /\ UNCHANGED flag

\* Is the transaction refused?
ActivationRefused(k) == grants[k] = 0 /\ (Rank[k] <= plan \/ EventConsumed(k))

ApplyEntitlement(d) ==
    /\ wpc[d] = "grant"
    /\ ActivatePurchase(KeyOf(d))
    /\ At(d, "mark")
    /\ UNCHANGED <<rowVars, providerVars, checkoutVars, wnote, wrow, reconcileVars, lossVars>>

ApplyRefused(d) ==
    /\ wpc[d] = "grant"
    /\ ActivationRefused(KeyOf(d))
    /\ At(d, "nack")
    /\ UNCHANGED <<rowVars, eventVars, providerVars, checkoutVars, wnote, wrow,
                   reconcileVars, lossVars>>

\* A failure to mark is not fatal.
MarkEntitlementApplied(d) ==
    /\ wpc[d] = "mark"
    /\ \/ /\ applied' = [applied EXCEPT ![KeyOf(d)] = TRUE]
          /\ UNCHANGED failures
       \/ /\ failures < MaxFailures
          /\ failures' = failures + 1
          /\ UNCHANGED applied
    /\ At(d, "ack")
    /\ UNCHANGED <<status, refunded, total, checkout, eventVars, providerVars,
                   checkoutVars, wnote, wrow, reconcileVars, stops>>

\* An amount that is not given is all of it.
Returned(n, r) == IF Note[n].amount = 0 THEN r.total ELSE Note[n].amount

\* Variant: the total is no ceiling.
CumulativeUncapped(n, r) == r.refunded + Returned(n, r)

Cumulative(n, r) ==
    IF r.total > 0 /\ r.refunded + Returned(n, r) > r.total
    THEN r.total ELSE r.refunded + Returned(n, r)

ReversalStatus(n, r) ==
    IF Note[n].type = "disputed" THEN "disputed"
    ELSE IF r.total = 0 \/ Cumulative(n, r) >= r.total THEN "refunded"
    ELSE "partially_refunded"

\* RecordReversal writes what was computed from the row read earlier.
RecordReversal(d) ==
    LET n == wnote[d]
        r == ReadRow(d)
    IN  /\ wpc[d] = "reverse"
        /\ status' = [status EXCEPT ![KeyOf(d)] = ReversalStatus(n, r)]
        /\ refunded' = [refunded EXCEPT ![KeyOf(d)] = Cumulative(n, r)]
        /\ At(d, "flag")
        /\ UNCHANGED <<total, applied, checkout, eventVars, providerVars, checkoutVars,
                       wnote, wrow, reconcileVars, lossVars>>

\* RevokeUnconsumed finds nothing; the event is flagged, except for a partial
\* refund.
FlagEvent(d) ==
    /\ wpc[d] = "flag"
    /\ flag' = CASE ReversalStatus(wnote[d], ReadRow(d)) = "disputed" -> "payment_review"
                 [] ReversalStatus(wnote[d], ReadRow(d)) = "refunded" -> "refunded"
                 [] OTHER -> flag
    /\ At(d, "ack")
    /\ UNCHANGED <<rowVars, grants, plan, providerVars, checkoutVars, wnote, wrow,
                   reconcileVars, lossVars>>

Remaining(n, r) ==
    IF Note[n].amount = 0 \/ r.refunded < Note[n].amount THEN 0
                                                        ELSE r.refunded - Note[n].amount

\* A dispute that was won: RecordReversal back to settled.
RecordDisputeReversed(d) ==
    /\ wpc[d] = "restore"
    /\ status' = [status EXCEPT ![KeyOf(d)] = "settled"]
    /\ refunded' = [refunded EXCEPT ![KeyOf(d)] = Remaining(wnote[d], ReadRow(d))]
    /\ At(d, "unflag")
    /\ UNCHANGED <<total, applied, checkout, eventVars, providerVars, checkoutVars,
                   wnote, wrow, reconcileVars, lossVars>>

UnflagEvent(d) ==
    /\ wpc[d] = "unflag"
    /\ flag' = "ok"
    /\ At(d, "ack")
    /\ UNCHANGED <<rowVars, grants, plan, providerVars, checkoutVars, wnote, wrow,
                   reconcileVars, lossVars>>

MarkProviderEventProcessed(d) ==
    /\ wpc[d] = "ack"
    /\ record' = [record EXCEPT ![wnote[d]] = "processed"]
    /\ Release(d)
    /\ UNCHANGED <<rowVars, eventVars, sent, checkoutVars, reconcileVars, lossVars>>

\* Variant: an error is recorded as processed.
MarkProviderEventFailedSilent(d) ==
    /\ wpc[d] = "nack"
    /\ record' = [record EXCEPT ![wnote[d]] = "processed"]
    /\ Release(d)
    /\ UNCHANGED <<rowVars, eventVars, sent, checkoutVars, reconcileVars, lossVars>>

MarkProviderEventFailed(d) ==
    /\ wpc[d] = "nack"
    /\ record' = [record EXCEPT ![wnote[d]] = "failed"]
    /\ Release(d)
    /\ UNCHANGED <<rowVars, eventVars, sent, checkoutVars, reconcileVars, lossVars>>

\* A statement of a handler fails, and the handler with it.
FailDelivery(d) ==
    /\ wpc[d] \notin {"idle", "mark", "ack", "nack"}
    /\ failures < MaxFailures
    /\ failures' = failures + 1
    /\ At(d, "nack")
    /\ UNCHANGED <<rowVars, eventVars, providerVars, checkoutVars, wnote, wrow,
                   reconcileVars, stops>>

\* The process stops, or the outcome cannot be recorded (its error is ignored).
StopDelivery(d) ==
    /\ wpc[d] # "idle"
    /\ stops < MaxStops
    /\ stops' = stops + 1
    /\ Release(d)
    /\ UNCHANGED <<rowVars, eventVars, providerVars, checkoutVars, reconcileVars, failures>>

-----------------------------------------------------------------------------
(* ReconcileUnapplied, run by cron *)

Unapplied == {k \in Keys : status[k] = "settled" /\ ~applied[k]}

\* All of them.  The query takes a batch, the oldest by settled_at of every event
\* (gorm_repository.go:205-216), so purchases that are refused for ever can fill
\* the batch and keep the others out; the keys of one event are too few for that.
UnappliedSettled ==
    /\ rpc = "idle"
    /\ Unapplied # {}
    /\ todo' = Unapplied
    /\ rpc' = "next"
    /\ UNCHANGED <<rowVars, eventVars, providerVars, checkoutVars, webhookVars, rkey, lossVars>>

\* applyEntitlement for the rows as they were listed; an error goes to the next.
ReconcileGrant(k) ==
    /\ rpc = "next"
    /\ k \in todo
    /\ todo' = todo \ {k}
    /\ \/ /\ ActivatePurchase(k)
          /\ rpc' = "mark"
          /\ rkey' = k
          /\ UNCHANGED failures
       \/ /\ \/ ActivationRefused(k) /\ UNCHANGED failures
             \/ failures < MaxFailures /\ failures' = failures + 1
          /\ UNCHANGED <<eventVars, rpc, rkey>>
    /\ UNCHANGED <<rowVars, providerVars, checkoutVars, webhookVars, stops>>

ReconcileMark ==
    /\ rpc = "mark"
    /\ \/ /\ applied' = [applied EXCEPT ![rkey] = TRUE]
          /\ UNCHANGED failures
       \/ /\ failures < MaxFailures
          /\ failures' = failures + 1
          /\ UNCHANGED applied
    /\ rpc' = "next"
    /\ rkey' = NoKey
    /\ UNCHANGED <<status, refunded, total, checkout, eventVars, providerVars,
                   checkoutVars, webhookVars, todo, stops>>

ReconcileDone ==
    /\ rpc = "next" /\ todo = {}
    /\ rpc' = "idle"
    /\ UNCHANGED <<rowVars, eventVars, providerVars, checkoutVars, webhookVars, rkey,
                   todo, lossVars>>

StopReconcile ==
    /\ rpc # "idle"
    /\ stops < MaxStops
    /\ stops' = stops + 1
    /\ rpc' = "idle" /\ rkey' = NoKey /\ todo' = {}
    /\ UNCHANGED <<rowVars, eventVars, providerVars, checkoutVars, webhookVars, failures>>

-----------------------------------------------------------------------------
Init ==
    /\ status = [k \in Keys |-> "none"]
    /\ refunded = [k \in Keys |-> 0]
    /\ total = [k \in Keys |-> 0]
    /\ applied = [k \in Keys |-> FALSE]
    /\ checkout = [k \in Keys |-> FALSE]
    /\ grants = [k \in Keys |-> 0]
    /\ plan = 0
    /\ flag = "ok"
    /\ sent = {}
    /\ record = [n \in Notes |-> "none"]
    /\ cpc = [c \in Checkouts |-> "idle"]
    /\ ckey = [c \in Checkouts |-> NoKey]
    /\ wpc = [d \in Deliveries |-> "idle"]
    /\ wnote = [d \in Deliveries |-> NoNote]
    /\ wrow = [d \in Deliveries |-> {}]
    /\ rpc = "idle" /\ rkey = NoKey /\ todo = {}
    /\ failures = 0 /\ stops = 0

CheckoutStep(c) ==
    \/ CreatePurchase(c) \/ CreatePurchaseRefused(c) \/ ProviderCheckout(c)
    \/ UpdateCheckout(c) \/ UndoPurchase(c)

WebhookStep(d) ==
    \/ GetPurchase(d) \/ UpdateStatus(d) \/ SettlePurchase(d)
    \/ ApplyEntitlement(d) \/ ApplyRefused(d) \/ MarkEntitlementApplied(d)
    \/ RecordReversal(d) \/ FlagEvent(d) \/ RecordDisputeReversed(d) \/ UnflagEvent(d)
    \/ MarkProviderEventProcessed(d) \/ MarkProviderEventFailed(d)

ReconcileStep ==
    \/ UnappliedSettled
    \/ \E k \in Keys : ReconcileGrant(k)
    \/ ReconcileMark
    \/ ReconcileDone

Next ==
    \/ \E c \in Checkouts, k \in Keys : CreateCheckout(c, k)
    \/ \E c \in Checkouts : CheckoutStep(c) \/ StopCheckout(c)
    \/ \E n \in Notes : Send(n)
    \/ \E d \in Deliveries, n \in Notes : InsertProviderEvent(d, n)
    \/ \E d \in Deliveries : WebhookStep(d) \/ FailDelivery(d) \/ StopDelivery(d)
    \/ ReconcileStep
    \/ StopReconcile

Spec == Init /\ [][Next]_vars

(***************************************************************************)
(* Fairness: handlers that run take their steps, cron starts               *)
(* reconciliation again and again, and the provider repeats a notification *)
(* until it is acknowledged, which a mismatch is at once (handler.go:192). *)
(***************************************************************************)
Fairness ==
    /\ \A c \in Checkouts : WF_vars(CheckoutStep(c))
    /\ \A d \in Deliveries : WF_vars(WebhookStep(d))
    /\ \A n \in Notes \ Mismatched :
         SF_vars(\E d \in Deliveries : InsertProviderEvent(d, n))
    /\ WF_vars(ReconcileStep)

FairSpec == Spec /\ Fairness

-----------------------------------------------------------------------------
(* Properties *)

Rows == [status : Statuses, refunded : Nat, total : Nat, applied : BOOLEAN]
WebhookLabels == {"load", "write", "settle", "grant", "mark", "reverse", "flag",
                  "restore", "unflag", "ack", "nack"}

\* Columns and handlers' locals keep their types: a handler knows its
\* notification, and past its lookup the row it read.
TypeOK ==
    /\ status \in [Keys -> Statuses]
    /\ refunded \in [Keys -> Nat] /\ total \in [Keys -> Nat]
    /\ applied \in [Keys -> BOOLEAN] /\ checkout \in [Keys -> BOOLEAN]
    /\ grants \in [Keys -> Nat] /\ plan \in Nat
    /\ flag \in {"ok", "payment_review", "refunded"}
    /\ sent \subseteq Notes
    /\ record \in [Notes -> {"none", "received", "failed", "processed"}]
    /\ cpc \in [Checkouts -> {"idle", "create", "provider", "persist", "undo"}]
    /\ ckey \in [Checkouts -> Keys \cup {NoKey}]
    /\ \A c \in Checkouts : cpc[c] # "idle" => ckey[c] \in Keys
    /\ wpc \in [Deliveries -> {"idle"} \cup WebhookLabels]
    /\ wnote \in [Deliveries -> Notes \cup {NoNote}]
    /\ wrow \in [Deliveries -> SUBSET Rows]
    /\ \A d \in Deliveries :
         /\ wpc[d] # "idle" => wnote[d] \in sent
         /\ wpc[d] \notin {"idle", "load", "nack"} => wrow[d] # {}
    /\ rpc \in {"idle", "next", "mark"} /\ todo \subseteq Keys
    /\ rkey \in Keys \cup {NoKey} /\ (rpc = "mark" => rkey \in Keys)
    /\ failures \in 0..MaxFailures /\ stops \in 0..MaxStops

\* "converges on exactly one license and one grant per purchase"
\* (service.go:690-693): webhooks, their repetitions and reconciliation
\* racing each other never grant a purchase twice.
GrantsOnce == \A k \in Keys : grants[k] <= 1

\* What is granted was paid for, at the price that was quoted, whatever order
\* notifications take (service.go:459-479).
GrantedWasPaid ==
    \A k \in Keys : grants[k] > 0 => (Of(k, {"settled"}) \cap sent) \ Mismatched # {}

\* entitlement_applied_at is set only when the grant exists, so that
\* reconciliation never skips a purchase that is still owed.
AppliedMeansGranted == \A k \in Keys : applied[k] => grants[k] > 0

\* However webhooks, their repetitions and reconciliation meet: a purchase is
\* granted once, only when it was paid, and counts as applied only then.
GrantsSound == GrantsOnce /\ GrantedWasPaid /\ AppliedMeansGranted

\* One checkout is open for an event at a time, although several statements
\* write the status without looking at it (gorm_repository.go:62, 116).
OneOpenPurchase == \A j, k \in OpenPurchases : j = k

\* No more is booked as returned than was paid, however adjustments race.
RefundedWithinTotal == \A k \in Keys : refunded[k] <= total[k]

\* A handler writes a status for k that it decided on before the payment settled.
Overtaken(k) ==
    \E d \in Deliveries : /\ wpc[d] = "write" /\ wpc'[d] = "ack" /\ KeyOf(d) = k
                          /\ ReadRow(d).status \notin PostSettlement

\* A failure, a cancellation or an early reversal that is looked at once the
\* payment has settled does not undo it, and no checkout does.  The write of a
\* handler that was overtaken does, and nothing else: it tests no status, though
\* "a failure notification that overtakes the completion must not undo it"
\* (hardening_test.go:169).
SettledStays ==
    [][\A k \in Keys : status[k] \in PostSettlement /\ status'[k] \notin PostSettlement
                           => Overtaken(k)]_vars

AmountOf(ns) == Cardinality(UNION {{n} \X (1..Note[n].amount) : n \in ns})
Processed(k, types) == {n \in Of(k, types) : record[n] = "processed"}

\* "Two genuinely different partial refunds must still accumulate"
\* (hardening_test.go:425): while no handler runs, every refund that was
\* processed is in the books.  Two handlers that read the same amount keep only
\* the later one's (service.go:592, 605), so the code does not have it.
RefundsCounted ==
    \A k \in Keys :
        (\A d \in Deliveries : wpc[d] = "idle") =>
            refunded[k] >= AmountOf(Processed(k, {"refunded"}))

\* "A refund announced as both created and updated is applied once"
\* (service.go:354-355): no more is booked as returned than the provider
\* returned, however many handlers race, whichever stop and however often it says
\* so.  Only until a statement fails: a handler that fails after RecordReversal is
\* run again on the same notification and adds it again (service.go:625).
RefundsOnce ==
    failures = 0 =>
        \A k \in Keys : refunded[k] <= AmountOf(Of(k, {"refunded", "disputed"}) \cap sent)

\* The purchases as they are promised: a completion at the quoted price pays,
\* and a grant is what the event gets for it.
Promise == INSTANCE PurchasePromise WITH
    Purchases <- Keys,
    Tier <- Rank,
    paid <- {k \in Keys : (Of(k, {"settled"}) \cap sent) \ Mismatched # {}},
    granted <- {k \in Keys : grants[k] > 0},
    level <- plan

\* Every step of checkouts, webhooks, their repetitions and reconciliation is
\* a payment, one grant of what was paid and is an upgrade, or nothing.
KeepsPromise == Promise!Spec

\* "Re-running the grant is how a delivery that settled but failed to apply
\* repairs itself" (service.go:443-445), and reconciliation the rest: an event
\* whose purchase was paid gets its plan in the end.
PaidIsGranted == Promise!FirstGranted

\* "However many times it runs, it creates exactly one license and one grant
\* for each purchase" (docs/operations/event-plans-runbook.md:168), and so for
\* the purchase that upgrades an event.
UpgradeIsGranted == Promise!AllGranted
=============================================================================
