--------------------------- MODULE BillingProofs ---------------------------
(***************************************************************************)
(* Purchases, proved for any number of purchases, notifications, webhook   *)
(* requests, failures and stops.                                           *)
(***************************************************************************)
EXTENDS Billing, FiniteSetTheorems, TLAPS

-----------------------------------------------------------------------------
(* Types, one part for the rows and one for each kind of actor *)

RowType ==
    /\ status \in [Keys -> Statuses]
    /\ refunded \in [Keys -> Nat] /\ total \in [Keys -> Nat]
    /\ applied \in [Keys -> BOOLEAN] /\ checkout \in [Keys -> BOOLEAN]
EventType ==
    /\ grants \in [Keys -> Nat] /\ plan \in Nat
    /\ flag \in {"ok", "payment_review", "refunded"}
ProviderType ==
    /\ sent \subseteq Notes
    /\ record \in [Notes -> {"none", "received", "failed", "processed"}]
CheckoutType ==
    /\ cpc \in [Checkouts -> {"idle", "create", "provider", "persist", "undo"}]
    /\ ckey \in [Checkouts -> Keys \cup {NoKey}]
    /\ \A c \in Checkouts : cpc[c] # "idle" => ckey[c] \in Keys
WebhookType ==
    /\ wpc \in [Deliveries -> {"idle"} \cup WebhookLabels]
    /\ wnote \in [Deliveries -> Notes \cup {NoNote}]
    /\ wrow \in [Deliveries -> SUBSET Rows]
    /\ \A d \in Deliveries :
         /\ wpc[d] # "idle" => wnote[d] \in sent
         /\ wpc[d] \notin {"idle", "load", "nack"} => wrow[d] # {}
ReconcileType ==
    /\ rpc \in {"idle", "next", "mark"} /\ todo \subseteq Keys
    /\ rkey \in Keys \cup {NoKey} /\ (rpc = "mark" => rkey \in Keys)
LossType == failures \in 0..MaxFailures /\ stops \in 0..MaxStops

LEMMA TypeParts ==
    TypeOK <=> /\ RowType /\ EventType /\ ProviderType /\ CheckoutType
               /\ WebhookType /\ ReconcileType /\ LossType
BY DEF TypeOK, RowType, EventType, ProviderType, CheckoutType, WebhookType,
       ReconcileType, LossType

LEMMA TypePartsNext ==
    /\ RowType' /\ EventType' /\ ProviderType' /\ CheckoutType'
    /\ WebhookType' /\ ReconcileType' /\ LossType'
    => TypeOK'
BY DEF TypeOK, RowType, EventType, ProviderType, CheckoutType, WebhookType,
       ReconcileType, LossType

\* A request at work has a notification about one of the purchases, and past
\* its lookup a row.
LEMMA RequestFacts ==
    ASSUME TypeOK, NEW d \in Deliveries, wpc[d] # "idle"
    PROVE  /\ wnote[d] \in Notes /\ wnote[d] \in sent
           /\ KeyOf(d) \in Keys /\ TypeOf(d) \in NoteTypes /\ NoteOf(d).amount \in Nat
           /\ wpc[d] \notin {"idle", "load", "nack"} =>
                 ReadRow(d) \in wrow[d] /\ ReadRow(d) \in Rows
<1>1. wnote[d] \in Notes /\ wnote[d] \in sent
  BY DEF TypeOK
<1>2. KeyOf(d) \in Keys /\ TypeOf(d) \in NoteTypes /\ NoteOf(d).amount \in Nat
  BY <1>1, BillingAssumption DEF KeyOf, TypeOf, NoteOf
<1>3. ASSUME wpc[d] \notin {"idle", "load", "nack"}
      PROVE  ReadRow(d) \in wrow[d] /\ ReadRow(d) \in Rows
  <2>1. wrow[d] # {} /\ wrow[d] \subseteq Rows
    BY <1>3 DEF TypeOK
  <2>2. ReadRow(d) \in wrow[d]
    BY <2>1 DEF ReadRow
  <2>. QED  BY <2>1, <2>2
<1>. QED  BY <1>1, <1>2, <1>3

\* A webhook request moves to another step with the notification and the row
\* it has, or is released.
LEMMA MoveType ==
    ASSUME WebhookType, UNCHANGED sent, NEW d \in Deliveries, NEW label \in WebhookLabels,
           wpc[d] # "idle", label \in {"load", "nack"} \/ wrow[d] # {},
           At(d, label), UNCHANGED <<wnote, wrow>>
    PROVE  WebhookType'
BY DEF WebhookType, At, WebhookLabels

LEMMA ReleaseType ==
    ASSUME WebhookType, UNCHANGED sent, NEW d \in Deliveries, Release(d)
    PROVE  WebhookType'
BY DEF WebhookType, Release, At, WebhookLabels

LEMMA CheckoutMoveType ==
    ASSUME CheckoutType, NEW c \in Checkouts,
           NEW label \in {"idle", "create", "provider", "persist", "undo"},
           NEW k \in Keys \cup {NoKey}, label # "idle" => k \in Keys,
           CheckoutAt(c, label, k)
    PROVE  CheckoutType'
BY DEF CheckoutType, CheckoutAt

-----------------------------------------------------------------------------
(* Types are kept *)

LEMMA TypeCheckout ==
    ASSUME TypeOK, NEW c \in Checkouts, CheckoutStep(c) \/ StopCheckout(c)
    PROVE  TypeOK'
<1>. USE DEF rowVars, eventVars, providerVars, checkoutVars, webhookVars,
             reconcileVars, lossVars
<1>1. /\ RowType /\ EventType /\ ProviderType /\ CheckoutType
      /\ WebhookType /\ ReconcileType /\ LossType
  BY TypeParts
<1>2. EventType' /\ ProviderType' /\ WebhookType' /\ ReconcileType'
  BY <1>1 DEF CheckoutStep, CreatePurchase, CreatePurchaseRefused, ProviderCheckout,
              UpdateCheckout, UndoPurchase, StopCheckout, EventType, ProviderType,
              WebhookType, ReconcileType
<1>3. cpc[c] # "idle" /\ ckey[c] \in Keys
  BY <1>1 DEF CheckoutStep, CreatePurchase, CreatePurchaseRefused, ProviderCheckout,
              UpdateCheckout, UndoPurchase, StopCheckout, CheckoutType
<1>4. CheckoutType'
  <2>1. \E label \in {"idle", "create", "provider", "persist", "undo"}, k \in Keys \cup {NoKey} :
           (label # "idle" => k \in Keys) /\ CheckoutAt(c, label, k)
    BY <1>3 DEF CheckoutStep, CreatePurchase, CreatePurchaseRefused, ProviderCheckout,
              UpdateCheckout, UndoPurchase, StopCheckout
  <2>. QED  BY <1>1, <2>1, CheckoutMoveType
<1>5. RowType'
  BY <1>1, <1>3 DEF CheckoutStep, CreatePurchase, CreatePurchaseRefused, ProviderCheckout,
              UpdateCheckout, UndoPurchase, StopCheckout, RowType, Statuses, Open
<1>6. LossType'
  BY <1>1, BillingAssumption DEF CheckoutStep, CreatePurchase, CreatePurchaseRefused,
              ProviderCheckout, UpdateCheckout, UndoPurchase, StopCheckout, LossType
<1>. QED  BY <1>2, <1>4, <1>5, <1>6, TypePartsNext

\* The row as it is read is a row, and it selects a step of the handler.
LEMMA ReadType ==
    ASSUME TypeOK, NEW d \in Deliveries, GetPurchase(d)
    PROVE  TypeOK'
<1>. USE DEF rowVars, eventVars, providerVars, checkoutVars, webhookVars,
             reconcileVars, lossVars
<1>. DEFINE n == wnote[d]
            r == RowOf(KeyOf(d))
            label == CASE TypeOf(d) = "settled" -> SettlementNext(n, r)
                       [] TypeOf(d) \in {"failed", "canceled"} -> FailureNext(n, r)
                       [] TypeOf(d) \in {"refunded", "disputed"} -> ReversalNext(r)
                       [] TypeOf(d) = "dispute_reversed" -> DisputeReversedNext(r)
<1>1. /\ RowType /\ EventType /\ ProviderType /\ CheckoutType
      /\ WebhookType /\ ReconcileType /\ LossType
  BY TypeParts
<1>2. /\ wpc[d] = "load" /\ KeyOf(d) \in Keys /\ TypeOf(d) \in NoteTypes
  BY RequestFacts DEF GetPurchase
<1>3. r \in Rows
  BY <1>1, <1>2 DEF RowType, RowOf, Rows
<1>4. label \in WebhookLabels
  <2>1. SettlementNext(n, r) \in WebhookLabels /\ FailureNext(n, r) \in WebhookLabels
    BY <1>3 DEF SettlementNext, FailureNext, WebhookLabels, Rows, PostSettlement
  <2>2. ReversalNext(r) \in WebhookLabels /\ DisputeReversedNext(r) \in WebhookLabels
    BY <1>3 DEF ReversalNext, DisputeReversedNext, WebhookLabels, Rows, PostSettlement, Open
  <2>. HIDE DEF n, r
  <2>. QED  BY <2>1, <2>2, <1>2 DEF NoteTypes, Adjustments
<1>5. At(d, label) /\ wrow' = [wrow EXCEPT ![d] = {r}] /\ UNCHANGED <<wnote, sent>>
  BY DEF GetPurchase
<1>6. WebhookType'
  <2>. HIDE DEF n, r, label
  <2>. QED  BY <1>1, <1>2, <1>3, <1>4, <1>5 DEF WebhookType, At, WebhookLabels
<1>7. /\ RowType' /\ EventType' /\ ProviderType' /\ CheckoutType' /\ ReconcileType' /\ LossType'
  BY <1>1 DEF GetPurchase, RowType, EventType, ProviderType, CheckoutType, ReconcileType, LossType
<1>. QED  BY <1>6, <1>7, TypePartsNext

\* What a reversal books is a natural number and a status.
LEMMA ReversalFacts ==
    ASSUME NEW n \in Notes, NEW r \in Rows
    PROVE  /\ Cumulative(n, r) \in Nat
           /\ Remaining(n, r) \in Nat /\ Remaining(n, r) <= r.refunded
           /\ ReversalStatus(n, r) \in {"disputed", "refunded", "partially_refunded"}
           /\ r.total > 0 => Cumulative(n, r) <= r.total
<1>1. Note[n].amount \in Nat /\ r.total \in Nat /\ r.refunded \in Nat
  BY BillingAssumption DEF Rows
<1>2. Cumulative(n, r) \in Nat /\ (r.total > 0 => Cumulative(n, r) <= r.total)
  BY <1>1 DEF Cumulative, Returned
<1>3. Remaining(n, r) \in Nat /\ Remaining(n, r) <= r.refunded
  BY <1>1 DEF Remaining
<1>. QED  BY <1>2, <1>3 DEF ReversalStatus

LEMMA TypeWebhook ==
    ASSUME TypeOK, NEW d \in Deliveries, WebhookStep(d) \/ FailDelivery(d) \/ StopDelivery(d)
    PROVE  TypeOK'
<1>. USE DEF rowVars, eventVars, providerVars, checkoutVars, webhookVars,
             reconcileVars, lossVars
<1>1. /\ RowType /\ EventType /\ ProviderType /\ CheckoutType
      /\ WebhookType /\ ReconcileType /\ LossType
  BY TypeParts
<1>2. CASE GetPurchase(d)
  BY <1>2, ReadType
<1>3. CASE UpdateStatus(d)
  <2>1. wpc[d] = "write" /\ KeyOf(d) \in Keys /\ wrow[d] # {}
    BY <1>3, RequestFacts DEF UpdateStatus
  <2>2. WebhookType'
    BY <1>1, <1>3, <2>1, MoveType DEF UpdateStatus, WebhookLabels
  <2>3. RowType'
    BY <1>1, <1>3, <2>1 DEF UpdateStatus, RowType, Statuses
  <2>4. EventType' /\ ProviderType' /\ CheckoutType' /\ ReconcileType' /\ LossType'
    BY <1>1, <1>3 DEF UpdateStatus, EventType, ProviderType, CheckoutType, ReconcileType, LossType
  <2>. QED  BY <2>2, <2>3, <2>4, TypePartsNext
<1>4. CASE SettlePurchase(d)
  <2>1. wpc[d] = "settle" /\ KeyOf(d) \in Keys /\ wrow[d] # {}
    BY <1>4, RequestFacts DEF SettlePurchase
  <2>2. WebhookType'
    BY <1>1, <1>4, <2>1, MoveType DEF SettlePurchase, WebhookLabels
  <2>3. RowType'
    BY <1>1, <1>4, <2>1, BillingAssumption DEF SettlePurchase, RowType, Statuses, PostSettlement
  <2>4. EventType' /\ ProviderType' /\ CheckoutType' /\ ReconcileType' /\ LossType'
    BY <1>1, <1>4 DEF SettlePurchase, EventType, ProviderType, CheckoutType, ReconcileType, LossType
  <2>. QED  BY <2>2, <2>3, <2>4, TypePartsNext
<1>5. CASE ApplyEntitlement(d)
  <2>1. wpc[d] = "grant" /\ KeyOf(d) \in Keys /\ wrow[d] # {}
    BY <1>5, RequestFacts DEF ApplyEntitlement
  <2>2. WebhookType'
    BY <1>1, <1>5, <2>1, MoveType DEF ApplyEntitlement, WebhookLabels
  <2>3. EventType'
    BY <1>1, <1>5, <2>1, BillingAssumption DEF ApplyEntitlement, ActivatePurchase, EventType
  <2>4. RowType' /\ ProviderType' /\ CheckoutType' /\ ReconcileType' /\ LossType'
    BY <1>1, <1>5 DEF ApplyEntitlement, RowType, ProviderType, CheckoutType, ReconcileType, LossType
  <2>. QED  BY <2>2, <2>3, <2>4, TypePartsNext
<1>6. CASE ApplyRefused(d)
  <2>2. WebhookType'
    BY <1>1, <1>6, MoveType DEF ApplyRefused, WebhookLabels
  <2>4. RowType' /\ EventType' /\ ProviderType' /\ CheckoutType' /\ ReconcileType' /\ LossType'
    BY <1>1, <1>6 DEF ApplyRefused, RowType, EventType, ProviderType, CheckoutType,
                      ReconcileType, LossType
  <2>. QED  BY <2>2, <2>4, TypePartsNext
<1>7. CASE MarkEntitlementApplied(d)
  <2>1. wpc[d] = "mark" /\ KeyOf(d) \in Keys /\ wrow[d] # {}
    BY <1>7, RequestFacts DEF MarkEntitlementApplied
  <2>2. WebhookType'
    BY <1>1, <1>7, <2>1, MoveType DEF MarkEntitlementApplied, WebhookLabels
  <2>3. RowType'
    BY <1>1, <1>7, <2>1 DEF MarkEntitlementApplied, RowType
  <2>5. LossType'
    BY <1>1, <1>7, BillingAssumption DEF MarkEntitlementApplied, LossType
  <2>4. EventType' /\ ProviderType' /\ CheckoutType' /\ ReconcileType'
    BY <1>1, <1>7 DEF MarkEntitlementApplied, EventType, ProviderType, CheckoutType, ReconcileType
  <2>. QED  BY <2>2, <2>3, <2>4, <2>5, TypePartsNext
<1>8. CASE RecordReversal(d)
  <2>1. /\ wpc[d] = "reverse" /\ KeyOf(d) \in Keys /\ wrow[d] # {}
        /\ wnote[d] \in Notes /\ ReadRow(d) \in Rows
    BY <1>8, RequestFacts DEF RecordReversal
  <2>2. WebhookType'
    BY <1>1, <1>8, <2>1, MoveType DEF RecordReversal, WebhookLabels
  <2>3. RowType'
    <3>1. /\ Cumulative(wnote[d], ReadRow(d)) \in Nat
          /\ ReversalStatus(wnote[d], ReadRow(d)) \in Statuses
      BY <2>1, ReversalFacts DEF Statuses, PostSettlement
    <3>. QED  BY <1>1, <1>8, <2>1, <3>1 DEF RecordReversal, RowType
  <2>4. EventType' /\ ProviderType' /\ CheckoutType' /\ ReconcileType' /\ LossType'
    BY <1>1, <1>8 DEF RecordReversal, EventType, ProviderType, CheckoutType, ReconcileType, LossType
  <2>. QED  BY <2>2, <2>3, <2>4, TypePartsNext
<1>9. CASE FlagEvent(d)
  <2>1. wpc[d] = "flag" /\ wrow[d] # {}
    BY <1>9, RequestFacts DEF FlagEvent
  <2>2. WebhookType'
    BY <1>1, <1>9, <2>1, MoveType DEF FlagEvent, WebhookLabels
  <2>3. EventType'
    BY <1>1, <1>9 DEF FlagEvent, EventType
  <2>4. RowType' /\ ProviderType' /\ CheckoutType' /\ ReconcileType' /\ LossType'
    BY <1>1, <1>9 DEF FlagEvent, RowType, ProviderType, CheckoutType, ReconcileType, LossType
  <2>. QED  BY <2>2, <2>3, <2>4, TypePartsNext
<1>10. CASE RecordDisputeReversed(d)
  <2>1. /\ wpc[d] = "restore" /\ KeyOf(d) \in Keys /\ wrow[d] # {}
        /\ wnote[d] \in Notes /\ ReadRow(d) \in Rows
    BY <1>10, RequestFacts DEF RecordDisputeReversed
  <2>2. WebhookType'
    BY <1>1, <1>10, <2>1, MoveType DEF RecordDisputeReversed, WebhookLabels
  <2>3. RowType'
    <3>1. Remaining(wnote[d], ReadRow(d)) \in Nat /\ "settled" \in Statuses
      BY <2>1, ReversalFacts DEF Statuses, PostSettlement
    <3>. QED  BY <1>1, <1>10, <2>1, <3>1 DEF RecordDisputeReversed, RowType
  <2>4. EventType' /\ ProviderType' /\ CheckoutType' /\ ReconcileType' /\ LossType'
    BY <1>1, <1>10 DEF RecordDisputeReversed, EventType, ProviderType, CheckoutType,
                       ReconcileType, LossType
  <2>. QED  BY <2>2, <2>3, <2>4, TypePartsNext
<1>11. CASE UnflagEvent(d)
  <2>1. wpc[d] = "unflag" /\ wrow[d] # {}
    BY <1>11, RequestFacts DEF UnflagEvent
  <2>2. WebhookType'
    BY <1>1, <1>11, <2>1, MoveType DEF UnflagEvent, WebhookLabels
  <2>3. EventType'
    BY <1>1, <1>11 DEF UnflagEvent, EventType
  <2>4. RowType' /\ ProviderType' /\ CheckoutType' /\ ReconcileType' /\ LossType'
    BY <1>1, <1>11 DEF UnflagEvent, RowType, ProviderType, CheckoutType, ReconcileType, LossType
  <2>. QED  BY <2>2, <2>3, <2>4, TypePartsNext
<1>12. CASE MarkProviderEventProcessed(d) \/ MarkProviderEventFailed(d)
  <2>2. WebhookType'
    BY <1>1, <1>12, ReleaseType DEF MarkProviderEventProcessed, MarkProviderEventFailed
  <2>3. ProviderType'
    BY <1>1, <1>12 DEF MarkProviderEventProcessed, MarkProviderEventFailed, ProviderType
  <2>4. RowType' /\ EventType' /\ CheckoutType' /\ ReconcileType' /\ LossType'
    BY <1>1, <1>12 DEF MarkProviderEventProcessed, MarkProviderEventFailed, RowType,
                       EventType, CheckoutType, ReconcileType, LossType
  <2>. QED  BY <2>2, <2>3, <2>4, TypePartsNext
<1>13. CASE FailDelivery(d)
  <2>2. WebhookType'
    BY <1>1, <1>13, MoveType DEF FailDelivery, WebhookLabels
  <2>3. LossType'
    BY <1>1, <1>13, BillingAssumption DEF FailDelivery, LossType
  <2>4. RowType' /\ EventType' /\ ProviderType' /\ CheckoutType' /\ ReconcileType'
    BY <1>1, <1>13 DEF FailDelivery, RowType, EventType, ProviderType, CheckoutType, ReconcileType
  <2>. QED  BY <2>2, <2>3, <2>4, TypePartsNext
<1>14. CASE StopDelivery(d)
  <2>2. WebhookType'
    BY <1>1, <1>14, ReleaseType DEF StopDelivery
  <2>3. LossType'
    BY <1>1, <1>14, BillingAssumption DEF StopDelivery, LossType
  <2>4. RowType' /\ EventType' /\ ProviderType' /\ CheckoutType' /\ ReconcileType'
    BY <1>1, <1>14 DEF StopDelivery, RowType, EventType, ProviderType, CheckoutType, ReconcileType
  <2>. QED  BY <2>2, <2>3, <2>4, TypePartsNext
<1>. QED
  BY <1>2, <1>3, <1>4, <1>5, <1>6, <1>7, <1>8, <1>9, <1>10, <1>11, <1>12, <1>13, <1>14
  DEF WebhookStep

LEMMA TypeReconcile ==
    ASSUME TypeOK, ReconcileStep \/ StopReconcile
    PROVE  TypeOK'
<1>. USE DEF rowVars, eventVars, providerVars, checkoutVars, webhookVars,
             reconcileVars, lossVars
<1>1. /\ RowType /\ EventType /\ ProviderType /\ CheckoutType
      /\ WebhookType /\ ReconcileType /\ LossType
  BY TypeParts
<1>2. ProviderType' /\ CheckoutType' /\ WebhookType'
  BY <1>1 DEF ReconcileStep, UnappliedSettled, ReconcileGrant, ReconcileMark, ReconcileDone,
              StopReconcile, ProviderType, CheckoutType, WebhookType
<1>3. ReconcileType'
  BY <1>1 DEF ReconcileStep, UnappliedSettled, ReconcileGrant, ReconcileMark, ReconcileDone,
              StopReconcile, ReconcileType, Unapplied
<1>4. LossType'
  BY <1>1, BillingAssumption DEF ReconcileStep, UnappliedSettled, ReconcileGrant,
              ReconcileMark, ReconcileDone, StopReconcile, LossType
<1>5. EventType'
  BY <1>1, BillingAssumption DEF ReconcileStep, UnappliedSettled, ReconcileGrant,
              ReconcileMark, ReconcileDone, StopReconcile, ActivatePurchase, EventType
<1>6. RowType'
  BY <1>1 DEF ReconcileStep, UnappliedSettled, ReconcileGrant, ReconcileMark, ReconcileDone,
              StopReconcile, RowType, ReconcileType
<1>. QED  BY <1>2, <1>3, <1>4, <1>5, <1>6, TypePartsNext

LEMMA TypeOther ==
    ASSUME TypeOK,
           \/ \E c \in Checkouts, k \in Keys : CreateCheckout(c, k)
           \/ \E n \in Notes : Send(n)
           \/ \E d \in Deliveries, n \in Notes : InsertProviderEvent(d, n)
           \/ UNCHANGED vars
    PROVE  TypeOK'
<1>. USE DEF rowVars, eventVars, providerVars, checkoutVars, webhookVars,
             reconcileVars, lossVars
<1>1. /\ RowType /\ EventType /\ ProviderType /\ CheckoutType
      /\ WebhookType /\ ReconcileType /\ LossType
  BY TypeParts
<1>2. RowType' /\ EventType' /\ ReconcileType' /\ LossType'
  BY <1>1 DEF CreateCheckout, Send, InsertProviderEvent, vars, RowType, EventType,
              ReconcileType, LossType
<1>3. ProviderType'
  BY <1>1 DEF CreateCheckout, Send, InsertProviderEvent, vars, ProviderType
<1>4. CheckoutType'
  BY <1>1, CheckoutMoveType DEF CreateCheckout, Send, InsertProviderEvent, vars, CheckoutType
<1>5. WebhookType'
  BY <1>1 DEF CreateCheckout, Send, InsertProviderEvent, vars, WebhookType, At,
              WebhookLabels, ProviderType
<1>. QED  BY <1>2, <1>3, <1>4, <1>5, TypePartsNext

LEMMA TypeInit == Init => TypeOK
BY BillingAssumption DEF Init, TypeOK, Statuses, WebhookLabels

LEMMA TypeNext == TypeOK /\ [Next]_vars => TypeOK'
BY TypeCheckout, TypeWebhook, TypeReconcile, TypeOther DEF Next

\* Columns and handlers' locals keep their types (TypeOK): in particular no
\* handler uses a row it has not read, and no amount becomes negative.
THEOREM BillingTypeCorrect == Spec => []TypeOK
BY TypeInit, TypeNext, PTL DEF Spec
-----------------------------------------------------------------------------
(* What a step of a webhook request leaves alone *)

WebhookMove(d) == WebhookStep(d) \/ FailDelivery(d) \/ StopDelivery(d)

LEMMA WebhookFrame ==
    ASSUME TypeOK, NEW d \in Deliveries, WebhookMove(d)
    PROVE  /\ wpc[d] # "idle"
           /\ \A e \in Deliveries \ {d} :
                 wpc'[e] = wpc[e] /\ wnote'[e] = wnote[e] /\ wrow'[e] = wrow[e]
           /\ wpc'[d] # "idle" => wnote'[d] = wnote[d]
           /\ wpc'[d] # "idle" /\ ~GetPurchase(d) => wrow'[d] = wrow[d]
           /\ wpc'[d] \notin {"idle", "nack"} /\ ~GetPurchase(d) =>
                 wpc[d] \notin {"load", "nack"}
           /\ UNCHANGED <<sent, checkout, checkoutVars, reconcileVars>>
           /\ wpc'[d] = "mark" => ApplyEntitlement(d) \/ GetPurchase(d)
           /\ wpc'[d] \in {"settle", "reverse", "restore"} => GetPurchase(d)
           /\ wpc'[d] = "grant" => GetPurchase(d) \/ SettlePurchase(d)
<1>. USE DEF rowVars, eventVars, providerVars, checkoutVars, webhookVars,
             reconcileVars, lossVars, At, Release
<1>1. /\ wpc \in [Deliveries -> {"idle"} \cup WebhookLabels]
      /\ wnote \in [Deliveries -> Notes \cup {NoNote}]
      /\ wrow \in [Deliveries -> SUBSET Rows]
  BY DEF TypeOK
<1>2. CASE GetPurchase(d)
  BY <1>1, <1>2 DEF GetPurchase
<1>3. CASE UpdateStatus(d) \/ RecordReversal(d) \/ RecordDisputeReversed(d)
           \/ MarkEntitlementApplied(d)
  BY <1>1, <1>3 DEF UpdateStatus, RecordReversal, RecordDisputeReversed, MarkEntitlementApplied
<1>4. CASE SettlePurchase(d)
  BY <1>1, <1>4 DEF SettlePurchase
<1>5. CASE ApplyEntitlement(d) \/ ApplyRefused(d) \/ FlagEvent(d) \/ UnflagEvent(d)
  BY <1>1, <1>5 DEF ApplyEntitlement, ApplyRefused, FlagEvent, UnflagEvent
<1>6. CASE MarkProviderEventProcessed(d) \/ MarkProviderEventFailed(d)
           \/ FailDelivery(d) \/ StopDelivery(d)
  BY <1>1, <1>6 DEF MarkProviderEventProcessed, MarkProviderEventFailed, FailDelivery, StopDelivery
<1>. QED  BY <1>2, <1>3, <1>4, <1>5, <1>6 DEF WebhookMove, WebhookStep

\* What a step of a webhook request does to the purchases and the event.
LEMMA WebhookEffect ==
    ASSUME TypeOK, NEW d \in Deliveries, WebhookMove(d)
    PROVE  \/ UNCHANGED <<status, total, refunded, applied, grants>>
           \/ UpdateStatus(d) \/ SettlePurchase(d) \/ ApplyEntitlement(d)
           \/ MarkEntitlementApplied(d) \/ RecordReversal(d) \/ RecordDisputeReversed(d)
BY DEF WebhookMove, WebhookStep, GetPurchase, ApplyRefused, FlagEvent, UnflagEvent,
       MarkProviderEventProcessed, MarkProviderEventFailed, FailDelivery, StopDelivery,
       rowVars, eventVars

\* Every step of the system.
LEMMA Steps ==
    ASSUME [Next]_vars
    PROVE  \/ \E d \in Deliveries : WebhookMove(d)
           \/ \E c \in Checkouts : CheckoutStep(c) \/ StopCheckout(c)
           \/ ReconcileStep \/ StopReconcile
           \/ \E c \in Checkouts, k \in Keys : CreateCheckout(c, k)
           \/ \E n \in Notes : Send(n)
           \/ \E d \in Deliveries, n \in Notes : InsertProviderEvent(d, n)
           \/ UNCHANGED vars
BY DEF Next, WebhookMove

-----------------------------------------------------------------------------
(* One open purchase *)

Holding == {"provider", "persist", "undo"}

\* A request that inserted a purchase and has not heard of the provider's
\* answer owns it: nobody else can know its checkout.
CheckoutsHeld ==
    \A c \in Checkouts :
        cpc[c] \in Holding => status[ckey[c]] = "pending" /\ ~checkout[ckey[c]]
CheckoutsApart ==
    \A c, e \in Checkouts :
        cpc[c] \in Holding /\ cpc[e] \in Holding /\ ckey[c] = ckey[e] => c = e
RowFirst == \A k \in Keys : checkout[k] => status[k] # "none"
SentKnown == \A n \in sent : checkout[Note[n].key]

OpenInv == OneOpenPurchase /\ CheckoutsHeld /\ CheckoutsApart /\ RowFirst /\ SentKnown

\* Webhooks and reconciliation close purchases whose checkout is known.
CloseOnly ==
    /\ UNCHANGED <<checkout, sent, cpc, ckey>>
    /\ \A k \in Keys : status'[k] = status[k] \/ (checkout[k] /\ status'[k] \notin Open \cup {"none"})

LEMMA WebhookCloses ==
    ASSUME TypeOK, SentKnown, NEW d \in Deliveries, WebhookMove(d)
    PROVE  CloseOnly
<1>1. UNCHANGED <<checkout, sent, cpc, ckey>>
  BY WebhookFrame DEF checkoutVars
<1>2. /\ wpc[d] # "idle" /\ KeyOf(d) \in Keys /\ checkout[KeyOf(d)]
      /\ status \in [Keys -> Statuses]
  BY WebhookFrame, RequestFacts DEF SentKnown, KeyOf, NoteOf, TypeOK
<1>3. \A k \in Keys : status'[k] = status[k] \/ (checkout[k] /\ status'[k] \notin Open \cup {"none"})
  <2>1. CASE UNCHANGED status
    BY <2>1
  <2>2. CASE UpdateStatus(d)
    BY <1>2, <2>2 DEF UpdateStatus, Open
  <2>3. CASE SettlePurchase(d)
    BY <1>2, <2>3 DEF SettlePurchase, Open
  <2>4. CASE RecordReversal(d)
    <3>1. ReversalStatus(wnote[d], ReadRow(d)) \notin Open \cup {"none"}
      BY DEF ReversalStatus, Open
    <3>. QED  BY <1>2, <2>4, <3>1 DEF RecordReversal
  <2>5. CASE RecordDisputeReversed(d)
    BY <1>2, <2>5 DEF RecordDisputeReversed, Open
  <2>6. CASE ApplyEntitlement(d) \/ MarkEntitlementApplied(d)
    BY <2>6 DEF ApplyEntitlement, MarkEntitlementApplied, rowVars
  <2>. QED  BY <2>1, <2>2, <2>3, <2>4, <2>5, <2>6, WebhookEffect
<1>. QED  BY <1>1, <1>3 DEF CloseOnly

LEMMA CloseKeeps ==
    ASSUME TypeOK, OpenInv, CloseOnly
    PROVE  OpenInv'
<1>1. OneOpenPurchase'
  BY DEF OpenInv, OneOpenPurchase, OpenPurchases, CloseOnly
<1>2. CheckoutsHeld'
  <2>1. \A c \in Checkouts : cpc[c] \in Holding => ckey[c] \in Keys
    BY DEF TypeOK, Holding
  <2>. QED  BY <2>1 DEF OpenInv, CheckoutsHeld, CloseOnly
<1>3. CheckoutsApart' /\ SentKnown'
  BY DEF OpenInv, CheckoutsApart, SentKnown, CloseOnly
<1>4. RowFirst'
  BY DEF OpenInv, RowFirst, CloseOnly
<1>. QED  BY <1>1, <1>2, <1>3, <1>4 DEF OpenInv

LEMMA OpenCheckout ==
    ASSUME TypeOK, OpenInv, NEW c \in Checkouts, CheckoutStep(c) \/ StopCheckout(c)
    PROVE  OpenInv'
<1>. USE DEF rowVars, eventVars, providerVars, checkoutVars
<1>. DEFINE k == ckey[c]
<1>1. /\ status \in [Keys -> Statuses] /\ checkout \in [Keys -> BOOLEAN]
      /\ cpc \in [Checkouts -> {"idle", "create", "provider", "persist", "undo"}]
      /\ ckey \in [Checkouts -> Keys \cup {NoKey}]
      /\ \A e \in Checkouts : cpc[e] # "idle" => ckey[e] \in Keys
      /\ sent \subseteq Notes
  BY DEF TypeOK
<1>2. \A n \in sent : Note[n].key \in Keys
  BY <1>1, BillingAssumption
<1>3. CASE CreatePurchase(c)
  <2>1. /\ k \in Keys /\ status[k] = "none" /\ ~checkout[k] /\ OpenPurchases = {}
        /\ \A e \in Checkouts : cpc[e] \in Holding => ckey[e] # k
    BY <1>1, <1>3 DEF CreatePurchase, OpenInv, RowFirst, CheckoutsHeld, Holding
  <2>2. /\ \A j \in Keys : status'[j] = IF j = k THEN "pending" ELSE status[j]
        /\ \A e \in Checkouts : /\ cpc'[e] = IF e = c THEN "provider" ELSE cpc[e]
                                /\ ckey'[e] = ckey[e]
        /\ UNCHANGED <<checkout, sent>>
    BY <1>1, <1>3 DEF CreatePurchase, CheckoutAt
  <2>. HIDE DEF k
  <2>3. OneOpenPurchase'
    BY <2>1, <2>2 DEF OneOpenPurchase, OpenPurchases
  <2>4. CheckoutsHeld' /\ CheckoutsApart'
    BY <1>1, <2>1, <2>2 DEF OpenInv, CheckoutsHeld, CheckoutsApart, Holding, k
  <2>5. RowFirst' /\ SentKnown'
    BY <2>1, <2>2 DEF OpenInv, RowFirst, SentKnown
  <2>. QED  BY <2>3, <2>4, <2>5 DEF OpenInv
<1>4. CASE CreatePurchaseRefused(c) \/ ProviderCheckout(c) \/ StopCheckout(c)
  <2>1. /\ UNCHANGED <<status, checkout, sent>>
        /\ \A e \in Checkouts : cpc'[e] \in Holding => cpc[e] \in Holding /\ ckey'[e] = ckey[e]
    BY <1>1, <1>4 DEF CreatePurchaseRefused, ProviderCheckout, StopCheckout, CheckoutAt, Holding
  <2>2. OneOpenPurchase' /\ RowFirst' /\ SentKnown'
    BY <2>1 DEF OpenInv, OneOpenPurchase, OpenPurchases, RowFirst, SentKnown
  <2>3. CheckoutsHeld' /\ CheckoutsApart'
    BY <2>1 DEF OpenInv, CheckoutsHeld, CheckoutsApart
  <2>. QED  BY <2>2, <2>3 DEF OpenInv
<1>5. CASE UpdateCheckout(c) \/ UndoPurchase(c)
  <2>1. /\ k \in Keys /\ status[k] = "pending" /\ ~checkout[k] /\ cpc[c] \in Holding
        /\ \A e \in Checkouts \ {c} : cpc[e] \in Holding => ckey[e] # k
    BY <1>1, <1>5 DEF UpdateCheckout, UndoPurchase, OpenInv, CheckoutsHeld, CheckoutsApart, Holding
  <2>2. /\ \A j \in Keys \ {k} : status'[j] = status[j] /\ checkout'[j] = checkout[j]
        /\ status'[k] # "none" /\ (checkout[k] => checkout'[k])
        /\ \A e \in Checkouts :
              cpc'[e] \in Holding => e # c /\ cpc[e] \in Holding /\ ckey'[e] = ckey[e]
        /\ UNCHANGED sent
    BY <1>1, <1>5 DEF UpdateCheckout, UndoPurchase, CheckoutAt, Holding
  <2>. HIDE DEF k
  <2>3. OneOpenPurchase'
    BY <2>1, <2>2 DEF OpenInv, OneOpenPurchase, OpenPurchases, Open
  <2>4. CheckoutsHeld' /\ CheckoutsApart'
    BY <1>1, <2>1, <2>2 DEF OpenInv, CheckoutsHeld, CheckoutsApart, Holding
  <2>5. RowFirst' /\ SentKnown'
    BY <1>2, <2>1, <2>2 DEF OpenInv, RowFirst, SentKnown
  <2>. QED  BY <2>3, <2>4, <2>5 DEF OpenInv
<1>. QED  BY <1>3, <1>4, <1>5 DEF CheckoutStep

LEMMA OpenNext == TypeOK /\ OpenInv /\ [Next]_vars => OpenInv'
<1>. SUFFICES ASSUME TypeOK, OpenInv, [Next]_vars  PROVE OpenInv'
  OBVIOUS
<1>. USE DEF rowVars, eventVars, providerVars, checkoutVars, webhookVars, reconcileVars
<1>1. CASE \E d \in Deliveries : WebhookMove(d)
  BY <1>1, WebhookCloses, CloseKeeps DEF OpenInv
<1>2. CASE \E c \in Checkouts : CheckoutStep(c) \/ StopCheckout(c)
  BY <1>2, OpenCheckout
<1>3. CASE ReconcileStep \/ StopReconcile
  <2>1. CloseOnly
    BY <1>3 DEF ReconcileStep, UnappliedSettled, ReconcileGrant, ReconcileMark, ReconcileDone,
                StopReconcile, CloseOnly
  <2>. QED  BY <2>1, CloseKeeps
<1>4. CASE \E c \in Checkouts, k \in Keys : CreateCheckout(c, k)
  <2>1. PICK c \in Checkouts, k \in Keys : CreateCheckout(c, k)
    BY <1>4
  <2>2. /\ UNCHANGED <<status, checkout, sent>>
        /\ \A e \in Checkouts : cpc'[e] \in Holding => cpc[e] \in Holding /\ ckey'[e] = ckey[e]
    BY <2>1 DEF CreateCheckout, CheckoutAt, Holding, TypeOK
  <2>3. OneOpenPurchase' /\ RowFirst' /\ SentKnown'
    BY <2>2 DEF OpenInv, OneOpenPurchase, OpenPurchases, RowFirst, SentKnown
  <2>4. CheckoutsHeld' /\ CheckoutsApart'
    BY <2>2 DEF OpenInv, CheckoutsHeld, CheckoutsApart
  <2>. QED  BY <2>3, <2>4 DEF OpenInv
<1>5. CASE \E n \in Notes : Send(n)
  BY <1>5 DEF Send, OpenInv, OneOpenPurchase, OpenPurchases, CheckoutsHeld, CheckoutsApart,
              RowFirst, SentKnown
<1>6. CASE (\E d \in Deliveries, n \in Notes : InsertProviderEvent(d, n)) \/ UNCHANGED vars
  <2>1. CloseOnly
    BY <1>6 DEF InsertProviderEvent, vars, CloseOnly
  <2>. QED  BY <2>1, CloseKeeps
<1>. QED  BY <1>1, <1>2, <1>3, <1>4, <1>5, <1>6, Steps

\* An event has one open purchase at a time (OneOpenPurchase), although
\* UpdateCheckout and UpdateStatus write the status without looking at it.
THEOREM OneOpen == Spec => []OneOpenPurchase
<1>1. Init => TypeOK /\ OpenInv
  <2>1. Init => OpenInv
    BY DEF Init, OpenInv, OneOpenPurchase, OpenPurchases, Open, CheckoutsHeld, CheckoutsApart,
           RowFirst, SentKnown, Holding
  <2>. QED  BY <2>1, TypeInit
<1>2. TypeOK /\ OpenInv /\ [Next]_vars => (TypeOK /\ OpenInv)'
  BY TypeNext, OpenNext
<1>3. OpenInv => OneOpenPurchase
  BY DEF OpenInv
<1>. QED  BY <1>1, <1>2, <1>3, PTL DEF Spec
-----------------------------------------------------------------------------
(* One grant, and only of what was paid *)

\* Who is about to record a grant has seen it committed.
MarkedLater ==
    /\ \A d \in Deliveries : wpc[d] = "mark" => grants[KeyOf(d)] > 0
    /\ rpc = "mark" => grants[rkey] > 0

Paid(k) == (Of(k, {"settled"}) \cap sent) \ Mismatched # {}

\* Who is about to settle, grant or reverse acts on a payment.
PaidFirst ==
    /\ \A k \in Keys : status[k] \in PostSettlement => Paid(k)
    /\ \A k \in todo : Paid(k)
    /\ \A d \in Deliveries :
         /\ wpc[d] = "settle" => TypeOf(d) = "settled" /\ wnote[d] \notin Mismatched
         /\ wpc[d] \in {"grant", "reverse", "restore"} => Paid(KeyOf(d))

GrantInv == GrantsOnce /\ AppliedMeansGranted /\ MarkedLater /\ GrantedWasPaid /\ PaidFirst

\* The licensing transaction writes at most the first grant of one purchase.
LEMMA GrantEffect ==
    ASSUME TypeOK, NEW k \in Keys, ActivatePurchase(k)
    PROVE  /\ grants'[k] > 0
           /\ \A j \in Keys : /\ grants[j] > 0 => grants'[j] > 0
                              /\ grants'[j] > 0 => grants[j] > 0 \/ j = k
                              /\ grants[j] <= 1 => grants'[j] <= 1
<1>1. grants \in [Keys -> Nat]
  BY DEF TypeOK
<1>. QED  BY <1>1 DEF ActivatePurchase

LEMMA PaidStays == \A k : sent \subseteq sent' /\ Paid(k) => Paid(k)'
BY DEF Paid

LEMMA SettledIsPaid ==
    ASSUME TypeOK, NEW d \in Deliveries, wpc[d] # "idle", TypeOf(d) = "settled",
           wnote[d] \notin Mismatched
    PROVE  Paid(KeyOf(d))
BY RequestFacts DEF Paid, Of, KeyOf, TypeOf, NoteOf

LEMMA GrantWebhook ==
    ASSUME TypeOK, GrantInv, NEW d \in Deliveries, WebhookMove(d)
    PROVE  GrantInv'
<1>. USE DEF rowVars, eventVars, providerVars, checkoutVars, reconcileVars
<1>. DEFINE k == KeyOf(d)
<1>1. /\ wpc[d] # "idle" /\ k \in Keys
      /\ status \in [Keys -> Statuses] /\ applied \in [Keys -> BOOLEAN]
      /\ todo \subseteq Keys /\ (rpc = "mark" => rkey \in Keys)
      /\ \A e \in Deliveries : wpc[e] # "idle" => KeyOf(e) \in Keys
  BY WebhookFrame, RequestFacts DEF TypeOK
<1>2. /\ \A e \in Deliveries \ {d} : wpc'[e] = wpc[e] /\ KeyOf(e)' = KeyOf(e)
                                     /\ TypeOf(e)' = TypeOf(e) /\ wnote'[e] = wnote[e]
      /\ wpc'[d] # "idle" => KeyOf(d)' = k /\ TypeOf(d)' = TypeOf(d) /\ wnote'[d] = wnote[d]
      /\ UNCHANGED <<sent, rpc, rkey, todo>>
  BY WebhookFrame DEF KeyOf, TypeOf, NoteOf
<1>3. \A j : Paid(j)' = Paid(j)
  BY <1>2 DEF Paid
<1>15. \A e \in Deliveries : KeyOf(e)' = KeyOf(e) => Paid(KeyOf(e))' = Paid(KeyOf(e))
  BY <1>2 DEF Paid, Of
<1>4. /\ \A j \in Keys : /\ grants[j] > 0 => grants'[j] > 0
                         /\ grants'[j] > 0 => grants[j] > 0 \/ (j = k /\ wpc[d] = "grant")
                         /\ grants[j] <= 1 => grants'[j] <= 1
      /\ ApplyEntitlement(d) => grants'[k] > 0
  <2>1. CASE ApplyEntitlement(d)
    BY <1>1, <2>1, GrantEffect DEF ApplyEntitlement
  <2>2. CASE ~ApplyEntitlement(d)
    <3>1. UNCHANGED grants
      BY <2>2, WebhookEffect DEF UpdateStatus, SettlePurchase, MarkEntitlementApplied,
             RecordReversal, RecordDisputeReversed
    <3>. QED  BY <3>1, <2>2
  <2>. QED  BY <2>1, <2>2
<1>5. \A j \in Keys : applied'[j] => applied[j] \/ (j = k /\ wpc[d] = "mark")
  BY <1>1, WebhookEffect DEF UpdateStatus, SettlePurchase, MarkEntitlementApplied,
             RecordReversal, RecordDisputeReversed, ApplyEntitlement
<1>6. \A j \in Keys : status'[j] \in PostSettlement =>
         \/ status[j] \in PostSettlement
         \/ j = k /\ wpc[d] \in {"settle", "reverse", "restore"}
  BY <1>1, WebhookEffect DEF UpdateStatus, SettlePurchase, MarkEntitlementApplied,
             RecordReversal, RecordDisputeReversed, ApplyEntitlement, PostSettlement
<1>7. wpc[d] \in {"settle", "reverse", "restore", "grant"} => Paid(k)
  BY <1>1, SettledIsPaid DEF GrantInv, PaidFirst
<1>8. GetPurchase(d) =>
         /\ wpc'[d] # "mark"
         /\ wpc'[d] = "settle" => TypeOf(d) = "settled" /\ wnote[d] \notin Mismatched
         /\ wpc'[d] \in {"grant", "reverse", "restore"} => status[k] \in PostSettlement
  <2>. SUFFICES ASSUME GetPurchase(d)
                PROVE  /\ wpc'[d] # "mark"
                       /\ wpc'[d] = "settle" => TypeOf(d) = "settled" /\ wnote[d] \notin Mismatched
                       /\ wpc'[d] \in {"grant", "reverse", "restore"} => status[k] \in PostSettlement
    OBVIOUS
  <2>1. RowOf(k).status = status[k]
    BY DEF RowOf
  <2>2. wpc \in [Deliveries -> {"idle"} \cup WebhookLabels] /\ TypeOf(d) \in NoteTypes
    BY <1>1, RequestFacts DEF TypeOK
  <2>3. CASE TypeOf(d) = "settled"
    <3>1. wpc'[d] = SettlementNext(wnote[d], RowOf(k))
      BY <2>2, <2>3 DEF GetPurchase, At
    <3>. QED  BY <2>1, <2>3, <3>1 DEF SettlementNext, PostSettlement
  <2>4. CASE TypeOf(d) \in {"failed", "canceled"}
    <3>1. wpc'[d] = FailureNext(wnote[d], RowOf(k))
      BY <2>2, <2>4 DEF GetPurchase, At
    <3>. QED  BY <2>1, <3>1 DEF FailureNext
  <2>5. CASE TypeOf(d) \in {"refunded", "disputed"}
    <3>1. wpc'[d] = ReversalNext(RowOf(k))
      BY <2>2, <2>5 DEF GetPurchase, At
    <3>. QED  BY <2>1, <3>1 DEF ReversalNext
  <2>6. CASE TypeOf(d) = "dispute_reversed"
    <3>1. wpc'[d] = DisputeReversedNext(RowOf(k))
      BY <2>2, <2>6 DEF GetPurchase, At
    <3>. QED  BY <2>1, <3>1 DEF DisputeReversedNext, PostSettlement
  <2>. QED  BY <2>2, <2>3, <2>4, <2>5, <2>6 DEF NoteTypes, Adjustments
<1>9. SettlePurchase(d) => wpc[d] = "settle"
  BY DEF SettlePurchase
<1>. HIDE DEF k
<1>10. GrantsOnce'
  BY <1>4 DEF GrantInv, GrantsOnce
<1>11. AppliedMeansGranted'
  <2>1. wpc[d] = "mark" => grants[k] > 0
    BY DEF GrantInv, MarkedLater, k
  <2>. QED  BY <1>4, <1>5, <2>1 DEF GrantInv, AppliedMeansGranted
<1>12. MarkedLater'
  <2>1. wpc'[d] = "mark" => ApplyEntitlement(d)
    BY <1>8, WebhookFrame
  <2>2. ASSUME NEW e \in Deliveries, wpc'[e] = "mark"  PROVE  grants'[KeyOf(e)'] > 0
    <3>1. CASE e = d
      BY <1>1, <1>2, <1>4, <2>1, <2>2, <3>1
    <3>2. CASE e # d
      BY <1>1, <1>2, <1>4, <2>2, <3>2 DEF GrantInv, MarkedLater
    <3>. QED  BY <3>1, <3>2
  <2>3. rpc' = "mark" => grants'[rkey'] > 0
    BY <1>1, <1>2, <1>4 DEF GrantInv, MarkedLater
  <2>. QED  BY <2>2, <2>3 DEF MarkedLater, KeyOf, NoteOf
<1>13. GrantedWasPaid'
  <2>1. \A j : ((Of(j, {"settled"}) \cap sent) \ Mismatched # {}) = Paid(j)
    BY DEF Paid
  <2>2. \A j \in Keys : grants'[j] > 0 => Paid(j)'
    BY <1>3, <1>4, <1>7 DEF GrantInv, GrantedWasPaid, Paid
  <2>. QED  BY <2>2 DEF GrantedWasPaid, Paid
<1>14. PaidFirst'
  <2>1. \A j \in Keys : status'[j] \in PostSettlement => Paid(j)'
    BY <1>3, <1>6, <1>7 DEF GrantInv, PaidFirst
  <2>2. \A j \in todo' : Paid(j)'
    BY <1>2, <1>3 DEF GrantInv, PaidFirst
  <2>3. ASSUME NEW e \in Deliveries
        PROVE  /\ wpc'[e] = "settle" => TypeOf(e)' = "settled" /\ wnote'[e] \notin Mismatched
               /\ wpc'[e] \in {"grant", "reverse", "restore"} => Paid(KeyOf(e))'
    <3>1. CASE e # d
      BY <1>2, <1>15, <3>1 DEF GrantInv, PaidFirst
    <3>2. CASE e = d
      <4>1. wpc'[d] = "settle" => TypeOf(d) = "settled" /\ wnote[d] \notin Mismatched
        BY <1>8, WebhookFrame
      <4>2. wpc'[d] \in {"grant", "reverse", "restore"} => Paid(k)
        <5>1. wpc'[d] \in {"grant", "reverse", "restore"} =>
                 status[k] \in PostSettlement \/ wpc[d] = "settle"
          BY <1>8, <1>9, WebhookFrame
        <5>. QED  BY <1>1, <1>7, <5>1 DEF GrantInv, PaidFirst
      <4>. QED  BY <1>2, <1>15, <3>2, <4>1, <4>2 DEF k
    <3>. QED  BY <3>1, <3>2
  <2>. QED  BY <2>1, <2>2, <2>3 DEF PaidFirst, KeyOf, TypeOf, NoteOf
<1>. QED  BY <1>10, <1>11, <1>12, <1>13, <1>14 DEF GrantInv
LEMMA GrantReconcile ==
    ASSUME TypeOK, GrantInv, ReconcileStep \/ StopReconcile
    PROVE  GrantInv'
<1>. USE DEF rowVars, eventVars, providerVars, checkoutVars, webhookVars
<1>1. /\ applied \in [Keys -> BOOLEAN] /\ todo \subseteq Keys
      /\ rpc = "mark" => rkey \in Keys
      /\ \A d \in Deliveries : wpc[d] # "idle" => KeyOf(d) \in Keys
  BY RequestFacts DEF TypeOK
<1>2. UNCHANGED <<status, sent, wpc, wnote>>
  BY DEF ReconcileStep, UnappliedSettled, ReconcileGrant, ReconcileMark, ReconcileDone,
         StopReconcile
<1>3. /\ \A j \in Keys : /\ grants[j] > 0 => grants'[j] > 0
                         /\ grants'[j] > 0 => grants[j] > 0 \/ j \in todo
                         /\ grants[j] <= 1 => grants'[j] <= 1
      /\ rpc' = "mark" => grants'[rkey'] > 0
  <2>1. CASE \E k \in Keys : ReconcileGrant(k)
    <3>1. PICK k \in Keys : ReconcileGrant(k)
      BY <2>1
    <3>2. CASE ActivatePurchase(k) /\ rpc' = "mark" /\ rkey' = k /\ k \in todo
      BY <3>2, GrantEffect
    <3>3. CASE UNCHANGED <<grants, rpc, rkey>>
      BY <3>1, <3>3 DEF ReconcileGrant
    <3>. QED  BY <3>1, <3>2, <3>3 DEF ReconcileGrant
  <2>2. CASE UnappliedSettled \/ ReconcileMark \/ ReconcileDone \/ StopReconcile
    BY <2>2 DEF UnappliedSettled, ReconcileMark, ReconcileDone, StopReconcile
  <2>. QED  BY <2>1, <2>2 DEF ReconcileStep
<1>4. \A j \in Keys : applied'[j] => applied[j] \/ (rpc = "mark" /\ j = rkey)
  BY <1>1 DEF ReconcileStep, UnappliedSettled, ReconcileGrant, ReconcileMark, ReconcileDone,
              StopReconcile
<1>5. todo' \subseteq {j \in Keys : j \in todo \/ status[j] \in PostSettlement}
  BY <1>1 DEF ReconcileStep, UnappliedSettled, ReconcileGrant, ReconcileMark, ReconcileDone,
              StopReconcile, Unapplied, PostSettlement
<1>6. \A j : Paid(j)' = Paid(j)
  BY <1>2 DEF Paid
<1>7. GrantsOnce'
  BY <1>3 DEF GrantInv, GrantsOnce
<1>8. AppliedMeansGranted'
  BY <1>1, <1>3, <1>4 DEF GrantInv, AppliedMeansGranted, MarkedLater
<1>9. MarkedLater'
  <2>1. \A d \in Deliveries : wpc'[d] = "mark" => grants'[KeyOf(d)'] > 0
    BY <1>1, <1>2, <1>3 DEF GrantInv, MarkedLater, KeyOf, NoteOf
  <2>. QED  BY <1>3, <2>1 DEF MarkedLater
<1>10. GrantedWasPaid'
  <2>1. \A j \in Keys : grants'[j] > 0 => Paid(j)'
    BY <1>3, <1>6 DEF GrantInv, GrantedWasPaid, PaidFirst, Paid
  <2>. QED  BY <2>1 DEF GrantedWasPaid, Paid
<1>11. PaidFirst'
  <2>1. \A j \in Keys : status'[j] \in PostSettlement => Paid(j)'
    BY <1>2, <1>6 DEF GrantInv, PaidFirst
  <2>2. \A j \in todo' : Paid(j)'
    BY <1>5, <1>6 DEF GrantInv, PaidFirst
  <2>3. \A d \in Deliveries :
           /\ KeyOf(d)' = KeyOf(d) /\ TypeOf(d)' = TypeOf(d)
           /\ Paid(KeyOf(d))' = Paid(KeyOf(d))
    BY <1>2 DEF KeyOf, TypeOf, NoteOf, Paid, Of
  <2>. QED  BY <1>2, <2>1, <2>2, <2>3 DEF GrantInv, PaidFirst
<1>. QED  BY <1>7, <1>8, <1>9, <1>10, <1>11 DEF GrantInv

\* Steps that touch neither grants nor what is about to be granted.
LEMMA GrantOther ==
    ASSUME TypeOK, GrantInv,
           \/ \E c \in Checkouts : CheckoutStep(c) \/ StopCheckout(c)
           \/ \E c \in Checkouts, k \in Keys : CreateCheckout(c, k)
           \/ \E n \in Notes : Send(n)
           \/ \E d \in Deliveries, n \in Notes : InsertProviderEvent(d, n)
           \/ UNCHANGED vars
    PROVE  GrantInv'
<1>. USE DEF rowVars, eventVars, providerVars, checkoutVars, webhookVars, reconcileVars
<1>1. /\ status \in [Keys -> Statuses] /\ wpc \in [Deliveries -> {"idle"} \cup WebhookLabels]
      /\ wnote \in [Deliveries -> Notes \cup {NoNote}]
      /\ \A c \in Checkouts : cpc[c] # "idle" => ckey[c] \in Keys
  BY DEF TypeOK
<1>2. UNCHANGED <<grants, applied, rpc, rkey, todo>> /\ sent \subseteq sent'
  BY DEF CheckoutStep, CreatePurchase, CreatePurchaseRefused, ProviderCheckout, UpdateCheckout,
         UndoPurchase, StopCheckout, CreateCheckout, Send, InsertProviderEvent, vars
<1>3. \A d \in Deliveries :
         \/ wpc'[d] = wpc[d] /\ wnote'[d] = wnote[d]
         \/ wpc'[d] = "load"
  BY <1>1 DEF CheckoutStep, CreatePurchase, CreatePurchaseRefused, ProviderCheckout,
              UpdateCheckout, UndoPurchase, StopCheckout, CreateCheckout, Send,
              InsertProviderEvent, vars, At
<1>4. \A j \in Keys : status'[j] \in PostSettlement => status[j] \in PostSettlement
  BY <1>1 DEF CheckoutStep, CreatePurchase, CreatePurchaseRefused, ProviderCheckout,
              UpdateCheckout, UndoPurchase, StopCheckout, CreateCheckout, Send,
              InsertProviderEvent, vars, PostSettlement
<1>5. \A j : Paid(j) => Paid(j)'
  BY <1>2 DEF Paid
<1>6. GrantsOnce' /\ AppliedMeansGranted'
  BY <1>2 DEF GrantInv, GrantsOnce, AppliedMeansGranted
<1>7. \A d \in Deliveries : wpc'[d] # "load" =>
         /\ KeyOf(d)' = KeyOf(d) /\ TypeOf(d)' = TypeOf(d) /\ wnote'[d] = wnote[d]
         /\ Paid(KeyOf(d)) => Paid(KeyOf(d))'
  BY <1>2, <1>3 DEF KeyOf, TypeOf, NoteOf, Paid, Of
<1>8. MarkedLater'
  BY <1>2, <1>3, <1>7 DEF GrantInv, MarkedLater
<1>9. GrantedWasPaid'
  <2>1. \A j \in Keys : grants'[j] > 0 => Paid(j)'
    BY <1>2, <1>5 DEF GrantInv, GrantedWasPaid, Paid
  <2>. QED  BY <2>1 DEF GrantedWasPaid, Paid
<1>10. PaidFirst'
  BY <1>2, <1>3, <1>4, <1>5, <1>7 DEF GrantInv, PaidFirst
<1>. QED  BY <1>6, <1>8, <1>9, <1>10 DEF GrantInv

\* Webhooks, their repetitions and reconciliation grant a purchase at most once
\* (GrantsOnce), only what was paid at the quoted price (GrantedWasPaid), and
\* entitlement_applied_at is never set for a purchase without its grant
\* (AppliedMeansGranted), whatever fails or stops.
THEOREM GrantSafety == Spec => []GrantsSound
<1>1. Init => TypeOK /\ GrantInv
  <2>1. Init => GrantInv
    BY DEF Init, GrantInv, GrantsOnce, AppliedMeansGranted, MarkedLater, GrantedWasPaid,
           PaidFirst, PostSettlement
  <2>. QED  BY <2>1, TypeInit
<1>2. TypeOK /\ GrantInv /\ [Next]_vars => (TypeOK /\ GrantInv)'
  BY TypeNext, Steps, GrantWebhook, GrantReconcile, GrantOther
<1>3. GrantInv => GrantsSound
  BY DEF GrantInv, GrantsSound
<1>. QED  BY <1>1, <1>2, <1>3, PTL DEF Spec
-----------------------------------------------------------------------------
(* Every step is a step of the promise, or a stutter *)

PaidKeys == {k \in Keys : Paid(k)}
GrantedKeys == {k \in Keys : grants[k] > 0}

\* The promise's step in the terms of the purchases.
LEMMA PromiseTerms ==
    /\ Promise!Next <=>
         \E k \in Keys :
            \/ k \notin PaidKeys /\ PaidKeys' = PaidKeys \cup {k} /\ UNCHANGED <<GrantedKeys, plan>>
            \/ /\ k \in PaidKeys \ GrantedKeys /\ Rank[k] > plan
               /\ GrantedKeys' = GrantedKeys \cup {k} /\ plan' = Rank[k]
               /\ UNCHANGED PaidKeys
    /\ UNCHANGED Promise!promiseVars <=> UNCHANGED <<PaidKeys, GrantedKeys, plan>>
BY DEF Promise!Next, Promise!Pay, Promise!Grant, Promise!Owed, Promise!promiseVars,
       PaidKeys, GrantedKeys, Paid

\* The licensing transaction for what was paid is a grant, or finds one.
LEMMA PromiseGrant ==
    ASSUME TypeOK, NEW k \in Keys, ActivatePurchase(k), Paid(k), UNCHANGED sent
    PROVE  Promise!Next \/ UNCHANGED Promise!promiseVars
<1>1. grants \in [Keys -> Nat]
  BY DEF TypeOK
<1>2. PaidKeys' = PaidKeys /\ k \in PaidKeys
  BY DEF PaidKeys, Paid
<1>3. CASE grants[k] > 0
  <2>1. UNCHANGED <<grants, plan>>
    BY <1>1, <1>3 DEF ActivatePurchase
  <2>. QED  BY <1>2, <2>1, PromiseTerms DEF GrantedKeys
<1>4. CASE grants[k] = 0
  <2>1. /\ Rank[k] > plan /\ plan' = Rank[k]
        /\ grants' = [grants EXCEPT ![k] = @ + 1]
    BY <1>4 DEF ActivatePurchase
  <2>2. k \notin GrantedKeys /\ GrantedKeys' = GrantedKeys \cup {k}
    BY <1>1, <1>4, <2>1 DEF GrantedKeys
  <2>. QED  BY <1>2, <2>1, <2>2, PromiseTerms
<1>. QED  BY <1>1, <1>3, <1>4

\* A completion at the quoted price pays; the provider's other notifications
\* change nothing that is promised.
LEMMA PromiseSend ==
    ASSUME TypeOK, NEW n \in Notes, Send(n)
    PROVE  Promise!Next \/ UNCHANGED Promise!promiseVars
<1>. DEFINE k == Note[n].key
<1>1. /\ sent' = sent \cup {n} /\ UNCHANGED <<GrantedKeys, plan>> /\ k \in Keys
  BY BillingAssumption DEF Send, eventVars, GrantedKeys
<1>2. CASE n \in Of(k, {"settled"}) \ Mismatched
  <2>1. Paid(k)' /\ \A j \in Keys : Paid(j)' <=> Paid(j) \/ j = k
    BY <1>1, <1>2 DEF Paid, Of
  <2>2. PaidKeys' = PaidKeys \cup {k}
    BY <1>1, <2>1 DEF PaidKeys
  <2>. QED  BY <1>1, <2>2, PromiseTerms DEF PaidKeys
<1>3. CASE n \notin Of(k, {"settled"}) \ Mismatched
  <2>1. \A j \in Keys : Paid(j)' <=> Paid(j)
    BY <1>1, <1>3 DEF Paid, Of
  <2>. QED  BY <1>1, <2>1, PromiseTerms DEF PaidKeys
<1>. QED  BY <1>2, <1>3

LEMMA PromiseStep ==
    ASSUME TypeOK, GrantInv, [Next]_vars
    PROVE  Promise!Next \/ UNCHANGED Promise!promiseVars
<1>. USE DEF rowVars, eventVars, providerVars, checkoutVars, webhookVars, reconcileVars
<1>1. CASE UNCHANGED <<grants, plan, sent>>
  BY <1>1, PromiseTerms DEF PaidKeys, GrantedKeys, Paid
<1>2. CASE \E n \in Notes : Send(n)
  BY <1>2, PromiseSend
<1>3. CASE \E d \in Deliveries : ApplyEntitlement(d)
  <2>1. PICK d \in Deliveries : ApplyEntitlement(d)
    BY <1>3
  <2>2. KeyOf(d) \in Keys /\ Paid(KeyOf(d)) /\ ActivatePurchase(KeyOf(d)) /\ UNCHANGED sent
    BY <2>1, RequestFacts DEF ApplyEntitlement, GrantInv, PaidFirst
  <2>. QED  BY <2>2, PromiseGrant
<1>4. CASE \E k \in Keys : ReconcileGrant(k)
  <2>1. PICK k \in Keys : ReconcileGrant(k)
    BY <1>4
  <2>2. Paid(k) /\ UNCHANGED sent
    BY <2>1 DEF ReconcileGrant, GrantInv, PaidFirst
  <2>3. ActivatePurchase(k) \/ UNCHANGED <<grants, plan>>
    BY <2>1 DEF ReconcileGrant
  <2>. QED  BY <1>1, <2>2, <2>3, PromiseGrant
<1>5. ASSUME NEW d \in Deliveries, WebhookMove(d), ~ApplyEntitlement(d)
      PROVE  UNCHANGED <<grants, plan, sent>>
  BY <1>5 DEF WebhookMove, WebhookStep, GetPurchase, UpdateStatus, SettlePurchase, ApplyRefused,
         MarkEntitlementApplied, RecordReversal, FlagEvent, RecordDisputeReversed, UnflagEvent,
         MarkProviderEventProcessed, MarkProviderEventFailed, FailDelivery, StopDelivery
<1>6. CASE UnappliedSettled \/ ReconcileMark \/ ReconcileDone \/ StopReconcile
  BY <1>1, <1>6 DEF UnappliedSettled, ReconcileMark, ReconcileDone, StopReconcile
<1>7. CASE \/ \E c \in Checkouts : CheckoutStep(c) \/ StopCheckout(c)
           \/ \E c \in Checkouts, k \in Keys : CreateCheckout(c, k)
           \/ \E d \in Deliveries, n \in Notes : InsertProviderEvent(d, n)
           \/ UNCHANGED vars
  BY <1>1, <1>7 DEF CheckoutStep, CreatePurchase, CreatePurchaseRefused, ProviderCheckout,
         UpdateCheckout, UndoPurchase, StopCheckout, CreateCheckout, InsertProviderEvent, vars
<1>. QED  BY <1>1, <1>2, <1>3, <1>4, <1>5, <1>6, <1>7, Steps DEF ReconcileStep

\* Checkouts, webhooks, their repetitions and reconciliation together do what
\* PurchasePromise says (KeepsPromise): a step pays, grants what was paid,
\* not yet granted and an upgrade, or changes nothing that is promised.
THEOREM PromiseKept == Spec => KeepsPromise
<1>1. Init => Promise!Init
  BY DEF Init, Promise!Init
<1>2. Init => TypeOK /\ GrantInv
  <2>1. Init => GrantInv
    BY DEF Init, GrantInv, GrantsOnce, AppliedMeansGranted, MarkedLater, GrantedWasPaid,
           PaidFirst, PostSettlement
  <2>. QED  BY <2>1, TypeInit
<1>3. TypeOK /\ GrantInv /\ [Next]_vars => (TypeOK /\ GrantInv)'
  BY TypeNext, Steps, GrantWebhook, GrantReconcile, GrantOther
<1>4. TypeOK /\ GrantInv /\ [Next]_vars => [Promise!Next]_(Promise!promiseVars)
  BY PromiseStep
<1>. QED  BY <1>1, <1>2, <1>3, <1>4, PTL DEF Spec, KeepsPromise, Promise!Spec
-----------------------------------------------------------------------------
(* Refunds stay within what was paid *)

\* Once a purchase has settled its total is what the provider charges, and a
\* handler's copy of the row is no better than the row.
TotalsKept ==
    /\ \A k \in Keys : total[k] \in {0, Total[k]}
    /\ \A k \in Keys : status[k] \in PostSettlement => total[k] = Total[k]
    /\ \A d \in Deliveries :
         wpc[d] \notin {"idle", "load", "nack"} =>
            \A r \in wrow[d] : r.refunded <= r.total /\ r.total <= total[KeyOf(d)]
    /\ \A d \in Deliveries :
         wpc[d] \in {"reverse", "restore"} =>
            \A r \in wrow[d] : r.total = Total[KeyOf(d)]

RefundInv == RefundedWithinTotal /\ TotalsKept

ChargesPositive == \A k \in Keys : Total[k] > 0

\* The rows: no total shrinks and no more is booked than was paid.
LEMMA RefundEffect ==
    ASSUME TypeOK, RefundInv, ChargesPositive, NEW d \in Deliveries, WebhookMove(d)
    PROVE  /\ \A j \in Keys : total[j] <= total'[j] /\ total'[j] \in {0, Total[j]}
           /\ \A j \in Keys : status'[j] \in PostSettlement => total'[j] = Total[j]
           /\ \A j \in Keys : refunded'[j] <= total'[j]
<1>. USE DEF rowVars
<1>. DEFINE k == KeyOf(d)
            r == ReadRow(d)
<1>1. /\ status \in [Keys -> Statuses] /\ total \in [Keys -> Nat] /\ refunded \in [Keys -> Nat]
      /\ wpc[d] # "idle" /\ k \in Keys /\ wnote[d] \in Notes /\ Total[k] \in Nat
      /\ \A j \in Keys : Total[j] \in Nat /\ Total[j] > 0
  BY WebhookFrame, RequestFacts, BillingAssumption DEF TypeOK, ChargesPositive
<1>2. /\ \A j \in Keys : total[j] \in {0, Total[j]} /\ refunded[j] <= total[j]
      /\ \A j \in Keys : status[j] \in PostSettlement => total[j] = Total[j]
  BY DEF RefundInv, TotalsKept, RefundedWithinTotal
<1>3. wpc[d] \in {"reverse", "restore"} =>
         /\ r \in Rows /\ r.total = Total[k] /\ r.refunded <= r.total /\ total[k] = Total[k]
  <2>1. wpc[d] \in {"reverse", "restore"} => r \in wrow[d] /\ r \in Rows
    BY <1>1, RequestFacts
  <2>. QED  BY <1>1, <1>2, <2>1 DEF RefundInv, TotalsKept, Rows
<1>4. CASE UNCHANGED <<status, total, refunded>>
  BY <1>1, <1>2, <1>4
<1>5. CASE UpdateStatus(d)
  BY <1>1, <1>2, <1>5 DEF UpdateStatus, PostSettlement
<1>6. CASE SettlePurchase(d)
  BY <1>1, <1>2, <1>6 DEF SettlePurchase, PostSettlement
<1>7. CASE RecordReversal(d)
  <2>1. Cumulative(wnote[d], r) \in Nat /\ Cumulative(wnote[d], r) <= Total[k]
    BY <1>1, <1>3, <1>7, ReversalFacts DEF RecordReversal
  <2>2. /\ \A j \in Keys \ {k} : status'[j] = status[j] /\ refunded'[j] = refunded[j]
        /\ refunded'[k] = Cumulative(wnote[d], r) /\ UNCHANGED total
        /\ total[k] = Total[k]
    BY <1>1, <1>3, <1>7 DEF RecordReversal
  <2>. QED  BY <1>1, <1>2, <2>1, <2>2
<1>8. CASE RecordDisputeReversed(d)
  <2>1. Remaining(wnote[d], r) \in Nat /\ Remaining(wnote[d], r) <= Total[k]
    <3>1. r \in Rows /\ r.refunded <= Total[k] /\ r.refunded \in Nat
      BY <1>3, <1>8 DEF RecordDisputeReversed, Rows
    <3>2. Remaining(wnote[d], r) \in Nat /\ Remaining(wnote[d], r) <= r.refunded
      BY <1>1, <3>1, ReversalFacts
    <3>. QED  BY <1>1, <3>1, <3>2
  <2>2. /\ \A j \in Keys \ {k} : status'[j] = status[j] /\ refunded'[j] = refunded[j]
        /\ refunded'[k] = Remaining(wnote[d], r) /\ UNCHANGED total
        /\ total[k] = Total[k]
    BY <1>1, <1>3, <1>8 DEF RecordDisputeReversed
  <2>. QED  BY <1>1, <1>2, <2>1, <2>2
<1>9. CASE ApplyEntitlement(d) \/ MarkEntitlementApplied(d)
  BY <1>4, <1>9 DEF ApplyEntitlement, MarkEntitlementApplied
<1>. QED  BY <1>4, <1>5, <1>6, <1>7, <1>8, <1>9, WebhookEffect

\* A handler's copy is the row at the time it was read.
LEMMA ReadTotals ==
    ASSUME TypeOK, RefundInv, NEW d \in Deliveries, GetPurchase(d)
    PROVE  /\ wrow'[d] = {RowOf(KeyOf(d))}
           /\ RowOf(KeyOf(d)).refunded <= RowOf(KeyOf(d)).total
           /\ RowOf(KeyOf(d)).total = total[KeyOf(d)]
           /\ wpc'[d] \in {"reverse", "restore"} =>
                 RowOf(KeyOf(d)).total = Total[KeyOf(d)]
<1>. DEFINE r == RowOf(KeyOf(d))
<1>1. /\ wpc[d] = "load" /\ KeyOf(d) \in Keys /\ TypeOf(d) \in NoteTypes
      /\ wpc \in [Deliveries -> {"idle"} \cup WebhookLabels]
      /\ wrow \in [Deliveries -> SUBSET Rows]
  BY RequestFacts DEF GetPurchase, TypeOK
<1>2. /\ r.status = status[KeyOf(d)] /\ r.total = total[KeyOf(d)]
      /\ r.refunded = refunded[KeyOf(d)]
  BY DEF RowOf
<1>3. wrow'[d] = {r}
  BY <1>1 DEF GetPurchase
<1>4. r.refunded <= r.total
  BY <1>1, <1>2 DEF RefundInv, RefundedWithinTotal
<1>5. wpc'[d] \in {"reverse", "restore"} => r.status \in PostSettlement
  <2>1. CASE TypeOf(d) = "settled"
    <3>1. wpc'[d] = SettlementNext(wnote[d], r)
      BY <1>1, <2>1 DEF GetPurchase, At
    <3>. QED  BY <3>1 DEF SettlementNext, PostSettlement
  <2>2. CASE TypeOf(d) \in {"failed", "canceled"}
    <3>1. wpc'[d] = FailureNext(wnote[d], r)
      BY <1>1, <2>2 DEF GetPurchase, At
    <3>. QED  BY <3>1 DEF FailureNext
  <2>3. CASE TypeOf(d) \in {"refunded", "disputed"}
    <3>1. wpc'[d] = ReversalNext(r)
      BY <1>1, <2>3 DEF GetPurchase, At
    <3>. QED  BY <3>1 DEF ReversalNext
  <2>4. CASE TypeOf(d) = "dispute_reversed"
    <3>1. wpc'[d] = DisputeReversedNext(r)
      BY <1>1, <2>4 DEF GetPurchase, At
    <3>. QED  BY <3>1 DEF DisputeReversedNext, PostSettlement
  <2>. QED  BY <1>1, <2>1, <2>2, <2>3, <2>4 DEF NoteTypes, Adjustments
<1>6. wpc'[d] \in {"reverse", "restore"} => r.total = Total[KeyOf(d)]
  BY <1>1, <1>2, <1>5 DEF RefundInv, TotalsKept
<1>. QED  BY <1>2, <1>3, <1>4, <1>6

LEMMA RefundWebhook ==
    ASSUME TypeOK, RefundInv, ChargesPositive, NEW d \in Deliveries, WebhookMove(d)
    PROVE  RefundInv'
<1>1. /\ \A j \in Keys : total[j] <= total'[j] /\ total'[j] \in {0, Total[j]}
      /\ \A j \in Keys : status'[j] \in PostSettlement => total'[j] = Total[j]
      /\ \A j \in Keys : refunded'[j] <= total'[j]
  BY RefundEffect
<1>2. ASSUME NEW e \in Deliveries, wpc'[e] \notin {"idle", "load", "nack"}, NEW r \in wrow'[e]
      PROVE  /\ r.refunded <= r.total /\ r.total <= total'[KeyOf(e)']
             /\ wpc'[e] \in {"reverse", "restore"} => r.total = Total[KeyOf(e)']
  <2>1. KeyOf(e)' = KeyOf(e) /\ KeyOf(e) \in Keys /\ wpc[e] # "idle"
    <3>1. wnote'[e] = wnote[e] /\ wpc[e] # "idle"
      BY <1>2, WebhookFrame
    <3>. QED  BY <3>1, RequestFacts DEF KeyOf, NoteOf
  <2>2. total[KeyOf(e)] \in Nat /\ total'[KeyOf(e)] \in Nat /\ total[KeyOf(e)] <= total'[KeyOf(e)]
    BY <1>1, <2>1, TypeNext DEF TypeOK, Next, WebhookMove
  <2>3. CASE e = d /\ GetPurchase(d)
    BY <1>2, <2>1, <2>2, <2>3, ReadTotals
  <2>4. CASE ~(e = d /\ GetPurchase(d))
    <3>1. wrow'[e] = wrow[e] /\ wpc[e] \notin {"idle", "load", "nack"}
          /\ (wpc'[e] \in {"reverse", "restore"} => wpc'[e] = wpc[e])
      <4>1. CASE e # d
        BY <1>2, <4>1, WebhookFrame
      <4>2. CASE e = d
        <5>1. /\ wrow'[d] = wrow[d] /\ wpc'[d] \notin {"reverse", "restore"}
              /\ wpc[d] \notin {"idle", "load", "nack"}
          BY <1>2, <2>4, <4>2, WebhookFrame
        <5>. QED  BY <1>2, <4>2, <5>1
      <4>. QED  BY <4>1, <4>2
    <3>2. r \in wrow[e] /\ r.total \in Nat /\ r.refunded \in Nat
      BY <1>2, <3>1 DEF TypeOK, Rows
    <3>3. /\ r.refunded <= r.total /\ r.total <= total[KeyOf(e)]
          /\ wpc'[e] \in {"reverse", "restore"} => r.total = Total[KeyOf(e)]
      BY <3>1, <3>2 DEF RefundInv, TotalsKept
    <3>. QED  BY <2>1, <2>2, <3>2, <3>3
  <2>. QED  BY <2>3, <2>4
<1>. QED  BY <1>1, <1>2 DEF RefundInv, TotalsKept, RefundedWithinTotal, KeyOf, NoteOf
\* Other steps: no total or amount changes, and no row is read.
LEMMA RefundOther ==
    ASSUME TypeOK, RefundInv,
           \/ \E c \in Checkouts : CheckoutStep(c) \/ StopCheckout(c)
           \/ ReconcileStep \/ StopReconcile
           \/ \E c \in Checkouts, k \in Keys : CreateCheckout(c, k)
           \/ \E n \in Notes : Send(n)
           \/ \E d \in Deliveries, n \in Notes : InsertProviderEvent(d, n)
           \/ UNCHANGED vars
    PROVE  RefundInv'
<1>. USE DEF rowVars, eventVars, providerVars, checkoutVars, webhookVars, reconcileVars
<1>1. /\ status \in [Keys -> Statuses] /\ wpc \in [Deliveries -> {"idle"} \cup WebhookLabels]
      /\ wnote \in [Deliveries -> Notes \cup {NoNote}]
      /\ \A c \in Checkouts : cpc[c] # "idle" => ckey[c] \in Keys
  BY DEF TypeOK
<1>2. UNCHANGED <<total, refunded, wrow>>
  BY DEF CheckoutStep, CreatePurchase, CreatePurchaseRefused, ProviderCheckout, UpdateCheckout,
         UndoPurchase, StopCheckout, CreateCheckout, Send, InsertProviderEvent, vars,
         ReconcileStep, UnappliedSettled, ReconcileGrant, ReconcileMark, ReconcileDone,
         StopReconcile
<1>3. \A d \in Deliveries : wpc'[d] = "load" \/ (wpc'[d] = wpc[d] /\ wnote'[d] = wnote[d])
  BY <1>1 DEF CheckoutStep, CreatePurchase, CreatePurchaseRefused, ProviderCheckout,
         UpdateCheckout, UndoPurchase, StopCheckout, CreateCheckout, Send,
         InsertProviderEvent, vars, At, ReconcileStep, UnappliedSettled, ReconcileGrant,
         ReconcileMark, ReconcileDone, StopReconcile
<1>4. \A j \in Keys : status'[j] \in PostSettlement => status[j] \in PostSettlement
  BY <1>1 DEF CheckoutStep, CreatePurchase, CreatePurchaseRefused, ProviderCheckout,
         UpdateCheckout, UndoPurchase, StopCheckout, CreateCheckout, Send,
         InsertProviderEvent, vars, ReconcileStep, UnappliedSettled, ReconcileGrant,
         ReconcileMark, ReconcileDone, StopReconcile, PostSettlement
<1>5. \A d \in Deliveries : wpc'[d] # "load" => KeyOf(d)' = KeyOf(d)
  BY <1>3 DEF KeyOf, NoteOf
<1>6. TotalsKept'
  BY <1>2, <1>3, <1>4, <1>5 DEF RefundInv, TotalsKept
<1>. QED  BY <1>2, <1>6 DEF RefundInv, RefundedWithinTotal

\* No more is booked as returned than was paid (RefundedWithinTotal), whichever
\* refunds, chargebacks and repetitions are handled at once and in whatever
\* order, provided that the provider charged something: a purchase with a total
\* of zero has no ceiling.
THEOREM RefundsBounded == ChargesPositive => (Spec => []RefundedWithinTotal)
<1>. SUFFICES ASSUME ChargesPositive  PROVE Spec => []RefundedWithinTotal
  OBVIOUS
<1>1. Init => TypeOK /\ RefundInv
  <2>1. Init => RefundInv
    BY DEF Init, RefundInv, RefundedWithinTotal, TotalsKept, PostSettlement
  <2>. QED  BY <2>1, TypeInit
<1>2. TypeOK /\ RefundInv /\ [Next]_vars => (TypeOK /\ RefundInv)'
  <2>. SUFFICES ASSUME TypeOK, RefundInv, [Next]_vars  PROVE RefundInv'
    BY TypeNext
  <2>1. CASE \E d \in Deliveries : WebhookMove(d)
    BY <2>1, RefundWebhook
  <2>2. CASE ~\E d \in Deliveries : WebhookMove(d)
    BY <2>2, Steps, RefundOther
  <2>. QED  BY <2>1, <2>2
<1>3. RefundInv => RefundedWithinTotal
  BY DEF RefundInv
<1>. QED  BY <1>1, <1>2, <1>3, PTL DEF Spec
-----------------------------------------------------------------------------
(* What was settled stays settled *)

\* What a handler does next, by its notification and the status that it reads.
LEMMA ReadSelects ==
    ASSUME TypeOK, NEW d \in Deliveries, GetPurchase(d)
    PROVE  LET s == status[KeyOf(d)]
           IN /\ TypeOf(d) = "settled" =>
                    IF s \in PostSettlement THEN wpc'[d] \in {"grant", "ack"}
                                            ELSE wpc'[d] \in {"settle", "nack"}
              /\ TypeOf(d) \in {"failed", "canceled"} =>
                    IF s \in PostSettlement THEN wpc'[d] = "ack"
                                            ELSE wpc'[d] \in {"write", "ack"}
              /\ TypeOf(d) \in {"refunded", "disputed"} =>
                    IF s \in PostSettlement THEN wpc'[d] = "reverse"
                                            ELSE wpc'[d] \in {"write", "ack"}
              /\ TypeOf(d) = "dispute_reversed" => wpc'[d] \in {"restore", "ack"}
<1>1. wpc \in [Deliveries -> {"idle"} \cup WebhookLabels] /\ wpc[d] = "load"
      /\ RowOf(KeyOf(d)).status = status[KeyOf(d)]
  BY DEF TypeOK, GetPurchase, RowOf
<1>2. CASE TypeOf(d) = "settled"
  <2>1. wpc'[d] = SettlementNext(wnote[d], RowOf(KeyOf(d)))
    BY <1>1, <1>2 DEF GetPurchase, At
  <2>. QED  BY <1>1, <1>2, <2>1 DEF SettlementNext, PostSettlement
<1>3. CASE TypeOf(d) \in {"failed", "canceled"}
  <2>1. wpc'[d] = FailureNext(wnote[d], RowOf(KeyOf(d)))
    BY <1>1, <1>3 DEF GetPurchase, At
  <2>. QED  BY <1>1, <1>3, <2>1 DEF FailureNext
<1>4. CASE TypeOf(d) \in {"refunded", "disputed"}
  <2>1. wpc'[d] = ReversalNext(RowOf(KeyOf(d)))
    BY <1>1, <1>4 DEF GetPurchase, At
  <2>. QED  BY <1>1, <1>4, <2>1 DEF ReversalNext, PostSettlement, Open
<1>5. CASE TypeOf(d) = "dispute_reversed"
  <2>1. wpc'[d] = DisputeReversedNext(RowOf(KeyOf(d)))
    BY <1>1, <1>5 DEF GetPurchase, At
  <2>. QED  BY <1>1, <1>5, <2>1 DEF DisputeReversedNext
<1>. QED  BY <1>1, <1>2, <1>3, <1>4, <1>5, RequestFacts DEF NoteTypes, Adjustments

\* Which step of a handler leads to which.
LEMMA WebhookPath ==
    ASSUME TypeOK, NEW d \in Deliveries, WebhookMove(d)
    PROVE  \/ GetPurchase(d)
           \/ UpdateStatus(d) /\ wpc[d] = "write" /\ wpc'[d] = "ack"
           \/ SettlePurchase(d) /\ wpc[d] = "settle" /\ wpc'[d] \in {"grant", "ack"}
           \/ ApplyEntitlement(d) /\ wpc[d] = "grant" /\ wpc'[d] = "mark"
           \/ ApplyRefused(d) /\ wpc[d] = "grant" /\ wpc'[d] = "nack"
           \/ MarkEntitlementApplied(d) /\ wpc[d] = "mark" /\ wpc'[d] = "ack"
           \/ RecordReversal(d) /\ wpc[d] = "reverse" /\ wpc'[d] = "flag"
           \/ FlagEvent(d) /\ wpc[d] = "flag" /\ wpc'[d] = "ack"
           \/ RecordDisputeReversed(d) /\ wpc[d] = "restore" /\ wpc'[d] = "unflag"
           \/ UnflagEvent(d) /\ wpc[d] = "unflag" /\ wpc'[d] = "ack"
           \/ MarkProviderEventProcessed(d) /\ wpc[d] = "ack" /\ wpc'[d] = "idle"
           \/ MarkProviderEventFailed(d) /\ wpc[d] = "nack" /\ wpc'[d] = "idle"
           \/ FailDelivery(d) /\ wpc[d] # "nack" /\ wpc'[d] = "nack" /\ failures' = failures + 1
           \/ StopDelivery(d) /\ wpc'[d] = "idle"
<1>1. wpc \in [Deliveries -> {"idle"} \cup WebhookLabels]
  BY DEF TypeOK
<1>2. CASE UpdateStatus(d) \/ SettlePurchase(d) \/ ApplyEntitlement(d) \/ ApplyRefused(d)
  BY <1>1, <1>2 DEF UpdateStatus, SettlePurchase, ApplyEntitlement, ApplyRefused, At
<1>3. CASE \/ MarkEntitlementApplied(d) \/ RecordReversal(d) \/ FlagEvent(d)
           \/ RecordDisputeReversed(d) \/ UnflagEvent(d)
  BY <1>1, <1>3 DEF MarkEntitlementApplied, RecordReversal, FlagEvent, RecordDisputeReversed,
                    UnflagEvent, At
<1>4. CASE \/ MarkProviderEventProcessed(d) \/ MarkProviderEventFailed(d)
           \/ FailDelivery(d) \/ StopDelivery(d)
  BY <1>1, <1>4 DEF MarkProviderEventProcessed, MarkProviderEventFailed, FailDelivery,
                    StopDelivery, Release, At
<1>. QED  BY <1>2, <1>3, <1>4 DEF WebhookMove, WebhookStep

\* Checkouts, the provider and reconciliation neither settle a purchase nor
\* unsettle one, book no money, and at most start a delivery.
LEMMA OtherFrame ==
    ASSUME TypeOK, OpenInv, [Next]_vars, ~\E d \in Deliveries : WebhookMove(d)
    PROVE  /\ \A k \in Keys : (status'[k] \in PostSettlement) = (status[k] \in PostSettlement)
           /\ \A k \in Keys : status'[k] = status[k] \/ status'[k] \notin PostSettlement
           /\ UNCHANGED <<refunded, total, wrow>>
           /\ sent \subseteq sent'
           /\ \/ UNCHANGED <<wpc, wnote, record>>
              \/ \E d \in Deliveries, n \in Notes : InsertProviderEvent(d, n)
           /\ failures <= failures' /\ failures' \in Nat
<1>. USE DEF rowVars, eventVars, providerVars, checkoutVars, webhookVars, reconcileVars, lossVars
<1>1. /\ status \in [Keys -> Statuses] /\ failures \in Nat /\ sent \subseteq Notes
      /\ \A c \in Checkouts : cpc[c] # "idle" => ckey[c] \in Keys
  BY BillingAssumption DEF TypeOK
<1>2. CASE \E c \in Checkouts : CheckoutStep(c) \/ StopCheckout(c)
  <2>1. PICK c \in Checkouts : CheckoutStep(c) \/ StopCheckout(c)
    BY <1>2
  <2>2. cpc[c] \in Holding => status[ckey[c]] = "pending"
    BY DEF OpenInv, CheckoutsHeld
  <2>3. UNCHANGED <<refunded, total, wrow, sent, wpc, wnote, record, failures>>
    BY <2>1 DEF CheckoutStep, CreatePurchase, CreatePurchaseRefused, ProviderCheckout,
                UpdateCheckout, UndoPurchase, StopCheckout
  <2>4. \A k \in Keys : \/ status'[k] = status[k]
                        \/ status[k] \notin PostSettlement /\ status'[k] \notin PostSettlement
    BY <1>1, <2>1, <2>2 DEF CheckoutStep, CreatePurchase, CreatePurchaseRefused,
           ProviderCheckout, UpdateCheckout, UndoPurchase, StopCheckout, Holding, PostSettlement
  <2>. QED  BY <1>1, <2>3, <2>4
<1>3. CASE ReconcileStep \/ StopReconcile
  BY <1>1, <1>3 DEF ReconcileStep, UnappliedSettled, ReconcileGrant, ReconcileMark,
                    ReconcileDone, StopReconcile
<1>4. CASE \/ \E c \in Checkouts, k \in Keys : CreateCheckout(c, k)
           \/ \E n \in Notes : Send(n)
           \/ UNCHANGED vars
  BY <1>1, <1>4 DEF CreateCheckout, Send, vars
<1>5. CASE \E d \in Deliveries, n \in Notes : InsertProviderEvent(d, n)
  <2>1. UNCHANGED <<status, refunded, total, wrow, sent, failures>>
    BY <1>5 DEF InsertProviderEvent
  <2>. QED  BY <1>1, <1>5, <2>1
<1>. QED  BY <1>2, <1>3, <1>4, <1>5, Steps

\* A request that is about to write a status decided so on a row that was not
\* settled.
DecidedOpen ==
    \A d \in Deliveries : wpc[d] = "write" => ReadRow(d).status \notin PostSettlement

LEMMA DecidedNext ==
    ASSUME TypeOK, OpenInv, DecidedOpen, [Next]_vars
    PROVE  DecidedOpen'
<1>1. CASE \E d \in Deliveries : WebhookMove(d)
  <2>1. PICK d \in Deliveries : WebhookMove(d)
    BY <1>1
  <2>2. ASSUME wpc'[d] = "write"  PROVE ReadRow(d)'.status \notin PostSettlement
    <3>1. GetPurchase(d)
      BY <2>1, <2>2, WebhookPath
    <3>2. TypeOf(d) \in NoteTypes /\ status[KeyOf(d)] \notin PostSettlement
      BY <2>1, <2>2, <3>1, ReadSelects, WebhookFrame, RequestFacts DEF NoteTypes, Adjustments
    <3>3. wrow'[d] = {RowOf(KeyOf(d))}
      BY <3>1 DEF GetPurchase, TypeOK
    <3>4. ReadRow(d)' = RowOf(KeyOf(d))
      BY <3>3 DEF ReadRow
    <3>. QED  BY <3>2, <3>4 DEF RowOf
  <2>3. \A e \in Deliveries \ {d} : wpc'[e] = wpc[e] /\ ReadRow(e)' = ReadRow(e)
    BY <2>1, WebhookFrame DEF ReadRow
  <2>. QED  BY <2>2, <2>3 DEF DecidedOpen
<1>2. CASE ~\E d \in Deliveries : WebhookMove(d)
  <2>1. \A e \in Deliveries : wpc'[e] = "write" => wpc[e] = "write"
    BY <1>2, OtherFrame DEF InsertProviderEvent, At, TypeOK
  <2>2. \A e \in Deliveries : ReadRow(e)' = ReadRow(e)
    BY <1>2, OtherFrame DEF ReadRow
  <2>. QED  BY <2>1, <2>2 DEF DecidedOpen
<1>. QED  BY <1>1, <1>2

LEMMA SettledStep ==
    ASSUME TypeOK, OpenInv, DecidedOpen, [Next]_vars, NEW k \in Keys,
           status[k] \in PostSettlement, status'[k] \notin PostSettlement
    PROVE  Overtaken(k)
<1>1. CASE \E d \in Deliveries : WebhookMove(d)
  <2>1. PICK d \in Deliveries : WebhookMove(d)
    BY <1>1
  <2>2. status \in [Keys -> Statuses] /\ KeyOf(d) \in Keys
    BY <2>1, WebhookFrame, RequestFacts DEF TypeOK
  <2>3. CASE UpdateStatus(d)
    <3>1. wpc[d] = "write" /\ wpc'[d] = "ack"
      BY <2>3 DEF UpdateStatus, At, TypeOK
    <3>2. k = KeyOf(d)
      BY <2>2, <2>3 DEF UpdateStatus
    <3>. QED  BY <3>1, <3>2 DEF DecidedOpen, Overtaken
  <2>4. CASE SettlePurchase(d) \/ RecordDisputeReversed(d)
    BY <2>2, <2>4 DEF SettlePurchase, RecordDisputeReversed, PostSettlement
  <2>5. CASE RecordReversal(d)
    <3>1. ReversalStatus(wnote[d], ReadRow(d)) \in PostSettlement
      BY DEF ReversalStatus, PostSettlement
    <3>. QED  BY <2>2, <2>5, <3>1 DEF RecordReversal
  <2>6. CASE UNCHANGED status
    BY <2>6
  <2>. QED
    BY <2>1, <2>3, <2>4, <2>5, <2>6, WebhookEffect
       DEF ApplyEntitlement, MarkEntitlementApplied, rowVars
<1>2. CASE ~\E d \in Deliveries : WebhookMove(d)
  BY <1>2, OtherFrame
<1>. QED  BY <1>1, <1>2

\* With any number of requests at once, a payment that settled is unsettled only
\* by the write of a handler that was overtaken (SettledStays): not by a failure,
\* a cancellation or an early reversal that is looked at later, nor by a checkout
\* that ends late.
THEOREM SettledIsKept == Spec => SettledStays
<1>1. Init => TypeOK /\ OpenInv /\ DecidedOpen
  <2>1. Init => OpenInv /\ DecidedOpen
    BY DEF Init, OpenInv, OneOpenPurchase, OpenPurchases, Open, CheckoutsHeld, CheckoutsApart,
           RowFirst, SentKnown, Holding, DecidedOpen
  <2>. QED  BY <2>1, TypeInit
<1>2. TypeOK /\ OpenInv /\ DecidedOpen /\ [Next]_vars => (TypeOK /\ OpenInv /\ DecidedOpen)'
  BY TypeNext, OpenNext, DecidedNext
<1>3. TypeOK /\ OpenInv /\ DecidedOpen /\ [Next]_vars =>
         [\A k \in Keys : status[k] \in PostSettlement /\ status'[k] \notin PostSettlement
                              => Overtaken(k)]_vars
  BY SettledStep
<1>. QED  BY <1>1, <1>2, <1>3, PTL DEF Spec, SettledStays
-----------------------------------------------------------------------------
(* What notifications amount to, and who handles them *)

Cells(ns) == UNION {{n} \X (1..Note[n].amount) : n \in ns}

\* A finite set amounts to a number, and its subsets to no more.
LEMMA AmountPart ==
    ASSUME NEW S, IsFiniteSet(Cells(S)), NEW T, T \subseteq S
    PROVE  IsFiniteSet(Cells(T)) /\ AmountOf(T) \in Nat /\ AmountOf(T) <= AmountOf(S)
<1>1. Cells(T) \in SUBSET Cells(S)
  BY DEF Cells
<1>2. IsFiniteSet(Cells(T)) /\ Cardinality(Cells(T)) <= Cardinality(Cells(S))
  BY <1>1, FS_Subset
<1>3. Cardinality(Cells(T)) \in Nat
  BY <1>2, FS_CardinalityType
<1>. QED  BY <1>2, <1>3 DEF AmountOf, Cells

\* A notification adds its amount, once.
LEMMA AmountAdd ==
    ASSUME NEW T, IsFiniteSet(Cells(T)), NEW n \in Notes
    PROVE  /\ IsFiniteSet(Cells(T \cup {n}))
           /\ AmountOf(T) \in Nat /\ AmountOf(T \cup {n}) \in Nat
           /\ AmountOf(T \cup {n}) <= AmountOf(T) + Note[n].amount
           /\ n \notin T => AmountOf(T \cup {n}) = AmountOf(T) + Note[n].amount
<1>. DEFINE a == Note[n].amount
            B == Cells(T)
            C == {n} \X (1..a)
<1>1. a \in Nat
  BY BillingAssumption
<1>2. Cells(T \cup {n}) = B \cup C
  BY DEF Cells
<1>3. n \notin T => B \cap C = {}
  BY DEF Cells
<1>4. IsFiniteSet(B) /\ Cardinality(B) \in Nat
  BY FS_CardinalityType
<1>. HIDE DEF a
<1>5. IsFiniteSet(1..a) /\ Cardinality(1..a) = a
  BY <1>1, FS_Interval
<1>6. IsFiniteSet({n}) /\ Cardinality({n}) = 1
  BY FS_Singleton
<1>7. IsFiniteSet(C) /\ Cardinality(C) = a
  <2>1. IsFiniteSet(C) /\ Cardinality(C) = Cardinality({n}) * Cardinality(1..a)
    BY <1>5, <1>6, FS_Product
  <2>. QED  BY <1>1, <1>5, <1>6, <2>1
<1>. HIDE DEF B, C
<1>8. IsFiniteSet(B \cap C) /\ Cardinality(B \cap C) \in Nat
  BY <1>4, FS_Intersection, FS_CardinalityType
<1>9. n \notin T => Cardinality(B \cap C) = 0
  BY <1>3, FS_EmptySet
<1>10. /\ IsFiniteSet(B \cup C)
       /\ Cardinality(B \cup C) = Cardinality(B) + Cardinality(C) - Cardinality(B \cap C)
  BY <1>4, <1>7, FS_Union
<1>11. AmountOf(T) = Cardinality(B) /\ AmountOf(T \cup {n}) = Cardinality(B \cup C)
  BY <1>2 DEF AmountOf, Cells, B
<1>12. /\ AmountOf(T) \in Nat /\ AmountOf(T \cup {n}) \in Nat
       /\ AmountOf(T \cup {n}) <= AmountOf(T) + a
       /\ n \notin T => AmountOf(T \cup {n}) = AmountOf(T) + a
  <2>1. Cardinality(B \cup C) \in Nat
    BY <1>10, FS_CardinalityType
  <2>. QED  BY <1>1, <1>4, <1>7, <1>8, <1>9, <1>10, <1>11, <2>1
<1>13. IsFiniteSet(Cells(T \cup {n}))
  BY <1>2, <1>10
<1>. QED  BY <1>12, <1>13 DEF a

LEMMA AmountNone == IsFiniteSet(Cells({})) /\ AmountOf({}) = 0
<1>1. Cells({}) = {}
  BY DEF Cells
<1>2. AmountOf({}) = Cardinality(Cells({}))
  BY DEF AmountOf, Cells
<1>. QED  BY <1>1, <1>2, FS_EmptySet

\* The provider's row of a notification, which only one request handles, and
\* the steps that a request takes for each type.
HandledOnce ==
    /\ IsFiniteSet(Cells(sent))
    /\ \A n \in Notes : record[n] # "none" => n \in sent
    /\ \A d \in Deliveries : wpc[d] # "idle" => record[wnote[d]] = "received"
    /\ \A d, e \in Deliveries :
         wpc[d] # "idle" /\ wpc[e] # "idle" /\ wnote[d] = wnote[e] => d = e
    /\ \A d \in Deliveries :
         /\ wpc[d] \in {"settle", "grant", "mark"} => TypeOf(d) = "settled"
         /\ wpc[d] \in {"reverse", "flag"} => TypeOf(d) \in {"refunded", "disputed"}
         /\ wpc[d] \in {"restore", "unflag"} => TypeOf(d) = "dispute_reversed"

LEMMA HandledInit == Init => HandledOnce
BY AmountNone DEF Init, HandledOnce

\* The row of a notification changes when a request takes it or ends with it.
LEMMA RecordStep ==
    ASSUME TypeOK, NEW d \in Deliveries, WebhookMove(d)
    PROVE  \/ UNCHANGED record
           \/ /\ MarkProviderEventProcessed(d) /\ wpc[d] = "ack" /\ wpc'[d] = "idle"
              /\ record' = [record EXCEPT ![wnote[d]] = "processed"]
           \/ /\ wpc[d] = "nack" /\ wpc'[d] = "idle"
              /\ record' = [record EXCEPT ![wnote[d]] = "failed"]
<1>. USE DEF providerVars
<1>1. CASE MarkProviderEventProcessed(d)
  BY <1>1 DEF MarkProviderEventProcessed, Release, At, TypeOK
<1>2. CASE MarkProviderEventFailed(d)
  BY <1>2 DEF MarkProviderEventFailed, Release, At, TypeOK
<1>3. CASE ~MarkProviderEventProcessed(d) /\ ~MarkProviderEventFailed(d)
  BY <1>3 DEF WebhookMove, WebhookStep, GetPurchase, UpdateStatus, SettlePurchase,
         ApplyEntitlement, ApplyRefused, MarkEntitlementApplied, RecordReversal, FlagEvent,
         RecordDisputeReversed, UnflagEvent, FailDelivery, StopDelivery
<1>. QED  BY <1>1, <1>2, <1>3

LEMMA HandledNext ==
    ASSUME TypeOK, OpenInv, HandledOnce, [Next]_vars
    PROVE  HandledOnce'
<1>. USE DEF HandledOnce
<1>1. /\ record \in [Notes -> {"none", "received", "failed", "processed"}]
      /\ wnote \in [Deliveries -> Notes \cup {NoNote}]
      /\ wpc \in [Deliveries -> {"idle"} \cup WebhookLabels] /\ sent \subseteq Notes
  BY DEF TypeOK
<1>2. CASE \E d \in Deliveries : WebhookMove(d)
  <2>1. PICK d \in Deliveries : WebhookMove(d)
    BY <1>2
  <2>2. /\ UNCHANGED sent /\ wpc[d] # "idle" /\ wnote[d] \in Notes /\ wnote[d] \in sent
        /\ \A e \in Deliveries \ {d} : wpc'[e] = wpc[e] /\ wnote'[e] = wnote[e]
        /\ wpc'[d] # "idle" => wnote'[d] = wnote[d]
    BY <2>1, WebhookFrame, RequestFacts
  <2>3. \A e \in Deliveries : wpc'[e] # "idle" => wpc[e] # "idle" /\ wnote'[e] = wnote[e]
    BY <2>2
  <2>4. \A n \in Notes : record'[n] # "none" => n \in sent'
    BY <1>1, <2>1, <2>2, RecordStep
  <2>5. ASSUME NEW e \in Deliveries, wpc'[e] # "idle"  PROVE record'[wnote'[e]] = "received"
    <3>1. record[wnote[e]] = "received" /\ wnote'[e] = wnote[e] /\ wpc[e] # "idle"
      BY <2>3, <2>5
    <3>2. wnote[e] \in Notes
      BY <3>1, RequestFacts
    <3>3. e = d \/ wnote[e] # wnote[d]
      BY <2>2, <3>1
    <3>. QED  BY <1>1, <2>1, <2>2, <2>5, <3>1, <3>2, <3>3, RecordStep
  <2>6. \A e, f \in Deliveries :
           wpc'[e] # "idle" /\ wpc'[f] # "idle" /\ wnote'[e] = wnote'[f] => e = f
    BY <2>3
  <2>7. ASSUME NEW e \in Deliveries
        PROVE  /\ wpc'[e] \in {"settle", "grant", "mark"} => TypeOf(e)' = "settled"
               /\ wpc'[e] \in {"reverse", "flag"} => TypeOf(e)' \in {"refunded", "disputed"}
               /\ wpc'[e] \in {"restore", "unflag"} => TypeOf(e)' = "dispute_reversed"
    <3>1. wpc'[e] # "idle" => TypeOf(e)' = TypeOf(e)
      BY <2>3 DEF TypeOf, NoteOf
    <3>2. CASE e # d
      BY <2>2, <3>1, <3>2
    <3>3. CASE e = d /\ GetPurchase(d)
      <4>1. TypeOf(d) \in NoteTypes
        BY <2>2, RequestFacts
      <4>. QED  BY <3>1, <3>3, <4>1, ReadSelects DEF NoteTypes, Adjustments
    <3>4. CASE e = d /\ ~GetPurchase(d)
      BY <2>1, <3>1, <3>4, WebhookPath
    <3>. QED  BY <3>2, <3>3, <3>4
  <2>. QED  BY <2>2, <2>4, <2>5, <2>6, <2>7
<1>3. CASE \E d \in Deliveries, n \in Notes : InsertProviderEvent(d, n)
  <2>1. PICK d \in Deliveries, n \in Notes : InsertProviderEvent(d, n)
    BY <1>3
  <2>2. /\ UNCHANGED sent /\ wpc[d] = "idle" /\ n \in sent /\ record[n] \in {"none", "failed"}
        /\ record' = [record EXCEPT ![n] = "received"]
        /\ wpc' = [wpc EXCEPT ![d] = "load"] /\ wnote' = [wnote EXCEPT ![d] = n]
    BY <2>1 DEF InsertProviderEvent, At
  <2>3. \A e \in Deliveries : wpc[e] # "idle" => wnote[e] \in Notes
    BY RequestFacts
  <2>4. \A e \in Deliveries : wpc[e] # "idle" => wnote[e] # n
    BY <2>2
  <2>5. \A e \in Deliveries \ {d} :
           /\ wpc'[e] = wpc[e] /\ wnote'[e] = wnote[e] /\ TypeOf(e)' = TypeOf(e)
    BY <1>1, <2>2 DEF TypeOf, NoteOf
  <2>6. wpc'[d] = "load" /\ wnote'[d] = n
    BY <1>1, <2>2
  <2>7. \A m \in Notes : record'[m] = IF m = n THEN "received" ELSE record[m]
    BY <1>1, <2>2
  <2>. QED  BY <2>2, <2>3, <2>4, <2>5, <2>6, <2>7
<1>4. CASE /\ ~\E d \in Deliveries : WebhookMove(d)
           /\ ~\E d \in Deliveries, n \in Notes : InsertProviderEvent(d, n)
  <2>1. UNCHANGED <<wpc, wnote, record>> /\ sent \subseteq sent'
    BY <1>4, OtherFrame
  <2>2. IsFiniteSet(Cells(sent'))
    <3>1. CASE UNCHANGED sent
      BY <3>1
    <3>2. CASE \E n \in Notes : Send(n)
      <4>1. PICK n \in Notes : sent' = sent \cup {n}
        BY <3>2 DEF Send
      <4>. QED  BY <4>1, AmountAdd
    <3>3. (\E n \in Notes : Send(n)) \/ UNCHANGED sent
      BY <1>4, Steps DEF CheckoutStep, CreatePurchase, CreatePurchaseRefused, ProviderCheckout,
         UpdateCheckout, UndoPurchase, StopCheckout, CreateCheckout, vars, ReconcileStep,
         UnappliedSettled, ReconcileGrant, ReconcileMark, ReconcileDone, StopReconcile,
         providerVars
    <3>. QED  BY <3>1, <3>2, <3>3
  <2>3. Cells(sent)' = Cells(sent')
    BY DEF Cells
  <2>4. \A e \in Deliveries : TypeOf(e)' = TypeOf(e)
    BY <2>1 DEF TypeOf, NoteOf
  <2>. QED  BY <2>1, <2>2, <2>3, <2>4
<1>. QED  BY <1>2, <1>3, <1>4
-----------------------------------------------------------------------------
(* No more is booked than the provider returned *)

\* Refunds and disputes say how much was returned; a notification without an
\* amount stands for the whole total, whatever was returned before.
AmountsGiven ==
    \A n \in Notes : Note[n].type \in {"refunded", "disputed"} => Note[n].amount > 0

\* Taken, and past the step that books it.
Waiting(n) == \E d \in Deliveries : wnote[d] = n /\ wpc[d] \in {"load", "reverse"}
Booked(k) == {n \in Of(k, {"refunded", "disputed"}) : record[n] # "none" /\ ~Waiting(n)}

\* As long as no statement failed no refund and no dispute is handled again; what
\* is booked, and what a handler has read of it, is covered by others.
BookedOnce ==
    failures = 0 =>
        /\ \A d \in Deliveries : wpc[d] = "nack" => TypeOf(d) = "settled"
        /\ \A n \in Notes : Note[n].type \in {"refunded", "disputed"} => record[n] # "failed"
        /\ \A k \in Keys : refunded[k] <= AmountOf(Booked(k))
        /\ \A d \in Deliveries, k \in Keys :
             wpc[d] \notin {"idle", "load", "nack"} /\ KeyOf(d) = k =>
                \A r \in wrow[d] : r.refunded <= AmountOf(Booked(k))

LEMMA BookedFinite ==
    ASSUME HandledOnce
    PROVE  \A k : /\ Booked(k) \subseteq sent /\ IsFiniteSet(Cells(Booked(k)))
                  /\ AmountOf(Booked(k)) \in Nat
<1>1. \A k : Booked(k) \subseteq sent
  BY DEF HandledOnce, Booked, Of
<1>. QED  BY <1>1, AmountPart DEF HandledOnce

\* More is booked with every step, when nothing failed.
LEMMA BookedGrows ==
    ASSUME TypeOK, OpenInv, HandledOnce, [Next]_vars, NEW k,
           \A n \in Notes : Note[n].type \in {"refunded", "disputed"} => record[n] # "failed"
    PROVE  Booked(k) \subseteq Booked(k)'
<1>1. /\ record \in [Notes -> {"none", "received", "failed", "processed"}]
      /\ wnote \in [Deliveries -> Notes \cup {NoNote}]
      /\ wpc \in [Deliveries -> {"idle"} \cup WebhookLabels]
  BY DEF TypeOK
<1>. SUFFICES ASSUME NEW n \in Booked(k)  PROVE n \in Booked(k)'
  OBVIOUS
<1>2. /\ n \in Of(k, {"refunded", "disputed"}) /\ n \in Notes /\ record[n] # "none"
      /\ record[n] # "failed" /\ ~Waiting(n)
  BY DEF Booked, Of
<1>3. CASE \E d \in Deliveries : WebhookMove(d)
  <2>1. PICK d \in Deliveries : WebhookMove(d)
    BY <1>3
  <2>2. record'[n] # "none"
    BY <1>1, <1>2, <2>1, RecordStep
  <2>3. ASSUME NEW e \in Deliveries, wnote'[e] = n, wpc'[e] \in {"load", "reverse"}
        PROVE  wnote[e] = n /\ wpc[e] \in {"load", "reverse"}
    <3>1. CASE e # d
      BY <2>1, <2>3, <3>1, WebhookFrame
    <3>2. CASE e = d
      BY <2>1, <2>3, <3>2, WebhookFrame, WebhookPath DEF GetPurchase
    <3>. QED  BY <3>1, <3>2
  <2>. QED  BY <1>2, <2>2, <2>3 DEF Booked, Waiting, Of
<1>4. CASE \E d \in Deliveries, m \in Notes : InsertProviderEvent(d, m)
  <2>1. PICK d \in Deliveries, m \in Notes : InsertProviderEvent(d, m)
    BY <1>4
  <2>2. /\ record[m] \in {"none", "failed"} /\ record' = [record EXCEPT ![m] = "received"]
        /\ wpc' = [wpc EXCEPT ![d] = "load"] /\ wnote' = [wnote EXCEPT ![d] = m]
    BY <2>1 DEF InsertProviderEvent, At
  <2>3. n # m
    BY <1>2, <2>2
  <2>. QED  BY <1>1, <1>2, <2>2, <2>3 DEF Booked, Waiting, Of
<1>5. CASE /\ ~\E d \in Deliveries : WebhookMove(d)
           /\ ~\E d \in Deliveries, m \in Notes : InsertProviderEvent(d, m)
  BY <1>2, <1>5, OtherFrame DEF Booked, Waiting, Of
<1>. QED  BY <1>3, <1>4, <1>5

\* What a request books is booked nowhere else.
LEMMA BookedNew ==
    ASSUME TypeOK, HandledOnce, NEW d \in Deliveries, RecordReversal(d),
           NEW n, n = wnote[d], NEW k, k = KeyOf(d)
    PROVE  n \in Notes /\ n \notin Booked(k) /\ n \in Booked(k)'
<1>1. wpc[d] = "reverse" /\ n \in Notes /\ Note[n].type \in {"refunded", "disputed"}
      /\ record[n] = "received"
  BY RequestFacts DEF RecordReversal, HandledOnce, TypeOf, NoteOf
<1>2. n \notin Booked(k)
  BY <1>1 DEF Booked, Waiting
<1>3. WebhookMove(d) /\ UNCHANGED <<record, wnote>> /\ wpc' = [wpc EXCEPT ![d] = "flag"]
  BY DEF RecordReversal, WebhookMove, WebhookStep, providerVars, At
<1>4. \A e \in Deliveries : wnote[e] = n /\ wpc'[e] # "idle" => e = d \/ wpc[e] = "idle"
  BY <1>1 DEF HandledOnce
<1>5. \A e \in Deliveries : wnote[e] = n => wpc'[e] \notin {"load", "reverse"}
  BY <1>1, <1>3, <1>4 DEF TypeOK
<1>6. k = Note[n].key
  BY DEF KeyOf, NoteOf
<1>. QED  BY <1>1, <1>2, <1>3, <1>5, <1>6 DEF Booked, Waiting, Of

LEMMA BookedNext ==
    ASSUME AmountsGiven, TypeOK, OpenInv, HandledOnce, BookedOnce, [Next]_vars
    PROVE  BookedOnce'
<1>1. HandledOnce' /\ TypeOK'
  BY HandledNext, TypeNext
<1>. SUFFICES ASSUME failures' = 0
              PROVE  /\ \A d \in Deliveries : wpc'[d] = "nack" => TypeOf(d)' = "settled"
                     /\ \A n \in Notes : Note[n].type \in {"refunded", "disputed"} =>
                                            record'[n] # "failed"
                     /\ \A k \in Keys : refunded'[k] <= AmountOf(Booked(k)')
                     /\ \A d \in Deliveries, k \in Keys :
                          wpc'[d] \notin {"idle", "load", "nack"} /\ KeyOf(d)' = k =>
                             \A r \in wrow'[d] : r.refunded <= AmountOf(Booked(k)')
  BY DEF BookedOnce, AmountOf
<1>2. /\ record \in [Notes -> {"none", "received", "failed", "processed"}]
      /\ wnote \in [Deliveries -> Notes \cup {NoNote}]
      /\ wpc \in [Deliveries -> {"idle"} \cup WebhookLabels]
      /\ wrow \in [Deliveries -> SUBSET Rows] /\ refunded \in [Keys -> Nat]
  BY DEF TypeOK
<1>3. failures = 0 /\ \A d \in Deliveries : ~FailDelivery(d)
  <2>1. failures \in Nat
    BY BillingAssumption DEF TypeOK
  <2>2. CASE \E d \in Deliveries : WebhookMove(d)
    BY <2>1, <2>2 DEF WebhookMove, WebhookStep, GetPurchase, UpdateStatus, SettlePurchase,
         ApplyEntitlement, ApplyRefused, MarkEntitlementApplied, RecordReversal, FlagEvent,
         RecordDisputeReversed, UnflagEvent, MarkProviderEventProcessed,
         MarkProviderEventFailed, FailDelivery, StopDelivery, lossVars
  <2>3. CASE ~\E d \in Deliveries : WebhookMove(d)
    <3>1. failures = 0
      BY <2>1, <2>3, OtherFrame
    <3>. QED  BY <2>3, <3>1 DEF WebhookMove
  <2>. QED  BY <2>2, <2>3
<1>4. /\ \A d \in Deliveries : wpc[d] = "nack" => TypeOf(d) = "settled"
      /\ \A n \in Notes : Note[n].type \in {"refunded", "disputed"} => record[n] # "failed"
      /\ \A k \in Keys : refunded[k] <= AmountOf(Booked(k))
      /\ \A d \in Deliveries, k \in Keys :
            wpc[d] \notin {"idle", "load", "nack"} /\ KeyOf(d) = k =>
               \A r \in wrow[d] : r.refunded <= AmountOf(Booked(k))
  BY <1>3 DEF BookedOnce
<1>5. \A k : /\ Booked(k) \subseteq Booked(k)'
             /\ IsFiniteSet(Cells(Booked(k)')) /\ IsFiniteSet(Cells(Booked(k)))
             /\ AmountOf(Booked(k)) \in Nat /\ AmountOf(Booked(k)') \in Nat
             /\ AmountOf(Booked(k)) <= AmountOf(Booked(k)')
  <2>1. \A k : Booked(k) \subseteq Booked(k)'
    BY <1>4, BookedGrows
  <2>2. IsFiniteSet(Cells(sent'))
    BY <1>1 DEF HandledOnce, Cells
  <2>3. \A k : Booked(k)' \subseteq sent'
    BY <1>1 DEF HandledOnce, Booked, Of
  <2>4. \A k : IsFiniteSet(Cells(Booked(k)')) /\ AmountOf(Booked(k)') \in Nat
    BY <2>2, <2>3, AmountPart
  <2>. QED  BY <2>1, <2>4, AmountPart, BookedFinite
<1>6. CASE \E d \in Deliveries : WebhookMove(d)
  <2>1. PICK d \in Deliveries : WebhookMove(d)
    BY <1>6
  <2>9. KeyOf(d) \in Keys /\ wnote[d] \in Notes
    BY <2>1, WebhookFrame, RequestFacts
  <2>10. PICK k \in Keys, n \in Notes : k = KeyOf(d) /\ n = wnote[d]
    BY <2>9
  <2>2. /\ wpc[d] # "idle" /\ TypeOf(d) \in NoteTypes
        /\ \A e \in Deliveries \ {d} :
              wpc'[e] = wpc[e] /\ wnote'[e] = wnote[e] /\ wrow'[e] = wrow[e]
        /\ wpc'[d] # "idle" => wnote'[d] = n
    BY <2>1, <2>10, WebhookFrame, RequestFacts
  <2>3. \A e \in Deliveries : wpc'[e] # "idle" =>
           wpc[e] # "idle" /\ KeyOf(e)' = KeyOf(e) /\ TypeOf(e)' = TypeOf(e) /\ KeyOf(e) \in Keys
    BY <2>2, <2>10, RequestFacts DEF KeyOf, TypeOf, NoteOf
  <2>4. \A e \in Deliveries : wpc'[e] = "nack" => TypeOf(e)' = "settled"
    <3>1. wpc'[d] = "nack" => TypeOf(d) = "settled"
      BY <1>3, <2>1, <2>2, WebhookPath, ReadSelects DEF HandledOnce, NoteTypes, Adjustments
    <3>. QED  BY <1>4, <2>2, <2>3, <3>1
  <2>5. \A m \in Notes : Note[m].type \in {"refunded", "disputed"} => record'[m] # "failed"
    BY <1>2, <1>4, <2>1, <2>9, RecordStep DEF TypeOf, NoteOf
  <2>6. \A j \in Keys : refunded'[j] <= AmountOf(Booked(j)')
    <3>1. CASE RecordReversal(d)
      <4>1. ReadRow(d) \in wrow[d] /\ ReadRow(d) \in Rows /\ wpc[d] = "reverse"
        BY <2>2, <3>1, RequestFacts DEF RecordReversal
      <4>2. ReadRow(d).refunded \in Nat /\ ReadRow(d).total \in Nat
            /\ ReadRow(d).refunded <= AmountOf(Booked(k))
        BY <1>4, <2>10, <4>1 DEF Rows
      <4>3. Note[n].amount \in Nat /\ Note[n].amount > 0
        BY <2>10, <4>1, BillingAssumption DEF AmountsGiven, HandledOnce, TypeOf, NoteOf
      <4>4. Cumulative(n, ReadRow(d)) <= ReadRow(d).refunded + Note[n].amount
        BY <4>2, <4>3 DEF Cumulative, Returned
      <4>5. n \notin Booked(k) /\ n \in Booked(k)'
        BY <2>10, <3>1, BookedNew
      <4>6. /\ AmountOf(Booked(k) \cup {n}) = AmountOf(Booked(k)) + Note[n].amount
            /\ AmountOf(Booked(k) \cup {n}) <= AmountOf(Booked(k)')
        <5>1. AmountOf(Booked(k) \cup {n}) = AmountOf(Booked(k)) + Note[n].amount
          BY <1>5, <4>5, AmountAdd
        <5>2. Booked(k) \cup {n} \subseteq Booked(k)'
          BY <1>5, <4>5
        <5>. QED  BY <1>5, <5>1, <5>2, AmountPart
      <4>7. Cumulative(n, ReadRow(d)) \in Nat
        BY <4>1, ReversalFacts
      <4>8. Cumulative(n, ReadRow(d)) <= AmountOf(Booked(k)')
        BY <1>5, <4>2, <4>3, <4>4, <4>6, <4>7
      <4>9. refunded' = [refunded EXCEPT ![k] = Cumulative(n, ReadRow(d))]
        BY <2>10, <3>1 DEF RecordReversal
      <4>. QED  BY <1>2, <1>4, <1>5, <4>8, <4>9
    <3>2. CASE RecordDisputeReversed(d)
      <4>1. ReadRow(d) \in wrow[d] /\ ReadRow(d) \in Rows /\ wpc[d] = "restore"
        BY <2>2, <3>2, RequestFacts DEF RecordDisputeReversed
      <4>2. ReadRow(d).refunded \in Nat /\ ReadRow(d).refunded <= AmountOf(Booked(k))
        BY <1>4, <2>10, <4>1 DEF Rows
      <4>3. Remaining(n, ReadRow(d)) \in Nat /\ Remaining(n, ReadRow(d)) <= ReadRow(d).refunded
        BY <4>1, ReversalFacts
      <4>4. refunded' = [refunded EXCEPT ![k] = Remaining(n, ReadRow(d))]
        BY <2>10, <3>2 DEF RecordDisputeReversed
      <4>. QED  BY <1>2, <1>4, <1>5, <4>2, <4>3, <4>4
    <3>3. CASE UNCHANGED refunded
      BY <1>2, <1>4, <1>5, <3>3
    <3>. QED
      BY <2>1, <3>1, <3>2, <3>3, WebhookEffect DEF UpdateStatus, SettlePurchase,
         ApplyEntitlement, MarkEntitlementApplied, rowVars
  <2>7. ASSUME NEW e \in Deliveries, wpc'[e] \notin {"idle", "load", "nack"}, NEW r \in wrow'[e],
               NEW j \in Keys, KeyOf(e)' = j
        PROVE  r.refunded <= AmountOf(Booked(j)')
    <3>1. KeyOf(e) = j /\ wpc[e] # "idle"
      BY <2>3, <2>7
    <3>2. CASE e = d /\ GetPurchase(d)
      <4>1. r.refunded = refunded[j]
        BY <1>2, <2>7, <3>1, <3>2 DEF GetPurchase, RowOf
      <4>. QED  BY <1>2, <1>4, <1>5, <3>1, <4>1
    <3>3. CASE ~(e = d /\ GetPurchase(d))
      <4>1. wrow'[e] = wrow[e] /\ wpc[e] \notin {"idle", "load", "nack"}
        BY <2>1, <2>2, <2>7, <3>3, WebhookFrame
      <4>2. r.refunded <= AmountOf(Booked(j)) /\ r.refunded \in Nat
        BY <1>2, <1>4, <2>7, <3>1, <4>1 DEF Rows
      <4>. QED  BY <1>5, <3>1, <4>2
    <3>. QED  BY <3>2, <3>3
  <2>. QED  BY <2>3, <2>4, <2>5, <2>6, <2>7
<1>7. CASE ~\E d \in Deliveries : WebhookMove(d)
  <2>1. UNCHANGED <<refunded, wrow>>
    BY <1>7, OtherFrame
  <2>2. \A e \in Deliveries :
           \/ wpc'[e] = wpc[e] /\ wnote'[e] = wnote[e] /\ KeyOf(e)' = KeyOf(e)
              /\ TypeOf(e)' = TypeOf(e)
           \/ wpc'[e] = "load"
    BY <1>2, <1>7, OtherFrame DEF InsertProviderEvent, At, KeyOf, TypeOf, NoteOf
  <2>3. \A m \in Notes : record'[m] = "failed" => record[m] = "failed"
    BY <1>2, <1>7, OtherFrame DEF InsertProviderEvent
  <2>4. \A j \in Keys : refunded'[j] <= AmountOf(Booked(j)')
    BY <1>2, <1>4, <1>5, <2>1
  <2>5. ASSUME NEW e \in Deliveries, wpc'[e] \notin {"idle", "load", "nack"}, NEW r \in wrow'[e],
               NEW j \in Keys, KeyOf(e)' = j
        PROVE  r.refunded <= AmountOf(Booked(j)')
    <3>1. r \in wrow[e] /\ wpc[e] \notin {"idle", "load", "nack"} /\ KeyOf(e) = j
      BY <2>1, <2>2, <2>5
    <3>2. r.refunded <= AmountOf(Booked(j)) /\ r.refunded \in Nat
      BY <1>2, <1>4, <3>1 DEF Rows
    <3>. QED  BY <1>5, <3>1, <3>2
  <2>. QED  BY <1>4, <2>2, <2>3, <2>4, <2>5
<1>. QED  BY <1>6, <1>7

\* No more is booked as returned than the provider returned, however often it
\* says so and in however many requests at once, as long as nothing failed
\* (RefundsOnce), if refunds and disputes say how much they return.
THEOREM RefundsBookedOnce == AmountsGiven => (Spec => []RefundsOnce)
<1>. SUFFICES ASSUME AmountsGiven  PROVE Spec => []RefundsOnce
  OBVIOUS
<1>1. Init => TypeOK /\ OpenInv /\ HandledOnce /\ BookedOnce
  <2>. SUFFICES ASSUME Init  PROVE TypeOK /\ OpenInv /\ HandledOnce /\ BookedOnce
    OBVIOUS
  <2>1. OpenInv
    BY DEF Init, OpenInv, OneOpenPurchase, OpenPurchases, Open, CheckoutsHeld, CheckoutsApart,
           RowFirst, SentKnown, Holding
  <2>2. \A k : AmountOf(Booked(k)) \in Nat
    BY HandledInit, BookedFinite
  <2>3. BookedOnce
    BY <2>2 DEF Init, BookedOnce
  <2>. QED  BY <2>1, <2>3, TypeInit, HandledInit
<1>2. TypeOK /\ OpenInv /\ HandledOnce /\ BookedOnce /\ [Next]_vars
        => (TypeOK /\ OpenInv /\ HandledOnce /\ BookedOnce)'
  BY TypeNext, OpenNext, HandledNext, BookedNext
<1>3. TypeOK /\ HandledOnce /\ BookedOnce => RefundsOnce
  <2>. SUFFICES ASSUME TypeOK, HandledOnce, BookedOnce, failures = 0, NEW k \in Keys
                PROVE  refunded[k] <= AmountOf(Of(k, {"refunded", "disputed"}) \cap sent)
    BY DEF RefundsOnce
  <2>. DEFINE S == Of(k, {"refunded", "disputed"}) \cap sent
  <2>1. Booked(k) \subseteq S /\ S \subseteq sent
    BY BookedFinite DEF Booked
  <2>2. IsFiniteSet(Cells(S)) /\ AmountOf(S) \in Nat
    BY <2>1, AmountPart DEF HandledOnce
  <2>3. AmountOf(Booked(k)) \in Nat /\ AmountOf(Booked(k)) <= AmountOf(S)
    BY <2>1, <2>2, AmountPart
  <2>4. refunded[k] \in Nat /\ refunded[k] <= AmountOf(Booked(k))
    BY DEF TypeOK, BookedOnce
  <2>. QED  BY <2>2, <2>3, <2>4
<1>. QED  BY <1>1, <1>2, <1>3, PTL DEF Spec
=============================================================================
