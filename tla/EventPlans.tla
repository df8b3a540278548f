---------------------------- MODULE EventPlans ----------------------------
(***************************************************************************)
(* The plans of one host's events: how each is granted, by whom, what the  *)
(* event's row and its storage window become, and at what price upgrades   *)
(* are quoted meanwhile.                                                   *)
(*                                                                         *)
(*   internal/entitlement/repository.go, grant_service.go, provision.go,   *)
(*   license.go; internal/billing/pricing.go, gorm_repository.go           *)
(*   cmd/planctl/main.go: grant, revoke, backfill-legacy, reconcile,       *)
(*   billing-reconcile                                                     *)
(*                                                                         *)
(* A change of grants is one transaction under the lock of the event row,  *)
(* hence one step.  Billing models how a purchase comes to be settled;     *)
(* here it just is.  The audit trail, which nothing reads, is left out.    *)
(***************************************************************************)
EXTENDS Pricing, FiniteSets, FiniteSetsExt

CONSTANTS
    EventIds,
    OldEvents,     \* those made before there were plans
    Dates,         \* days an event may be on
    Tickets,       \* source references an operator types
    MaxPurchases,  \* bound: purchases of the host
    MaxTime,       \* bound: days that pass
    MaxChanges,    \* bound: steps of the operator, moved dates, deletions
    LegacyBytes    \* max_media_bytes of an event before it has a plan

Legacy == 2    \* plan that backfill-legacy grants: experience

ASSUME EventPlansAssumption ==
    /\ EventIds \subseteq Nat /\ OldEvents \subseteq EventIds /\ Dates \subseteq Nat
    /\ MaxPurchases \in Nat /\ MaxTime \in Nat /\ MaxChanges \in Nat
    /\ LegacyBytes \in Nat /\ Legacy \in Ranks

VARIABLES
    clock,
    status,     \* of an event: "none", "live" or "deleted"
    date,       \* its event_date
    grants,     \* its grants, oldest first
    row,        \* its hot limits
    purchases,  \* of the host, oldest first
    quote,      \* the checkout in progress: event and quote
    listed,     \* events, purchases: what a planctl run has yet to visit
    changes

eventVars == <<status, date>>
grantVars == <<grants, row>>
vars == <<clock, eventVars, grantVars, purchases, quote, listed, changes>>

Purchases == DOMAIN purchases

-----------------------------------------------------------------------------
(* Grants *)

With(e, s) == {i \in DOMAIN grants[e] : grants[e][i].status = s}
HasGrant(e) == With(e, "active") # {}
ActiveIndex(e) == CHOOSE i \in With(e, "active") : TRUE
ActiveGrant(e) == grants[e][ActiveIndex(e)]
HeldRank(e) == {grants[e][i].rank : i \in With(e, "active")}

\* The unique index on source and reference, over all events.
RefUsed(source, ref) ==
    \E e \in EventIds : \E i \in DOMAIN grants[e] :
        grants[e][i].source = source /\ grants[e][i].ref = ref

\* applyHotLimits: a plan without a byte limit leaves the event's own.
HotLimits(e, r) ==
    [items |-> Plans[r].items,
     bytes |-> IF Plans[r].bytes > 0 THEN Plans[r].bytes ELSE row[e].bytes]

Superseded(g) == IF g.status = "active" THEN [g EXCEPT !.status = "superseded"] ELSE g

\* Variant: the window of the new plan alone.
WindowOfPlan(e, at, r) == Expiry(date[e], at, r)

\* An upgrade never shortens the window of the plan it replaces.
Window(e, at, r) ==
    IF HasGrant(e) THEN Later(Expiry(date[e], at, r), ActiveGrant(e).until)
    ELSE Expiry(date[e], at, r)

\* writeGrant: the active grant is superseded, the new one inserted, and its
\* limits copied to the event row.
WriteGrant(e, r, source, ref, at) ==
    /\ grants' = [grants EXCEPT ![e] =
           Append([i \in DOMAIN @ |-> Superseded(@[i])],
                  [rank |-> r, source |-> source, ref |-> ref, status |-> "active",
                   at |-> at, until |-> Window(e, at, r)])]
    /\ row' = [row EXCEPT ![e] = HotLimits(e, r)]

\* What Activate checks once it has the lock; a deleted event passes.
Activable(e, r, source, ref) ==
    /\ status[e] # "none"
    /\ ~RefUsed(source, ref)
    /\ Upward(HeldRank(e), r)

-----------------------------------------------------------------------------
(* Events *)

Counted == changes < MaxChanges /\ changes' = changes + 1

\* Provisioner: the event and its Free grant in one transaction.
Provision(e, d) ==
    /\ status[e] = "none"
    /\ status' = [status EXCEPT ![e] = "live"]
    /\ date' = [date EXCEPT ![e] = d]
    /\ grants' = [grants EXCEPT ![e] =
           <<[rank |-> Free, source |-> "system", ref |-> e, status |-> "active",
              at |-> clock, until |-> Expiry(d, clock, Free)]>>]
    /\ row' = [row EXCEPT ![e] = HotLimits(e, Free)]
    /\ UNCHANGED <<clock, purchases, quote, listed, changes>>

UpdateDate(e, d) ==
    /\ status[e] = "live" /\ date[e] # d
    /\ Counted
    /\ date' = [date EXCEPT ![e] = d]
    /\ UNCHANGED <<clock, status, grantVars, purchases, quote, listed>>

Delete(e) ==
    /\ status[e] = "live"
    /\ Counted
    /\ status' = [status EXCEPT ![e] = "deleted"]
    /\ UNCHANGED <<clock, date, grantVars, purchases, quote, listed>>

Tick ==
    /\ clock < MaxTime
    /\ clock' = clock + 1
    /\ UNCHANGED <<eventVars, grantVars, purchases, quote, listed, changes>>

-----------------------------------------------------------------------------
(* The operator *)

\* planctl grant: a sellable plan, by hand or as a promotion.
Grant(e, r, ticket) ==
    /\ Sellable(r)
    /\ Activable(e, r, "manual", ticket)
    /\ Counted
    /\ WriteGrant(e, r, "manual", ticket, clock)
    /\ UNCHANGED <<clock, eventVars, purchases, quote, listed>>

\* Variants: the limits stay those of the plan revoked; the first grant of
\* the event comes back.
RevokeLimitsKept(e) ==
    /\ HasGrant(e) /\ With(e, "superseded") # {}
    /\ Counted
    /\ LET back == Max(With(e, "superseded"))
       IN grants' = [grants EXCEPT ![e][ActiveIndex(e)].status = "revoked",
                                   ![e][back].status = "active"]
    /\ UNCHANGED <<clock, eventVars, row, purchases, quote, listed>>
RevokeToFirst(e) ==
    /\ HasGrant(e) /\ With(e, "superseded") # {}
    /\ Counted
    /\ LET back == Min(With(e, "superseded"))
       IN /\ grants' = [grants EXCEPT ![e][ActiveIndex(e)].status = "revoked",
                                      ![e][back].status = "active"]
          /\ row' = [row EXCEPT ![e] = HotLimits(e, grants[e][back].rank)]
    /\ UNCHANGED <<clock, eventVars, purchases, quote, listed>>

\* The superseded grant last activated, and of those the last made.
Newest(e, s) ==
    CHOOSE i \in s : \A j \in s :
        \/ grants[e][j].at < grants[e][i].at
        \/ grants[e][j].at = grants[e][i].at /\ j <= i

\* planctl revoke: without a plan to go back to nothing is revoked.
Revoke(e) ==
    /\ HasGrant(e) /\ With(e, "superseded") # {}
    /\ Counted
    /\ LET back == Newest(e, With(e, "superseded"))
       IN /\ grants' = [grants EXCEPT ![e][ActiveIndex(e)].status = "revoked",
                                      ![e][back].status = "active"]
          /\ row' = [row EXCEPT ![e] = HotLimits(e, grants[e][back].rank)]
    /\ UNCHANGED <<clock, eventVars, purchases, quote, listed>>

NothingListed == [events |-> {}, purchases |-> {}]

\* backfill-legacy lists events that have no grant or a Free one ...
BackfillCandidates ==
    /\ listed = NothingListed
    /\ LET found == {e \in EventIds : status[e] # "none" /\ HeldRank(e) \subseteq {Free}}
       IN /\ found # {}
          /\ listed' = [events |-> found, purchases |-> {}]
    /\ Counted
    /\ UNCHANGED <<clock, eventVars, grantVars, purchases, quote>>

\* ... and visits them in order; one that was upgraded since fails, and goes on.
BackfillVisit ==
    /\ listed.events # {}
    /\ LET e == Min(listed.events)
       IN /\ listed' = [listed EXCEPT !.events = @ \ {e}]
          /\ IF Activable(e, Legacy, "migration", e)
               THEN WriteGrant(e, Legacy, "migration", e, clock)
               ELSE UNCHANGED grantVars
    /\ UNCHANGED <<clock, eventVars, purchases, quote, changes>>

-----------------------------------------------------------------------------
(* Purchases *)

Of(e, ss) == {p \in Purchases : purchases[p].event = e /\ purchases[p].status \in ss}

\* HasEligibleCommercialPurchase: loyalty is earned on another event.
Eligible(e) ==
    \E p \in Purchases : /\ purchases[p].event # e /\ purchases[p].status = "settled"
                         /\ purchases[p].terms.final > 0

\* LatestEventPurchase
LatestEventPurchase(e) ==
    LET s == Of(e, {"settled", "refunded"})
    IN {purchases[p] : p \in {p \in s : \A q \in s :
           \/ purchases[q].settledAt < purchases[p].settledAt
           \/ purchases[q].settledAt = purchases[p].settledAt /\ q <= p}}

NoQuote == [event |-> 0]

\* QuoteEventPurchase, then the check for an open purchase.
QuoteEventPurchase(e, r) ==
    /\ quote = NoQuote
    /\ Sellable(r)
    /\ status[e] = "live" /\ HasGrant(e)
    /\ Upward(HeldRank(e), r)
    /\ Of(e, {"open"}) = {}
    /\ LET held == ActiveGrant(e).rank
           terms == IF ~Sellable(held) THEN QuoteNewPurchase(Eligible(e), r)
                    ELSE QuoteUpgrade(LatestEventPurchase(e), Eligible(e), held, r)
       IN quote' = [event |-> e, terms |-> terms]
    /\ UNCHANGED <<clock, eventVars, grantVars, purchases, listed, changes>>

\* The unique index admits one open purchase of an event.
CreatePurchase ==
    /\ quote # NoQuote
    /\ quote' = NoQuote
    /\ IF Of(quote.event, {"open"}) = {} /\ Len(purchases) < MaxPurchases
         THEN purchases' = Append(purchases,
                  [event |-> quote.event, terms |-> quote.terms, status |-> "open",
                   license |-> "none", applied |-> FALSE, settledAt |-> 0])
         ELSE UNCHANGED purchases
    /\ UNCHANGED <<clock, eventVars, grantVars, listed, changes>>

\* Payment is confirmed.  A checkout that ends unpaid (Billing) leaves what
\* one that was never made does.
SettlePurchase(p) ==
    /\ purchases[p].status = "open"
    /\ purchases' = [purchases EXCEPT ![p].status = "settled", ![p].settledAt = clock]
    /\ UNCHANGED <<clock, eventVars, grantVars, quote, listed, changes>>

\* A full refund withdraws a license that was not used; the grant stays.
Refund(p) ==
    /\ purchases[p].status = "settled"
    /\ Counted
    /\ purchases' = [purchases EXCEPT ![p].status = "refunded"]
    /\ UNCHANGED <<clock, eventVars, grantVars, quote, listed>>

EventConsumed(e) ==
    \E p \in Purchases : purchases[p].event = e /\ purchases[p].license = "consumed"

\* ActivatePurchase: license and grant in one transaction.  The index on
\* consumed licenses admits one of an event.
ActivatePurchase(p) ==
    LET e == purchases[p].event
        r == purchases[p].terms.rank
    IN  /\ purchases[p].status = "settled" /\ ~purchases[p].applied
        /\ purchases[p].license = "none" /\ ~EventConsumed(e)
        /\ status[e] = "live" /\ Upward(HeldRank(e), r)
        /\ WriteGrant(e, r, "purchase", p, purchases[p].settledAt)
        /\ purchases' = [purchases EXCEPT ![p].license = "consumed"]
        /\ UNCHANGED <<clock, eventVars, quote, listed, changes>>

\* A step of its own: the process may stop before it.
MarkEntitlementApplied(p) ==
    /\ purchases[p].status = "settled" /\ ~purchases[p].applied
    /\ purchases[p].license = "consumed"
    /\ purchases' = [purchases EXCEPT ![p].applied = TRUE]
    /\ UNCHANGED <<clock, eventVars, grantVars, quote, listed, changes>>

\* planctl billing-reconcile lists the purchases that are paid and not marked ...
UnappliedSettled ==
    /\ listed = NothingListed
    /\ LET found == {p \in Purchases : purchases[p].status = "settled" /\ ~purchases[p].applied}
       IN /\ found # {}
          /\ listed' = [events |-> {}, purchases |-> found]
    /\ Counted
    /\ UNCHANGED <<clock, eventVars, grantVars, purchases, quote>>

\* ... grants each as an external source, without a license ...
BillingReconcileGrant ==
    /\ listed.purchases # {}
    /\ LET p == Min(listed.purchases)
       IN IF Activable(purchases[p].event, purchases[p].terms.rank, "external", p)
            THEN /\ WriteGrant(purchases[p].event, purchases[p].terms.rank, "external", p,
                               purchases[p].settledAt)
                 /\ UNCHANGED listed
            ELSE /\ ~RefUsed("external", p)
                 /\ listed' = [listed EXCEPT !.purchases = @ \ {p}]
                 /\ UNCHANGED grantVars
    /\ UNCHANGED <<clock, eventVars, purchases, quote, changes>>

\* ... and marks what is granted, by itself or by a run before.
BillingReconcileMark ==
    /\ listed.purchases # {}
    /\ LET p == Min(listed.purchases)
       IN /\ RefUsed("external", p)
          /\ listed' = [listed EXCEPT !.purchases = @ \ {p}]
          /\ purchases' = [purchases EXCEPT ![p].applied = TRUE]
    /\ UNCHANGED <<clock, eventVars, grantVars, quote, changes>>

PlanctlStops ==
    /\ listed # NothingListed
    /\ listed' = NothingListed
    /\ UNCHANGED <<clock, eventVars, grantVars, purchases, quote, changes>>

-----------------------------------------------------------------------------

Init ==
    /\ clock = 0
    /\ status = [e \in EventIds |-> IF e \in OldEvents THEN "live" ELSE "none"]
    /\ date = [e \in EventIds |-> 0]
    /\ grants = [e \in EventIds |-> <<>>]
    /\ row = [e \in EventIds |-> [items |-> 0, bytes |-> LegacyBytes]]
    /\ purchases = <<>>
    /\ quote = NoQuote
    /\ listed = NothingListed
    /\ changes = 0

EventStep(e) ==
    \/ \E d \in Dates : Provision(e, d) \/ UpdateDate(e, d)
    \/ Delete(e) \/ Revoke(e)
    \/ \E r \in Ranks, t \in Tickets : Grant(e, r, t)
    \/ \E r \in Ranks : QuoteEventPurchase(e, r)

PurchaseStep(p) ==
    SettlePurchase(p) \/ Refund(p) \/ ActivatePurchase(p) \/ MarkEntitlementApplied(p)

Next ==
    \/ \E e \in EventIds : EventStep(e)
    \/ \E p \in Purchases : PurchaseStep(p)
    \/ BackfillCandidates \/ BackfillVisit
    \/ UnappliedSettled \/ BillingReconcileGrant \/ BillingReconcileMark
    \/ PlanctlStops
    \/ CreatePurchase
    \/ Tick

Spec == Init /\ [][Next]_vars

-----------------------------------------------------------------------------
(* Properties *)

GrantRecords ==
    [rank : Ranks, source : {"system", "manual", "migration", "purchase", "external"},
     ref : Nat \cup Tickets, status : {"active", "superseded", "revoked"},
     at : Nat, until : Nat]

TypeOK ==
    /\ clock \in Nat /\ changes \in Nat
    /\ status \in [EventIds -> {"none", "live", "deleted"}]
    /\ date \in [EventIds -> Nat]
    /\ grants \in [EventIds -> Seq(GrantRecords)]
    /\ row \in [EventIds -> [items : Nat, bytes : Nat]]
    /\ \A e \in EventIds : Cardinality(With(e, "active")) <= 1
    /\ \A p \in Purchases : /\ purchases[p].status \in {"open", "settled", "refunded"}
                            /\ purchases[p].license \in {"none", "consumed"}
    /\ listed.events \subseteq EventIds /\ listed.purchases \subseteq Purchases

\* What `planctl reconcile` counts as a violation never occurs: an event that
\* was ever granted a plan has an active grant, and its row carries the limits
\* of that grant, whatever was granted and revoked on the way (repository.go,
\* Reconcile: EventsWithoutGrant, LimitMismatch).
RowFollowsGrant ==
    \A e \in EventIds : grants[e] # <<>> =>
        /\ HasGrant(e)
        /\ LET r == ActiveGrant(e).rank
           IN /\ row[e].items = Plans[r].items
              /\ Plans[r].bytes > 0 => row[e].bytes = Plans[r].bytes

\* However plans are granted, upgraded, activated late and revoked, an event
\* holds at least the plan it was first given, for at least as long
\* (repository.go, writeGrant and Revoke; license.go, a late activation).
NeverBelowFirst ==
    \A e \in EventIds : grants[e] # <<>> =>
        /\ grants[e][1].status # "revoked"
        /\ grants[e][1].rank <= ActiveGrant(e).rank
        /\ grants[e][1].until <= ActiveGrant(e).until

\* What the grants of an event say to PlanStack.
PlanOf(g) == [rank |-> g.rank, until |-> g.until]
Held(e) == IF HasGrant(e) THEN PlanOf(ActiveGrant(e)) ELSE [rank |-> 0, until |-> 0]
Below(e) == {PlanOf(grants[e][i]) : i \in With(e, "superseded")}
Stack == INSTANCE PlanStack WITH
             held <- [e \in EventIds |-> Held(e)], below <- [e \in EventIds |-> Below(e)]

\* Plans only move up, none shortens the time the event keeps its media, at
\* whatever date and whenever it is activated, and revoking the last brings back
\* exactly what it replaced (repository.go, "Revoke retires the active grant and
\* reinstates the one it superseded"; grant_service.go and license.go, later).
\* This is of catalogs of three tiers: Revoke takes the last activated, which
\* with a fourth need not be the one replaced.
StackDiscipline == Stack!Spec

\* What an event's purchases cost together is at least the price of the plan
\* they led to, in the price list its first one was sold from: no order of
\* purchases, upgrades and loyalty makes a plan cheaper (pricing.go,
\* PricingContext, quoteUpgrade).  Events that were also given a plan, or had
\* money or a plan taken back, are not compared.
Bought(e) ==
    /\ status[e] # "none" /\ HasGrant(e)
    /\ \A i \in DOMAIN grants[e] : /\ grants[e][i].source \in {"system", "purchase", "external"}
                                   /\ grants[e][i].status # "revoked"
    /\ Of(e, {"refunded"}) = {}
    /\ \E p \in Of(e, {"settled"}) : purchases[p].applied
Dollars(e) == UNION {{p} \X (1..purchases[p].terms.final) : p \in Of(e, {"settled"})}
SpentOn(e) == Cardinality(Dollars(e))
NeverBelowPrice ==
    \A e \in EventIds : Bought(e) =>
        LET first == Min(Of(e, {"settled"}))
        IN SpentOn(e) >= TierValue(purchases[first].terms.context, ActiveGrant(e).rank)
=============================================================================
