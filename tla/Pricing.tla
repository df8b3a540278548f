----------------------------- MODULE Pricing ------------------------------
(***************************************************************************)
(* The plan catalog and the prices an event's plan is sold at.             *)
(*                                                                         *)
(*   internal/catalog/*.go, internal/billing/pricing.go                    *)
(*   internal/entitlement/entitlement.go (CheckTransition, Expiry)         *)
(*                                                                         *)
(* A plan is its place in the upgrade order.  Each has one active version  *)
(* and one price for the whole of a behaviour; amounts are whole dollars.  *)
(***************************************************************************)
EXTENDS Integers, Sequences

CONSTANTS
    Plans    \* by rank: what a plan grants and costs, the first is Free

PlanTerms == [sellable : BOOLEAN, items : Nat, bytes : Nat, days : Nat,
              price : Nat, returning : Nat]

ASSUME PricingAssumption ==
    /\ Plans \in Seq(PlanTerms) /\ Len(Plans) > 0
    /\ ~Plans[1].sellable

Ranks == DOMAIN Plans
Free == 1

Sellable(r) == Plans[r].sellable

\* CheckTransition, where an event without a plan has none to leave.
Upward(from, to) == from = {} \/ \A r \in from : to > r

\* Expiry: from the day after the event, or activation if that is later.
Expiry(eventDate, at, r) ==
    (IF eventDate + 1 > at THEN eventDate + 1 ELSE at) + Plans[r].days

Later(a, b) == IF b > a THEN b ELSE a

-----------------------------------------------------------------------------

Contexts == {"first", "returning"}

\* A tier without a loyalty price (0 here) keeps its list price.
TierValue(context, r) ==
    IF context = "returning" /\ Plans[r].returning > 0
      THEN Plans[r].returning ELSE Plans[r].price

Quote(r, context, credit, reason) ==
    [rank |-> r, context |-> context, base |-> TierValue(context, r),
     credit |-> credit, final |-> TierValue(context, r) - credit, reason |-> reason]

ContextFor(returning) == IF returning THEN "returning" ELSE "first"

\* The first plan sold for an event.
QuoteNewPurchase(returning, r) ==
    Quote(r, ContextFor(returning), 0,
          IF returning THEN "returning_customer" ELSE "first_purchase")

Capped(credit, base) == IF credit > base THEN base ELSE credit

\* Variant: the purchase that is upgraded makes its host a returning customer.
QuoteUpgradeLoyal(funding, returning, held, r) ==
    LET context == ContextFor(returning \/ funding # {})
        credit == IF funding = {} THEN TierValue(context, held)
                  ELSE LET p == CHOOSE p \in funding : TRUE
                       IN IF p.status = "settled" THEN p.terms.base ELSE 0
    IN Quote(r, context, Capped(credit, TierValue(context, r)), "upgrade")

\* An upgrade stays in the context of the purchase that funded the plan held,
\* and credits its base amount while it is paid; a plan nobody paid is
\* credited at its price.  funding is that purchase, if any.
QuoteUpgrade(funding, returning, held, r) ==
    IF funding = {}
      THEN LET context == ContextFor(returning)
           IN Quote(r, context, Capped(TierValue(context, held), TierValue(context, r)),
                    "upgrade")
      ELSE LET p == CHOOSE p \in funding : TRUE
               credit == IF p.status = "settled" THEN p.terms.base ELSE 0
           IN Quote(r, p.terms.context, Capped(credit, TierValue(p.terms.context, r)), "upgrade")
=============================================================================
