------------------------- MODULE EventPlansProofs -------------------------
(***************************************************************************)
(* Theorems about EventPlans, for any catalog, events, dates and number of *)
(* purchases: the event row always carries the limits of its one active    *)
(* grant, plans go up or back to one that was replaced, never below the    *)
(* first, and no order of purchases undercuts the price list.              *)
(***************************************************************************)
EXTENDS EventPlans, FiniteSetTheorems, SequenceTheorems, WellFoundedInduction, TLAPS

-----------------------------------------------------------------------------
(* Least and greatest *)

LEMMA LeastIn ==
    ASSUME NEW S, S \subseteq Nat, S # {}
    PROVE  \E x \in S : \A y \in S : x =< y
<1>. DEFINE Less == {ss \in Nat \X Nat : ss[1] < ss[2]}
<1>1. IsWellFoundedOn(Less, Nat)
  BY NatLessThanWellFounded DEF OpToRel
<1>2. PICK x \in S : \A y \in S : <<y, x>> \notin Less
  <2>. HIDE DEF Less
  <2>. QED  BY <1>1, WFMin
<1>3. ASSUME NEW y \in S, ~(x =< y)
      PROVE  FALSE
  <2>1. <<y, x>> \in Nat \X Nat /\ <<y, x>>[1] < <<y, x>>[2]
    BY <1>3
  <2>. QED  BY <1>2, <2>1
<1>. QED  BY <1>3

LEMMA MinIn ==
    ASSUME NEW S, S \subseteq Nat, S # {}
    PROVE  Min(S) \in S /\ \A x \in S : Min(S) <= x
BY LeastIn DEF Min

LEMMA GreatestIn ==
    ASSUME NEW n \in Nat, NEW S, S \subseteq 0..n, S # {}
    PROVE  \E x \in S : \A y \in S : y =< x
<1>. DEFINE T == {n - x : x \in S}
<1>1. T \subseteq Nat /\ T # {}
  <2>1. \A x \in S : x \in Nat /\ x =< n /\ n - x \in Nat
    OBVIOUS
  <2>. QED  BY <2>1
<1>2. PICK t \in T : \A u \in T : t =< u
  <2>. HIDE DEF T
  <2>. QED  BY <1>1, LeastIn
<1>3. PICK x \in S : t = n - x
  OBVIOUS
<1>4. ASSUME NEW y \in S
      PROVE  y =< x
  <2>1. n - y \in T
    OBVIOUS
  <2>2. n - x =< n - y
    <3>. HIDE DEF T
    <3>. QED  BY <1>2, <1>3, <2>1
  <2>3. x \in Int /\ y \in Int
    OBVIOUS
  <2>. QED  BY <2>2, <2>3
<1>. QED  BY <1>4

\* The last of those that are latest.
LEMMA LatestIn ==
    ASSUME NEW n \in Nat, NEW m \in Nat, NEW S, S \subseteq 0..n, S # {},
           NEW at \in [S -> 0..m]
    PROVE  \E i \in S : \A j \in S : at[j] < at[i] \/ (at[j] = at[i] /\ j <= i)
<1>. DEFINE ats == {at[i] : i \in S}
<1>1. PICK last \in ats : \A u \in ats : u =< last
  <2>1. ats \subseteq 0..m /\ ats # {}
    OBVIOUS
  <2>. HIDE DEF ats
  <2>. QED  BY <2>1, GreatestIn
<1>. DEFINE top == {i \in S : at[i] = last}
<1>2. PICK i \in top : \A j \in top : j =< i
  <2>1. top \subseteq 0..n /\ top # {}
    BY <1>1
  <2>. HIDE DEF top
  <2>. QED  BY <2>1, GreatestIn
<1>3. i \in S /\ at[i] = last
  BY <1>2
<1>4. ASSUME NEW j \in S
      PROVE  at[j] < at[i] \/ (at[j] = at[i] /\ j <= i)
  <2>1. at[j] =< last /\ at[j] \in Int /\ last \in Int
    BY <1>1, <1>3
  <2>2. at[j] = last => j =< i
    BY <1>2
  <2>. HIDE DEF top, ats
  <2>. QED  BY <1>3, <2>1, <2>2
<1>. QED  BY <1>3, <1>4

-----------------------------------------------------------------------------
(* Types *)

Terms ==
    [rank : Ranks, context : Contexts, base : Nat, credit : Nat, final : Nat,
     reason : {"first_purchase", "returning_customer", "upgrade"}]

PurchaseRecords ==
    [event : EventIds, terms : Terms, status : {"open", "settled", "refunded"},
     license : {"none", "consumed"}, applied : BOOLEAN, settledAt : Nat]

GrantTypes ==
    /\ clock \in Nat
    /\ date \in [EventIds -> Nat]
    /\ grants \in [EventIds -> Seq(GrantRecords)]
    /\ row \in [EventIds -> [items : Nat, bytes : Nat]]
    /\ \A e \in EventIds : \A i \in DOMAIN grants[e] : grants[e][i].at <= clock

PurchaseTypes ==
    /\ purchases \in Seq(PurchaseRecords)
    /\ \A p \in Purchases : purchases[p].settledAt <= clock
    /\ quote \in {NoQuote} \cup [event : EventIds, terms : Terms]
    /\ listed \in [events : SUBSET EventIds, purchases : SUBSET Purchases]

\* A plan's grant and the row: what RowFollowsGrant asks for.
Fits(r, limits) ==
    limits.items = Plans[r].items /\ (Plans[r].bytes > 0 => limits.bytes = Plans[r].bytes)

\* An event that was ever granted a plan has one in force.
OneInForce ==
    \A e \in EventIds : grants[e] # <<>> =>
        \E i \in DOMAIN grants[e] :
            /\ grants[e][i].status = "active"
            /\ \A j \in DOMAIN grants[e] : grants[e][j].status = "active" => j = i
            /\ Fits(grants[e][i].rank, row[e])

IInv == GrantTypes /\ PurchaseTypes /\ OneInForce

LEMMA PlanIs ==
    ASSUME NEW r \in Ranks
    PROVE  /\ Plans[r] \in PlanTerms
           /\ Plans[r].days \in Nat /\ Plans[r].items \in Nat /\ Plans[r].bytes \in Nat
           /\ Plans[r].price \in Nat /\ Plans[r].returning \in Nat
<1>1. Plans[r] \in PlanTerms
  BY PricingAssumption DEF Ranks
<1>. QED  BY <1>1 DEF PlanTerms

LEMMA FreeIs == Free \in Ranks
BY PricingAssumption DEF Ranks, Free

LEMMA ExpiryIs ==
    ASSUME NEW d \in Nat, NEW at \in Nat, NEW r \in Ranks
    PROVE  Expiry(d, at, r) \in Nat
BY PlanIs DEF Expiry

-----------------------------------------------------------------------------
(* Grants *)

LEMMA ActiveIs ==
    ASSUME GrantTypes, NEW e \in EventIds, HasGrant(e)
    PROVE  /\ ActiveIndex(e) \in DOMAIN grants[e] /\ ActiveGrant(e) \in GrantRecords
           /\ grants[e][ActiveIndex(e)].status = "active"
<1>1. ActiveIndex(e) \in With(e, "active")
  BY DEF HasGrant, ActiveIndex
<1>2. grants[e] \in Seq(GrantRecords)
  BY DEF GrantTypes
<1>. QED  BY <1>1, <1>2 DEF With, ActiveGrant

LEMMA HotLimitsFit ==
    ASSUME GrantTypes, NEW e \in EventIds, NEW r \in Ranks
    PROVE  HotLimits(e, r) \in [items : Nat, bytes : Nat] /\ Fits(r, HotLimits(e, r))
BY PlanIs DEF GrantTypes, HotLimits, Fits

\* A step that leaves event e the grants h, of which k alone is in force, and
\* copies that grant's limits to the row.
LEMMA ReplaceKeeps ==
    ASSUME GrantTypes, OneInForce, NEW e \in EventIds, NEW h \in Seq(GrantRecords),
           \A i \in DOMAIN h : h[i].at <= clock,
           NEW k \in DOMAIN h, h[k].status = "active",
           \A i \in DOMAIN h : h[i].status = "active" => i = k,
           grants' = [grants EXCEPT ![e] = h],
           row' = [row EXCEPT ![e] = HotLimits(e, h[k].rank)],
           clock' = clock, date' \in [EventIds -> Nat]
    PROVE  GrantTypes' /\ OneInForce'
<1>1. h[k].rank \in Ranks
  <2>1. h[k] \in GrantRecords
    OBVIOUS
  <2>. QED  BY <2>1 DEF GrantRecords
<1>2. /\ grants' \in [EventIds -> Seq(GrantRecords)]
      /\ grants'[e] = h /\ \A d \in EventIds \ {e} : grants'[d] = grants[d]
  BY DEF GrantTypes
<1>3. /\ row' \in [EventIds -> [items : Nat, bytes : Nat]]
      /\ row'[e] = HotLimits(e, h[k].rank) /\ \A d \in EventIds \ {e} : row'[d] = row[d]
  BY <1>1, HotLimitsFit DEF GrantTypes
<1>4. GrantTypes'
  <2>1. \A d \in EventIds : \A i \in DOMAIN grants'[d] : grants'[d][i].at <= clock
    BY <1>2 DEF GrantTypes
  <2>. QED  BY <1>2, <1>3, <2>1 DEF GrantTypes
<1>5. OneInForce'
  <2>1. Fits(h[k].rank, row'[e])
    BY <1>1, <1>3, HotLimitsFit
  <2>2. ASSUME NEW d \in EventIds, grants'[d] # <<>>
        PROVE  \E i \in DOMAIN grants'[d] :
                  /\ grants'[d][i].status = "active"
                  /\ \A j \in DOMAIN grants'[d] : grants'[d][j].status = "active" => j = i
                  /\ Fits(grants'[d][i].rank, row'[d])
    <3>1. CASE d = e
      BY <1>2, <2>1, <3>1
    <3>2. CASE d # e
      BY <1>2, <1>3, <2>2, <3>2 DEF OneInForce
    <3>. QED  BY <3>1, <3>2
  <2>. QED  BY <2>2 DEF OneInForce, Fits
<1>. QED  BY <1>4, <1>5

LEMMA WriteGrantKeeps ==
    ASSUME GrantTypes, OneInForce, NEW e \in EventIds, NEW r \in Ranks,
           NEW source \in {"system", "manual", "migration", "purchase", "external"},
           NEW ref \in Nat \cup Tickets, NEW at \in Nat, at <= clock,
           WriteGrant(e, r, source, ref, at), UNCHANGED <<clock, date>>
    PROVE  GrantTypes' /\ OneInForce'
<1>. DEFINE g == grants[e]
            old == [i \in DOMAIN g |-> Superseded(g[i])]
            new == [rank |-> r, source |-> source, ref |-> ref, status |-> "active",
                    at |-> at, until |-> Window(e, at, r)]
            h == Append(old, new)
<1>1. g \in Seq(GrantRecords) /\ DOMAIN g = 1..Len(g) /\ Len(g) \in Nat
  BY DEF GrantTypes
<1>2. new \in GrantRecords
  <2>1. Expiry(date[e], at, r) \in Nat
    BY ExpiryIs DEF GrantTypes
  <2>2. HasGrant(e) => ActiveGrant(e).until \in Nat
    BY ActiveIs DEF GrantRecords
  <2>3. Window(e, at, r) \in Nat
    BY <2>1, <2>2 DEF Window, Later
  <2>. QED  BY <2>3 DEF GrantRecords
<1>3. \A i \in 1..Len(g) :
         /\ old[i] \in GrantRecords /\ old[i].status # "active" /\ old[i].at = g[i].at
  <2>. SUFFICES ASSUME NEW i \in 1..Len(g)
                PROVE  /\ Superseded(g[i]) \in GrantRecords /\ Superseded(g[i]).status # "active"
                       /\ Superseded(g[i]).at = g[i].at
    BY <1>1
  <2>1. g[i] \in GrantRecords
    BY <1>1
  <2>. HIDE DEF g
  <2>. QED  BY <2>1 DEF Superseded, GrantRecords
<1>4. old \in Seq(GrantRecords) /\ Len(old) = Len(g)
  <2>1. old \in [1..Len(g) -> GrantRecords]
    BY <1>1, <1>3
  <2>2. old \in Seq(GrantRecords)
    <3>. HIDE DEF old
    <3>. QED  BY <1>1, <2>1, SeqDef
  <2>. HIDE DEF old
  <2>. QED  BY <1>1, <2>1, <2>2, LenProperties
<1>5. grants' = [grants EXCEPT ![e] = h] /\ row' = [row EXCEPT ![e] = HotLimits(e, new.rank)]
  BY DEF WriteGrant
<1>6. new.status = "active" /\ new.at <= clock
  OBVIOUS
<1>. HIDE DEF old, new
<1>7. /\ h \in Seq(GrantRecords) /\ DOMAIN h = 1..Len(g) + 1
      /\ \A i \in 1..Len(g) : h[i] = old[i]
      /\ h[Len(g) + 1] = new
  BY <1>1, <1>2, <1>4
<1>8. \A i \in DOMAIN h : h[i].at <= clock /\ (h[i].status = "active" => i = Len(g) + 1)
  <2>1. \A i \in DOMAIN h : i \in 1..Len(g) \/ i = Len(g) + 1
    BY <1>1, <1>7
  <2>2. \A i \in 1..Len(g) : g[i].at <= clock
    BY <1>1 DEF GrantTypes
  <2>. HIDE DEF h, g
  <2>. QED  BY <1>3, <1>6, <1>7, <2>1, <2>2
<1>9. Len(g) + 1 \in DOMAIN h
  BY <1>1, <1>7
<1>. HIDE DEF h, g
<1>. QED  BY <1>5, <1>6, <1>7, <1>8, <1>9, ReplaceKeeps DEF GrantTypes

\* There is a newest superseded grant: activation was in the past.
LEMMA NewestIn ==
    ASSUME GrantTypes, NEW e \in EventIds, With(e, "superseded") # {}
    PROVE  /\ Newest(e, With(e, "superseded")) \in With(e, "superseded")
           /\ \A j \in With(e, "superseded") :
                 LET i == Newest(e, With(e, "superseded"))
                 IN \/ grants[e][j].at < grants[e][i].at
                    \/ grants[e][j].at = grants[e][i].at /\ j <= i
<1>. DEFINE s == With(e, "superseded")
            at == [i \in s |-> grants[e][i].at]
<1>1. grants[e] \in Seq(GrantRecords) /\ s \subseteq 0..Len(grants[e]) /\ Len(grants[e]) \in Nat
  BY DEF GrantTypes, With
<1>2. at \in [s -> 0..clock] /\ clock \in Nat
  <2>1. \A i \in 1..Len(grants[e]) : grants[e][i] \in GrantRecords
    BY <1>1
  <2>2. \A i \in s : grants[e][i].at \in 0..clock
    BY <1>1, <2>1 DEF GrantTypes, GrantRecords, With
  <2>. QED  BY <2>2 DEF GrantTypes
<1>3. PICK i \in s : \A j \in s : at[j] < at[i] \/ (at[j] = at[i] /\ j <= i)
  <2>. HIDE DEF s, at
  <2>. QED  BY <1>1, <1>2, LatestIn DEF s
<1>4. \A j \in s : \/ grants[e][j].at < grants[e][i].at
                   \/ grants[e][j].at = grants[e][i].at /\ j <= i
  <2>1. \A j \in s : at[j] = grants[e][j].at
    OBVIOUS
  <2>. HIDE DEF s, at
  <2>. QED  BY <1>3, <2>1
<1>. QED  BY <1>4 DEF Newest

LEMMA RevokeKeeps ==
    ASSUME GrantTypes, OneInForce, NEW e \in EventIds, Revoke(e)
    PROVE  GrantTypes' /\ OneInForce'
<1>. DEFINE g == grants[e]
            a == ActiveIndex(e)
            b == Newest(e, With(e, "superseded"))
            h == [g EXCEPT ![a] = [g[a] EXCEPT !.status = "revoked"],
                           ![b] = [g[b] EXCEPT !.status = "active"]]
<1>1. g \in Seq(GrantRecords) /\ DOMAIN g = 1..Len(g) /\ \A i \in DOMAIN g : g[i] \in GrantRecords
  BY DEF GrantTypes
<1>2. a \in DOMAIN g /\ g[a].status = "active"
  BY ActiveIs DEF Revoke
<1>3. b \in DOMAIN g /\ g[b].status = "superseded" /\ a # b
  <2>1. b \in With(e, "superseded")
    BY NewestIn DEF Revoke
  <2>. QED  BY <1>2, <2>1 DEF With
<1>4. /\ grants' = [grants EXCEPT ![e][a].status = "revoked", ![e][b].status = "active"]
      /\ row' = [row EXCEPT ![e] = HotLimits(e, g[b].rank)]
      /\ UNCHANGED <<clock, date>>
  BY DEF Revoke, eventVars
<1>. HIDE DEF a, b
<1>5. grants' = [grants EXCEPT ![e] = h]
  BY <1>1, <1>2, <1>3, <1>4 DEF GrantTypes
<1>6. \A i \in DOMAIN g : g[i].status = "active" => i = a
  BY <1>2 DEF OneInForce
<1>7. \A i \in DOMAIN g : g[i].at <= clock
  BY DEF GrantTypes
<1>. HIDE DEF g
<1>8. /\ DOMAIN h = 1..Len(g) /\ h = [i \in 1..Len(g) |-> h[i]]
      /\ h[a] = [g[a] EXCEPT !.status = "revoked"]
      /\ h[b] = [g[b] EXCEPT !.status = "active"]
      /\ \A i \in DOMAIN g : i # a /\ i # b => h[i] = g[i]
  BY <1>1, <1>2, <1>3
<1>. HIDE DEF h
<1>9. /\ h[a] \in GrantRecords /\ h[a].at = g[a].at /\ h[a].status = "revoked"
      /\ h[b] \in GrantRecords /\ h[b].at = g[b].at /\ h[b].status = "active"
      /\ h[b].rank = g[b].rank
  BY <1>1, <1>2, <1>3, <1>8 DEF GrantRecords
<1>10. \A i \in DOMAIN h : /\ h[i] \in GrantRecords /\ h[i].at <= clock
                           /\ h[i].status = "active" => i = b
  BY <1>1, <1>2, <1>3, <1>6, <1>7, <1>8, <1>9
<1>11. h \in Seq(GrantRecords)
  <2>1. h \in [1..Len(g) -> GrantRecords]
    BY <1>8, <1>10
  <2>2. Len(g) \in Nat
    BY <1>1, LenProperties
  <2>. QED  BY <2>1, <2>2, SeqDef
<1>12. b \in DOMAIN h
  BY <1>1, <1>3, <1>8
<1>13. row' = [row EXCEPT ![e] = HotLimits(e, h[b].rank)] /\ h[b].status = "active"
  BY <1>4, <1>9
<1>14. clock' = clock /\ date' \in [EventIds -> Nat]
  BY <1>4 DEF GrantTypes
<1>15. \A i \in DOMAIN h : h[i].at <= clock
  BY <1>10
<1>16. \A i \in DOMAIN h : h[i].status = "active" => i = b
  BY <1>10
<1>. QED  BY <1>5, <1>11, <1>12, <1>13, <1>14, <1>15, <1>16, ReplaceKeeps

\* Dates that move and days that pass leave grants and rows as they are.
LEMMA GrantsStay ==
    ASSUME GrantTypes, OneInForce, UNCHANGED grantVars,
           clock' \in Nat, clock <= clock', date' \in [EventIds -> Nat]
    PROVE  GrantTypes' /\ OneInForce'
<1>1. GrantTypes'
  <2>1. \A e \in EventIds : \A i \in DOMAIN grants[e] : grants[e][i].at <= clock'
    <3>1. \A e \in EventIds : grants[e] \in Seq(GrantRecords)
      BY DEF GrantTypes
    <3>2. \A e \in EventIds : \A i \in DOMAIN grants[e] : grants[e][i].at \in Nat
      <4>1. ASSUME NEW e \in EventIds, NEW i \in DOMAIN grants[e]
            PROVE  grants[e][i] \in GrantRecords
        BY <3>1
      <4>. QED  BY <4>1 DEF GrantRecords
    <3>. QED  BY <3>2 DEF GrantTypes
  <2>. QED  BY <2>1 DEF GrantTypes, grantVars
<1>2. OneInForce'
  BY DEF OneInForce, Fits, grantVars
<1>. QED  BY <1>1, <1>2

\* The event and its Free grant are one transaction.
LEMMA ProvisionKeeps ==
    ASSUME GrantTypes, OneInForce, NEW e \in EventIds, NEW d \in Dates, Provision(e, d)
    PROVE  GrantTypes' /\ OneInForce'
<1>. DEFINE new == [rank |-> Free, source |-> "system", ref |-> e, status |-> "active",
                    at |-> clock, until |-> Expiry(d, clock, Free)]
            h == <<new>>
<1>1. new \in GrantRecords
  BY FreeIs, ExpiryIs, EventPlansAssumption DEF GrantTypes, GrantRecords
<1>2. new.status = "active" /\ new.at <= clock /\ new.rank = Free
  BY DEF GrantTypes
<1>3. /\ grants' = [grants EXCEPT ![e] = h] /\ row' = [row EXCEPT ![e] = HotLimits(e, Free)]
      /\ clock' = clock /\ date' \in [EventIds -> Nat]
  BY EventPlansAssumption DEF Provision, GrantTypes
<1>. HIDE DEF new
<1>4. h \in Seq(GrantRecords) /\ DOMAIN h = {1} /\ h[1] = new
  BY <1>1
<1>. HIDE DEF h
<1>. QED  BY <1>2, <1>3, <1>4, ReplaceKeeps

-----------------------------------------------------------------------------
(* Purchases *)

LEMMA TierValueIs ==
    ASSUME NEW context, NEW r \in Ranks
    PROVE  TierValue(context, r) \in Nat
BY PlanIs DEF TierValue

LEMMA QuoteIs ==
    ASSUME NEW r \in Ranks, NEW context \in Contexts, NEW credit \in Nat,
           credit <= TierValue(context, r),
           NEW reason \in {"first_purchase", "returning_customer", "upgrade"}
    PROVE  Quote(r, context, credit, reason) \in Terms
<1>1. TierValue(context, r) \in Nat
  BY TierValueIs
<1>2. TierValue(context, r) - credit \in Nat
  BY <1>1
<1>. QED  BY <1>1, <1>2 DEF Quote, Terms

\* Whatever is quoted, the credit is at most the price.
LEMMA TermsAreQuoted ==
    ASSUME NEW r \in Ranks, NEW held \in Ranks, NEW returning \in BOOLEAN,
           NEW funding, funding \subseteq PurchaseRecords
    PROVE  /\ QuoteNewPurchase(returning, r) \in Terms
           /\ QuoteUpgrade(funding, returning, held, r) \in Terms
<1>1. ContextFor(returning) \in Contexts
  BY DEF ContextFor, Contexts
<1>2. QuoteNewPurchase(returning, r) \in Terms
  <2>1. 0 <= TierValue(ContextFor(returning), r)
    BY TierValueIs
  <2>. QED  BY <1>1, <2>1, QuoteIs DEF QuoteNewPurchase
<1>3. \A credit, base \in Nat : Capped(credit, base) \in Nat /\ Capped(credit, base) <= base
  BY DEF Capped
<1>4. QuoteUpgrade(funding, returning, held, r) \in Terms
  <2>1. CASE funding = {}
    BY <1>1, <1>3, <2>1, QuoteIs, TierValueIs DEF QuoteUpgrade
  <2>2. CASE funding # {}
    <3>. DEFINE p == CHOOSE p \in funding : TRUE
                credit == IF p.status = "settled" THEN p.terms.base ELSE 0
    <3>1. p \in PurchaseRecords
      BY <2>2
    <3>2. p.terms.context \in Contexts /\ credit \in Nat
      BY <3>1 DEF PurchaseRecords, Terms
    <3>3. QuoteUpgrade(funding, returning, held, r) =
             Quote(r, p.terms.context, Capped(credit, TierValue(p.terms.context, r)), "upgrade")
      BY <2>2 DEF QuoteUpgrade
    <3>. HIDE DEF p, credit
    <3>. QED  BY <1>3, <3>2, <3>3, QuoteIs, TierValueIs
  <2>. QED  BY <2>1, <2>2
<1>. QED  BY <1>2, <1>4

LEMMA PurchasesStay ==
    ASSUME PurchaseTypes, GrantTypes, UNCHANGED <<purchases, quote, listed>>,
           clock' \in Nat, clock <= clock'
    PROVE  PurchaseTypes'
<1>1. \A p \in Purchases : purchases[p] \in PurchaseRecords
  BY DEF PurchaseTypes, Purchases
<1>2. \A p \in Purchases : purchases[p].settledAt \in Nat
  BY <1>1 DEF PurchaseRecords
<1>. QED  BY <1>2 DEF PurchaseTypes, Purchases, GrantTypes

LEMMA QuoteKeeps ==
    ASSUME GrantTypes, PurchaseTypes, NEW e \in EventIds, NEW r \in Ranks,
           QuoteEventPurchase(e, r)
    PROVE  PurchaseTypes'
<1>. DEFINE held == ActiveGrant(e).rank
            terms == IF ~Sellable(held) THEN QuoteNewPurchase(Eligible(e), r)
                     ELSE QuoteUpgrade(LatestEventPurchase(e), Eligible(e), held, r)
<1>1. held \in Ranks
  BY ActiveIs DEF QuoteEventPurchase, GrantRecords
<1>2. LatestEventPurchase(e) \subseteq PurchaseRecords
  BY DEF LatestEventPurchase, Of, Purchases, PurchaseTypes
<1>3. Eligible(e) \in BOOLEAN
  BY DEF Eligible
<1>4. quote' = [event |-> e, terms |-> terms] /\ UNCHANGED <<clock, purchases, listed>>
  BY DEF QuoteEventPurchase
<1>5. terms \in Terms
  BY <1>1, <1>2, <1>3, TermsAreQuoted
<1>. HIDE DEF terms, held
<1>6. quote' \in [event : EventIds, terms : Terms]
  BY <1>4, <1>5
<1>. QED  BY <1>4, <1>6 DEF PurchaseTypes, Purchases

LEMMA CreatePurchaseKeeps ==
    ASSUME GrantTypes, PurchaseTypes, CreatePurchase
    PROVE  PurchaseTypes'
<1>1. CASE UNCHANGED purchases
  BY <1>1 DEF CreatePurchase, PurchaseTypes, Purchases
<1>2. CASE ~UNCHANGED purchases
  <2>. DEFINE new == [event |-> quote.event, terms |-> quote.terms, status |-> "open",
                      license |-> "none", applied |-> FALSE, settledAt |-> 0]
  <2>1. /\ purchases' = Append(purchases, new) /\ quote # NoQuote
        /\ quote' = NoQuote /\ UNCHANGED <<clock, listed>>
    BY <1>2 DEF CreatePurchase
  <2>2. new \in PurchaseRecords
    BY <2>1 DEF PurchaseTypes, PurchaseRecords
  <2>3. new.settledAt = 0
    OBVIOUS
  <2>4. purchases \in Seq(PurchaseRecords) /\ DOMAIN purchases = 1..Len(purchases) /\ Len(purchases) \in Nat
    BY DEF PurchaseTypes
  <2>. HIDE DEF new
  <2>5. /\ purchases' \in Seq(PurchaseRecords) /\ DOMAIN purchases' = 1..Len(purchases) + 1
        /\ \A p \in 1..Len(purchases) : purchases'[p] = purchases[p]
        /\ purchases'[Len(purchases) + 1] = new
    BY <2>1, <2>2, <2>4
  <2>6. \A p \in Purchases' : purchases'[p].settledAt <= clock
    <3>1. \A p \in Purchases' : p \in Purchases \/ p = Len(purchases) + 1
      BY <2>4, <2>5 DEF Purchases
    <3>. QED  BY <2>3, <2>4, <2>5, <3>1 DEF PurchaseTypes, Purchases, GrantTypes
  <2>7. listed' \in [events : SUBSET EventIds, purchases : SUBSET Purchases']
    <3>1. Purchases \subseteq Purchases'
      BY <2>4, <2>5 DEF Purchases
    <3>. QED  BY <2>1, <3>1 DEF PurchaseTypes
  <2>. QED  BY <2>1, <2>5, <2>6, <2>7 DEF PurchaseTypes
<1>. QED  BY <1>1, <1>2

\* A step that changes one purchase.
LEMMA PurchaseChanges ==
    ASSUME PurchaseTypes, NEW p \in Purchases, NEW new \in PurchaseRecords,
           new.settledAt <= clock, purchases' = [purchases EXCEPT ![p] = new],
           UNCHANGED <<clock, quote>>, listed' \in [events : SUBSET EventIds, purchases : SUBSET Purchases]
    PROVE  PurchaseTypes'
<1>1. purchases \in Seq(PurchaseRecords) /\ p \in 1..Len(purchases)
  BY DEF PurchaseTypes, Purchases
<1>2. purchases' \in Seq(PurchaseRecords) /\ DOMAIN purchases' = DOMAIN purchases
  BY <1>1, ExceptSeq
<1>3. \A q \in Purchases : purchases'[q] = IF q = p THEN new ELSE purchases[q]
  BY <1>1 DEF Purchases
<1>. QED  BY <1>2, <1>3 DEF PurchaseTypes, Purchases

LEMMA PurchaseStepKeeps ==
    ASSUME IInv, NEW p \in Purchases, PurchaseStep(p)
    PROVE  IInv'
<1>. USE DEF IInv
<1>1. /\ purchases[p] \in PurchaseRecords /\ purchases[p].settledAt <= clock
      /\ listed \in [events : SUBSET EventIds, purchases : SUBSET Purchases]
      /\ clock \in Nat
  BY DEF PurchaseTypes, Purchases, GrantTypes
<1>2. CASE SettlePurchase(p) \/ Refund(p) \/ MarkEntitlementApplied(p)
  <2>1. GrantTypes' /\ OneInForce'
    BY <1>1, <1>2, GrantsStay DEF SettlePurchase, Refund, MarkEntitlementApplied, eventVars, GrantTypes
  <2>2. PICK new \in PurchaseRecords : /\ new.settledAt <= clock
                                       /\ purchases' = [purchases EXCEPT ![p] = new]
    <3>1. CASE SettlePurchase(p)
      <4>1. [purchases[p] EXCEPT !.status = "settled", !.settledAt = clock] \in PurchaseRecords
        BY <1>1 DEF PurchaseRecords
      <4>2. [purchases[p] EXCEPT !.status = "settled", !.settledAt = clock].settledAt = clock
        BY <1>1 DEF PurchaseRecords
      <4>3. purchases' = [purchases EXCEPT ![p] = [purchases[p] EXCEPT !.status = "settled", !.settledAt = clock]]
        BY <3>1 DEF SettlePurchase, PurchaseTypes, Purchases
      <4>4. clock <= clock
        BY <1>1
      <4>. QED  BY <4>1, <4>2, <4>3, <4>4
    <3>2. CASE Refund(p)
      <4>1. [purchases[p] EXCEPT !.status = "refunded"] \in PurchaseRecords
        BY <1>1 DEF PurchaseRecords
      <4>2. [purchases[p] EXCEPT !.status = "refunded"].settledAt = purchases[p].settledAt
        BY <1>1 DEF PurchaseRecords
      <4>3. purchases' = [purchases EXCEPT ![p] = [purchases[p] EXCEPT !.status = "refunded"]]
        BY <3>2 DEF Refund
      <4>. QED  BY <1>1, <4>1, <4>2, <4>3
    <3>3. CASE MarkEntitlementApplied(p)
      <4>1. [purchases[p] EXCEPT !.applied = TRUE] \in PurchaseRecords
        BY <1>1 DEF PurchaseRecords
      <4>2. [purchases[p] EXCEPT !.applied = TRUE].settledAt = purchases[p].settledAt
        BY <1>1 DEF PurchaseRecords
      <4>3. purchases' = [purchases EXCEPT ![p] = [purchases[p] EXCEPT !.applied = TRUE]]
        BY <3>3 DEF MarkEntitlementApplied
      <4>. QED  BY <1>1, <4>1, <4>2, <4>3
    <3>. QED  BY <1>2, <3>1, <3>2, <3>3
  <2>3. UNCHANGED <<clock, quote, listed>>
    BY <1>2 DEF SettlePurchase, Refund, MarkEntitlementApplied
  <2>. QED  BY <1>1, <2>1, <2>2, <2>3, PurchaseChanges
<1>3. CASE ActivatePurchase(p)
  <2>. DEFINE e == purchases[p].event
              r == purchases[p].terms.rank
              at == purchases[p].settledAt
              new == [purchases[p] EXCEPT !.license = "consumed"]
  <2>1. e \in EventIds /\ r \in Ranks /\ at \in Nat /\ at <= clock /\ p \in Nat
    BY <1>1 DEF PurchaseRecords, Terms, Purchases, PurchaseTypes
  <2>2. /\ WriteGrant(e, r, "purchase", p, at) /\ UNCHANGED <<clock, date, quote, listed>>
        /\ purchases' = [purchases EXCEPT ![p] = new]
    BY <1>3 DEF ActivatePurchase, eventVars
  <2>3. new \in PurchaseRecords /\ new.settledAt = at
    BY <1>1 DEF PurchaseRecords
  <2>. HIDE DEF new, e, r, at
  <2>4. GrantTypes' /\ OneInForce'
    BY <2>1, <2>2, WriteGrantKeeps
  <2>5. PurchaseTypes'
    BY <1>1, <2>1, <2>2, <2>3, PurchaseChanges
  <2>. QED  BY <2>4, <2>5
<1>. QED  BY <1>2, <1>3 DEF PurchaseStep

-----------------------------------------------------------------------------
(* The operator *)

LEMMA EventStepKeeps ==
    ASSUME IInv, NEW e \in EventIds, EventStep(e)
    PROVE  IInv'
<1>. USE DEF IInv
<1>1. clock \in Nat /\ clock <= clock /\ date \in [EventIds -> Nat]
  BY DEF GrantTypes
<1>2. CASE \E d \in Dates : Provision(e, d)
  <2>1. GrantTypes' /\ OneInForce'
    BY <1>2, ProvisionKeeps
  <2>2. UNCHANGED <<clock, purchases, quote, listed>>
    BY <1>2 DEF Provision
  <2>. QED  BY <1>1, <2>1, <2>2, PurchasesStay
<1>3. CASE \E d \in Dates : UpdateDate(e, d)
  <2>1. UNCHANGED <<clock, grantVars, purchases, quote, listed>> /\ date' \in [EventIds -> Nat]
    BY <1>1, <1>3, EventPlansAssumption DEF UpdateDate
  <2>. QED  BY <1>1, <2>1, GrantsStay, PurchasesStay
<1>4. CASE Delete(e)
  <2>1. UNCHANGED <<clock, date, grantVars, purchases, quote, listed>>
    BY <1>4 DEF Delete
  <2>. QED  BY <1>1, <2>1, GrantsStay, PurchasesStay
<1>5. CASE Revoke(e)
  <2>1. GrantTypes' /\ OneInForce'
    BY <1>5, RevokeKeeps
  <2>2. UNCHANGED <<clock, purchases, quote, listed>>
    BY <1>5 DEF Revoke
  <2>. QED  BY <1>1, <2>1, <2>2, PurchasesStay
<1>6. CASE \E r \in Ranks, t \in Tickets : Grant(e, r, t)
  <2>1. PICK r \in Ranks, t \in Tickets : Grant(e, r, t)
    BY <1>6
  <2>2. WriteGrant(e, r, "manual", t, clock) /\ UNCHANGED <<clock, date, purchases, quote, listed>>
    BY <2>1 DEF Grant, eventVars
  <2>3. GrantTypes' /\ OneInForce'
    BY <1>1, <2>2, WriteGrantKeeps
  <2>. QED  BY <1>1, <2>2, <2>3, PurchasesStay
<1>7. CASE \E r \in Ranks : QuoteEventPurchase(e, r)
  <2>1. UNCHANGED <<clock, date, grantVars>>
    BY <1>7 DEF QuoteEventPurchase, eventVars
  <2>2. PurchaseTypes'
    BY <1>7, QuoteKeeps
  <2>. QED  BY <1>1, <2>1, <2>2, GrantsStay
<1>. QED  BY <1>2, <1>3, <1>4, <1>5, <1>6, <1>7 DEF EventStep

\* planctl's two batches, which list first and then visit.
LEMMA PlanctlKeeps ==
    ASSUME IInv,
           \/ BackfillCandidates \/ BackfillVisit
           \/ UnappliedSettled \/ BillingReconcileGrant \/ BillingReconcileMark
           \/ PlanctlStops
    PROVE  IInv'
<1>. USE DEF IInv
<1>1. /\ clock \in Nat /\ clock <= clock /\ date \in [EventIds -> Nat]
      /\ listed \in [events : SUBSET EventIds, purchases : SUBSET Purchases]
      /\ Purchases \subseteq Nat
  BY DEF GrantTypes, PurchaseTypes, Purchases
<1>2. ASSUME UNCHANGED <<clock, purchases, quote>>,
             listed' \in [events : SUBSET EventIds, purchases : SUBSET Purchases]
      PROVE  PurchaseTypes'
  BY <1>2 DEF PurchaseTypes, Purchases
<1>3. CASE BackfillCandidates \/ UnappliedSettled \/ PlanctlStops
  <2>1. UNCHANGED <<clock, date, grantVars, purchases, quote>>
    BY <1>3 DEF BackfillCandidates, UnappliedSettled, PlanctlStops, eventVars
  <2>2. listed' \in [events : SUBSET EventIds, purchases : SUBSET Purchases]
    BY <1>3 DEF BackfillCandidates, UnappliedSettled, PlanctlStops, NothingListed
  <2>. QED  BY <1>1, <1>2, <2>1, <2>2, GrantsStay
<1>4. CASE BackfillVisit
  <2>. DEFINE e == Min(listed.events)
  <2>1. e \in EventIds /\ e \in Nat
    BY <1>1, <1>4, MinIn, EventPlansAssumption DEF BackfillVisit
  <2>2. /\ listed' = [listed EXCEPT !.events = @ \ {e}]
        /\ UNCHANGED <<clock, date, purchases, quote>>
        /\ \/ Activable(e, Legacy, "migration", e) /\ WriteGrant(e, Legacy, "migration", e, clock)
           \/ UNCHANGED grantVars
    BY <1>4 DEF BackfillVisit, eventVars
  <2>. HIDE DEF e
  <2>3. GrantTypes' /\ OneInForce'
    BY <1>1, <2>1, <2>2, WriteGrantKeeps, GrantsStay, EventPlansAssumption
  <2>4. listed' \in [events : SUBSET EventIds, purchases : SUBSET Purchases]
    BY <1>1, <2>2
  <2>. QED  BY <1>2, <2>2, <2>3, <2>4
<1>5. ASSUME listed.purchases # {}, NEW p, p = Min(listed.purchases)
      PROVE  /\ p \in Purchases /\ p \in Nat /\ purchases[p] \in PurchaseRecords
             /\ purchases[p].event \in EventIds /\ purchases[p].terms.rank \in Ranks
             /\ purchases[p].settledAt \in Nat /\ purchases[p].settledAt <= clock
  <2>1. p \in Purchases /\ p \in Nat
    BY <1>1, <1>5, MinIn
  <2>2. purchases[p] \in PurchaseRecords /\ purchases[p].settledAt <= clock
    BY <2>1 DEF PurchaseTypes, Purchases
  <2>. QED  BY <2>1, <2>2 DEF PurchaseRecords, Terms
<1>6. CASE BillingReconcileGrant
  <2>. DEFINE p == Min(listed.purchases)
              e == purchases[p].event
              r == purchases[p].terms.rank
              at == purchases[p].settledAt
  <2>1. listed.purchases # {}
    BY <1>6 DEF BillingReconcileGrant
  <2>2. /\ p \in Nat /\ e \in EventIds /\ r \in Ranks /\ at \in Nat /\ at <= clock
    BY <1>5, <2>1
  <2>3. /\ UNCHANGED <<clock, date, purchases, quote>>
        /\ \/ WriteGrant(e, r, "external", p, at) /\ UNCHANGED listed
           \/ UNCHANGED grantVars /\ listed' = [listed EXCEPT !.purchases = @ \ {p}]
    BY <1>6 DEF BillingReconcileGrant, eventVars
  <2>. HIDE DEF p, e, r, at
  <2>4. GrantTypes' /\ OneInForce'
    BY <1>1, <2>2, <2>3, WriteGrantKeeps, GrantsStay
  <2>5. listed' \in [events : SUBSET EventIds, purchases : SUBSET Purchases]
    BY <1>1, <2>3
  <2>. QED  BY <1>2, <2>3, <2>4, <2>5
<1>7. CASE BillingReconcileMark
  <2>. DEFINE p == Min(listed.purchases)
              new == [purchases[p] EXCEPT !.applied = TRUE]
  <2>1. listed.purchases # {}
    BY <1>7 DEF BillingReconcileMark
  <2>2. p \in Purchases /\ purchases[p] \in PurchaseRecords /\ purchases[p].settledAt <= clock
    BY <1>5, <2>1
  <2>3. /\ UNCHANGED <<clock, date, grantVars, quote>> /\ purchases' = [purchases EXCEPT ![p] = new]
        /\ listed' = [listed EXCEPT !.purchases = @ \ {p}]
    BY <1>7 DEF BillingReconcileMark, eventVars
  <2>4. new \in PurchaseRecords /\ new.settledAt = purchases[p].settledAt
    BY <2>2 DEF PurchaseRecords
  <2>. HIDE DEF p, new
  <2>5. listed' \in [events : SUBSET EventIds, purchases : SUBSET Purchases]
    BY <1>1, <2>3
  <2>6. PurchaseTypes'
    BY <2>2, <2>3, <2>4, <2>5, PurchaseChanges
  <2>. QED  BY <1>1, <2>3, <2>6, GrantsStay
<1>. QED  BY <1>3, <1>4, <1>6, <1>7

-----------------------------------------------------------------------------

LEMMA InvInit == Init => IInv
<1>. SUFFICES ASSUME Init
              PROVE  IInv
  OBVIOUS
<1>1. GrantTypes
  BY EventPlansAssumption DEF Init, GrantTypes
<1>2. PurchaseTypes
  BY DEF Init, PurchaseTypes, NothingListed, Purchases
<1>3. OneInForce
  BY DEF Init, OneInForce
<1>. QED  BY <1>1, <1>2, <1>3 DEF IInv

LEMMA InvHolds == IInv /\ [Next]_vars => IInv'
<1>. SUFFICES ASSUME IInv, [Next]_vars
              PROVE  IInv'
  OBVIOUS
<1>1. CASE \E e \in EventIds : EventStep(e)
  BY <1>1, EventStepKeeps
<1>2. CASE \E p \in Purchases : PurchaseStep(p)
  BY <1>2, PurchaseStepKeeps
<1>3. CASE \/ BackfillCandidates \/ BackfillVisit
           \/ UnappliedSettled \/ BillingReconcileGrant \/ BillingReconcileMark
           \/ PlanctlStops
  BY <1>3, PlanctlKeeps
<1>4. CASE CreatePurchase
  <2>1. clock \in Nat /\ clock <= clock /\ date \in [EventIds -> Nat]
    BY DEF IInv, GrantTypes
  <2>2. UNCHANGED <<clock, date, grantVars>>
    BY <1>4 DEF CreatePurchase, eventVars
  <2>. QED  BY <1>4, <2>1, <2>2, GrantsStay, CreatePurchaseKeeps DEF IInv
<1>5. CASE Tick
  <2>1. clock' \in Nat /\ clock <= clock' /\ date \in [EventIds -> Nat]
    BY <1>5 DEF Tick, IInv, GrantTypes
  <2>2. UNCHANGED <<date, grantVars, purchases, quote, listed>>
    BY <1>5 DEF Tick, eventVars
  <2>. QED  BY <2>1, <2>2, GrantsStay, PurchasesStay DEF IInv
<1>6. CASE UNCHANGED vars
  <2>1. clock \in Nat /\ clock <= clock /\ date \in [EventIds -> Nat]
    BY DEF IInv, GrantTypes
  <2>2. UNCHANGED <<clock, date, grantVars, purchases, quote, listed>>
    BY <1>6 DEF vars, eventVars
  <2>. QED  BY <2>1, <2>2, GrantsStay, PurchasesStay DEF IInv
<1>. QED  BY <1>1, <1>2, <1>3, <1>4, <1>5, <1>6 DEF Next

LEMMA Inductive == Spec => []IInv
BY InvInit, InvHolds, PTL DEF Spec

\* The one grant in force is the one ActiveGrant finds, and its limits are the
\* row's.
LEMMA RowFits == IInv => RowFollowsGrant
<1>. SUFFICES ASSUME IInv, NEW e \in EventIds, grants[e] # <<>>
              PROVE  /\ HasGrant(e)
                     /\ LET r == ActiveGrant(e).rank
                        IN /\ row[e].items = Plans[r].items
                           /\ Plans[r].bytes > 0 => row[e].bytes = Plans[r].bytes
  BY DEF RowFollowsGrant
<1>1. PICK i \in DOMAIN grants[e] :
         /\ grants[e][i].status = "active"
         /\ \A j \in DOMAIN grants[e] : grants[e][j].status = "active" => j = i
         /\ Fits(grants[e][i].rank, row[e])
  BY DEF IInv, OneInForce
<1>2. HasGrant(e)
  BY <1>1 DEF HasGrant, With
<1>3. ActiveIndex(e) = i
  BY <1>1, <1>2, ActiveIs DEF IInv
<1>. QED  BY <1>1, <1>2, <1>3 DEF ActiveGrant, Fits

\* What the invariant leaves out of TypeOK.
Others == changes \in Nat /\ status \in [EventIds -> {"none", "live", "deleted"}]

LEMMA OthersKeep == Others /\ [Next]_vars => Others'
<1>. SUFFICES ASSUME Others, [Next]_vars
              PROVE  Others'
  OBVIOUS
<1>. USE DEF Others
<1>1. ASSUME NEW e \in EventIds, EventStep(e)
      PROVE  Others'
  <2>1. CASE \E d \in Dates : Provision(e, d) \/ UpdateDate(e, d)
    BY <2>1 DEF Provision, UpdateDate, Counted
  <2>2. CASE Delete(e) \/ Revoke(e)
    BY <2>2 DEF Delete, Revoke, Counted, eventVars
  <2>3. CASE \E r \in Ranks, t \in Tickets : Grant(e, r, t)
    BY <2>3 DEF Grant, Counted, eventVars
  <2>4. CASE \E r \in Ranks : QuoteEventPurchase(e, r)
    BY <2>4 DEF QuoteEventPurchase, eventVars
  <2>. QED  BY <1>1, <2>1, <2>2, <2>3, <2>4 DEF EventStep
<1>2. ASSUME NEW p \in Purchases, PurchaseStep(p)
      PROVE  Others'
  BY <1>2 DEF PurchaseStep, SettlePurchase, Refund, ActivatePurchase, MarkEntitlementApplied,
              Counted, eventVars
<1>3. CASE BackfillCandidates \/ BackfillVisit
  BY <1>3 DEF BackfillCandidates, BackfillVisit, Counted, eventVars
<1>4. CASE UnappliedSettled \/ BillingReconcileGrant \/ BillingReconcileMark \/ PlanctlStops
  BY <1>4 DEF UnappliedSettled, BillingReconcileGrant, BillingReconcileMark, PlanctlStops,
              Counted, eventVars
<1>5. CASE CreatePurchase \/ Tick \/ UNCHANGED vars
  BY <1>5 DEF CreatePurchase, Tick, vars, eventVars
<1>. QED  BY <1>1, <1>2, <1>3, <1>4, <1>5 DEF Next

LEMMA OneActive == IInv => \A e \in EventIds : Cardinality(With(e, "active")) <= 1
<1>. SUFFICES ASSUME IInv, NEW e \in EventIds
              PROVE  Cardinality(With(e, "active")) <= 1
  OBVIOUS
<1>1. CASE With(e, "active") = {}
  BY <1>1, FS_EmptySet
<1>2. CASE With(e, "active") # {}
  <2>1. grants[e] # <<>>
    BY <1>2 DEF With
  <2>2. PICK i \in DOMAIN grants[e] :
           \A j \in DOMAIN grants[e] : grants[e][j].status = "active" => j = i
    BY <2>1 DEF IInv, OneInForce
  <2>3. With(e, "active") = {i}
    BY <1>2, <2>2 DEF With
  <2>. QED  BY <2>3, FS_Singleton
<1>. QED  BY <1>1, <1>2

\* Types, and at most one active grant of an event, the promise of the partial
\* unique index on active grants (grant_service.go, writeGrant).
THEOREM PlansTypeCorrect == Spec => []TypeOK
<1>1. Init => Others
  BY EventPlansAssumption DEF Init, Others
<1>2. IInv /\ Others => TypeOK
  <2>. SUFFICES ASSUME IInv, Others
                PROVE  TypeOK
    OBVIOUS
  <2>1. \A p \in Purchases : /\ purchases[p].status \in {"open", "settled", "refunded"}
                             /\ purchases[p].license \in {"none", "consumed"}
    <3>1. \A p \in Purchases : purchases[p] \in PurchaseRecords
      BY DEF IInv, PurchaseTypes, Purchases
    <3>. QED  BY <3>1 DEF PurchaseRecords
  <2>2. listed.events \subseteq EventIds /\ listed.purchases \subseteq Purchases
    BY DEF IInv, PurchaseTypes
  <2>3. \A e \in EventIds : Cardinality(With(e, "active")) <= 1
    BY OneActive
  <2>. QED  BY <2>1, <2>2, <2>3 DEF TypeOK, IInv, GrantTypes, Others
<1>. QED  BY <1>1, <1>2, OthersKeep, Inductive, PTL DEF Spec

\* What `planctl reconcile` counts as a violation never occurs, in whatever
\* order plans are granted by checkout, by the operator and by its batches, and
\* revoked (grant_service.go, writeGrant and Revoke).
THEOREM RowsFollow == Spec => []RowFollowsGrant
BY Inductive, RowFits, PTL

-----------------------------------------------------------------------------
(* What a step does to the grants *)

LEMMA SupersededIs ==
    ASSUME NEW g \in GrantRecords
    PROVE  /\ Superseded(g) \in GrantRecords
           /\ Superseded(g).rank = g.rank /\ Superseded(g).at = g.at
           /\ Superseded(g).until = g.until /\ Superseded(g).source = g.source
           /\ Superseded(g).ref = g.ref
           /\ Superseded(g).status = IF g.status = "revoked" THEN "revoked" ELSE "superseded"
BY DEF Superseded, GrantRecords

LEMMA GrantsAre ==
    ASSUME GrantTypes, NEW e \in EventIds
    PROVE  /\ grants[e] \in Seq(GrantRecords)
           /\ Len(grants[e]) \in Nat /\ DOMAIN grants[e] = 1..Len(grants[e])
           /\ \A i \in DOMAIN grants[e] :
                 /\ grants[e][i] \in GrantRecords
                 /\ grants[e][i].rank \in Ranks /\ grants[e][i].rank \in Nat \ {0}
                 /\ grants[e][i].at \in Nat /\ grants[e][i].at <= clock
                 /\ grants[e][i].until \in Nat
                 /\ grants[e][i].status \in {"active", "superseded", "revoked"}
           /\ grants[e] # <<>> => 1 \in DOMAIN grants[e]
<1>1. grants[e] \in Seq(GrantRecords)
  BY DEF GrantTypes
<1>2. Len(grants[e]) \in Nat /\ DOMAIN grants[e] = 1..Len(grants[e])
  BY <1>1
<1>3. \A i \in DOMAIN grants[e] : grants[e][i] \in GrantRecords
  BY <1>1
<1>4. grants[e] # <<>> => 1 \in DOMAIN grants[e]
  BY <1>1, <1>2
<1>5. Ranks \subseteq Nat \ {0}
  BY PricingAssumption DEF Ranks
<1>. QED  BY <1>1, <1>2, <1>3, <1>4, <1>5 DEF GrantRecords, GrantTypes

\* Event e gets the grant new on top, and no other event gets any.
Appended(e, new) ==
    /\ DOMAIN grants'[e] = 1..Len(grants[e]) + 1
    /\ \A i \in 1..Len(grants[e]) : grants'[e][i] = Superseded(grants[e][i])
    /\ grants'[e][Len(grants[e]) + 1] = new
    /\ \A d \in EventIds \ {e} : grants'[d] = grants[d]

LEMMA WriteGrantIs ==
    ASSUME GrantTypes, NEW e \in EventIds, NEW r, NEW source, NEW ref, NEW at,
           WriteGrant(e, r, source, ref, at)
    PROVE  Appended(e, [rank |-> r, source |-> source, ref |-> ref, status |-> "active",
                        at |-> at, until |-> Window(e, at, r)])
<1>. DEFINE g == grants[e]
            old == [i \in DOMAIN g |-> Superseded(g[i])]
            new == [rank |-> r, source |-> source, ref |-> ref, status |-> "active",
                    at |-> at, until |-> Window(e, at, r)]
<1>1. Len(g) \in Nat /\ DOMAIN g = 1..Len(g) /\ \A i \in DOMAIN g : g[i] \in GrantRecords
  BY GrantsAre
<1>2. old \in Seq(GrantRecords \cup {new}) /\ Len(old) = Len(g)
  <2>1. old \in [1..Len(g) -> GrantRecords \cup {new}]
    BY <1>1, SupersededIs
  <2>. HIDE DEF old
  <2>2. old \in Seq(GrantRecords \cup {new})
    BY <1>1, <2>1, SeqDef
  <2>. QED  BY <1>1, <2>1, <2>2, LenProperties
<1>3. grants' = [grants EXCEPT ![e] = Append(old, new)]
  BY DEF WriteGrant
<1>4. \A i \in 1..Len(g) : old[i] = Superseded(g[i])
  BY <1>1
<1>5. grants'[e] = Append(old, new) /\ \A d \in EventIds \ {e} : grants'[d] = grants[d]
  BY <1>3 DEF GrantTypes
<1>. HIDE DEF old, new
<1>6. /\ DOMAIN Append(old, new) = 1..Len(g) + 1
      /\ \A i \in 1..Len(g) : Append(old, new)[i] = old[i]
      /\ Append(old, new)[Len(g) + 1] = new
  BY <1>1, <1>2
<1>. QED  BY <1>4, <1>5, <1>6 DEF Appended, new, g

\* A grant comes from a purchase that was paid, for the rank that was bought.
Bills(new, e) ==
    /\ new.source = "system" => new.rank = Free /\ grants[e] = <<>>
    /\ new.source \in {"purchase", "external"} =>
          /\ new.ref \in Purchases
          /\ purchases[new.ref].event = e
          /\ purchases[new.ref].status # "open"
          /\ purchases[new.ref].terms.rank = new.rank

Pushes(e, new) ==
    /\ new \in GrantRecords /\ new.status = "active" /\ new.at <= clock
    /\ Upward(HeldRank(e), new.rank)
    /\ HasGrant(e) => ActiveGrant(e).until <= new.until
    /\ grants[e] # <<>> => grants[e][1].at <= new.at
    /\ status'[e] # "none"
    /\ Bills(new, e)
    /\ Appended(e, new)

\* What came first: the event, its first grant, its purchases, their payment.
History ==
    /\ \A e \in EventIds : status[e] = "none" => grants[e] = <<>>
    /\ \A e \in EventIds : \A i \in DOMAIN grants[e] : grants[e][1].at <= grants[e][i].at
    /\ \A p \in Purchases :
          /\ grants[purchases[p].event] # <<>>
          /\ purchases[p].status # "open" =>
                grants[purchases[p].event][1].at <= purchases[p].settledAt
    /\ quote # NoQuote => grants[quote.event] # <<>>
    /\ \A p \in listed.purchases : purchases[p].status # "open"

LEMMA WritePushes ==
    ASSUME GrantTypes, NEW e \in EventIds, NEW r \in Ranks,
           NEW source \in {"manual", "migration", "purchase", "external"},
           NEW ref \in Nat \cup Tickets, NEW at \in Nat, at <= clock,
           WriteGrant(e, r, source, ref, at),
           Upward(HeldRank(e), r), status'[e] # "none",
           grants[e] # <<>> => grants[e][1].at <= at,
           source \in {"purchase", "external"} =>
              /\ ref \in Purchases /\ purchases[ref].event = e
              /\ purchases[ref].status # "open" /\ purchases[ref].terms.rank = r
    PROVE  \E new : Pushes(e, new)
<1>. DEFINE new == [rank |-> r, source |-> source, ref |-> ref, status |-> "active",
                    at |-> at, until |-> Window(e, at, r)]
<1>1. Window(e, at, r) \in Nat /\ (HasGrant(e) => ActiveGrant(e).until <= Window(e, at, r))
  <2>1. Expiry(date[e], at, r) \in Nat
    BY ExpiryIs DEF GrantTypes
  <2>2. HasGrant(e) => ActiveGrant(e).until \in Nat
    BY ActiveIs DEF GrantRecords
  <2>. QED  BY <2>1, <2>2 DEF Window, Later
<1>2. new \in GrantRecords
  BY <1>1 DEF GrantRecords
<1>3. /\ new.rank = r /\ new.source = source /\ new.ref = ref /\ new.status = "active"
      /\ new.at = at /\ new.until = Window(e, at, r)
  OBVIOUS
<1>4. Appended(e, new)
  BY WriteGrantIs
<1>. HIDE DEF new
<1>5. Bills(new, e)
  BY <1>3 DEF Bills
<1>6. Pushes(e, new)
  BY <1>1, <1>2, <1>3, <1>4, <1>5 DEF Pushes
<1>. QED  BY <1>6

LEMMA ProvisionPushes ==
    ASSUME GrantTypes, History, status \in [EventIds -> {"none", "live", "deleted"}],
           NEW e \in EventIds, NEW d \in Dates, Provision(e, d)
    PROVE  \E new : Pushes(e, new)
<1>. DEFINE new == [rank |-> Free, source |-> "system", ref |-> e, status |-> "active",
                    at |-> clock, until |-> Expiry(d, clock, Free)]
<1>1. new \in GrantRecords
  BY FreeIs, ExpiryIs, EventPlansAssumption DEF GrantTypes, GrantRecords
<1>2. /\ new.rank = Free /\ new.source = "system" /\ new.status = "active" /\ new.at = clock
  OBVIOUS
<1>3. grants[e] = <<>> /\ Len(grants[e]) = 0
  BY DEF Provision, History
<1>4. grants'[e] = <<new>> /\ \A c \in EventIds \ {e} : grants'[c] = grants[c]
  BY DEF Provision, GrantTypes
<1>5. status'[e] # "none"
  BY DEF Provision
<1>6. HeldRank(e) = {} /\ ~HasGrant(e)
  BY <1>3 DEF HeldRank, HasGrant, With
<1>. HIDE DEF new
<1>7. Appended(e, new)
  BY <1>3, <1>4 DEF Appended
<1>8. clock <= clock
  BY DEF GrantTypes
<1>9. Bills(new, e)
  BY <1>2, <1>3 DEF Bills
<1>10. Pushes(e, new)
  BY <1>1, <1>2, <1>3, <1>5, <1>6, <1>7, <1>8, <1>9 DEF Pushes, Upward
<1>. QED  BY <1>10

\* Every step leaves the grants alone, pushes one or revokes one.
LEMMA Moves ==
    ASSUME IInv, History, Others, Next
    PROVE  \/ grants' = grants
           \/ \E e \in EventIds, new \in GrantRecords : Pushes(e, new)
           \/ \E e \in EventIds : Revoke(e)
<1>. USE DEF IInv, Others
<1>0. clock \in Nat /\ clock <= clock
  BY DEF GrantTypes
<1>1. ASSUME NEW e \in EventIds, NEW new, Pushes(e, new)
      PROVE  \E d \in EventIds, g \in GrantRecords : Pushes(d, g)
  BY <1>1 DEF Pushes
<1>2. \A e \in EventIds : grants[e] # <<>> => grants[e][1].at <= clock
  BY GrantsAre
<1>3. ASSUME NEW e \in EventIds, EventStep(e)
      PROVE  grants' = grants \/ (\E new : Pushes(e, new)) \/ Revoke(e)
  <2>1. CASE \E d \in Dates : Provision(e, d)
    BY <2>1, ProvisionPushes
  <2>2. CASE \/ \E d \in Dates : UpdateDate(e, d)
             \/ Delete(e)
             \/ \E r \in Ranks : QuoteEventPurchase(e, r)
    BY <2>2 DEF UpdateDate, Delete, QuoteEventPurchase, grantVars
  <2>3. CASE \E r \in Ranks, t \in Tickets : Grant(e, r, t)
    <3>1. PICK r \in Ranks, t \in Tickets : Grant(e, r, t)
      BY <2>3
    <3>2. /\ WriteGrant(e, r, "manual", t, clock) /\ Upward(HeldRank(e), r)
          /\ status'[e] # "none"
      BY <3>1 DEF Grant, Activable, eventVars
    <3>. QED  BY <1>0, <1>2, <3>2, WritePushes
  <2>. QED  BY <1>3, <2>1, <2>2, <2>3 DEF EventStep
<1>4. ASSUME NEW p \in Purchases, PurchaseStep(p)
      PROVE  grants' = grants \/ \E e \in EventIds : \E new : Pushes(e, new)
  <2>1. CASE SettlePurchase(p) \/ Refund(p) \/ MarkEntitlementApplied(p)
    BY <2>1 DEF SettlePurchase, Refund, MarkEntitlementApplied, grantVars
  <2>2. CASE ActivatePurchase(p)
    <3>. DEFINE e == purchases[p].event
                r == purchases[p].terms.rank
                at == purchases[p].settledAt
    <3>1. /\ e \in EventIds /\ r \in Ranks /\ at \in Nat /\ at <= clock /\ p \in Nat
          /\ purchases[p].status # "open"
      <4>1. purchases[p] \in PurchaseRecords /\ at <= clock /\ p \in Nat
        BY DEF PurchaseTypes, Purchases
      <4>. QED  BY <2>2, <4>1 DEF PurchaseRecords, Terms, ActivatePurchase
    <3>2. /\ WriteGrant(e, r, "purchase", p, at) /\ Upward(HeldRank(e), r)
          /\ status'[e] # "none"
      BY <2>2 DEF ActivatePurchase, eventVars
    <3>3. grants[e] # <<>> => grants[e][1].at <= at
      BY <3>1 DEF History
    <3>4. \E new : Pushes(e, new)
      BY <3>1, <3>2, <3>3, WritePushes
    <3>. QED  BY <3>1, <3>4
  <2>. QED  BY <1>4, <2>1, <2>2 DEF PurchaseStep
<1>5. CASE BackfillVisit
  <2>. DEFINE e == Min(listed.events)
  <2>1. e \in EventIds /\ e \in Nat
    BY <1>5, MinIn, EventPlansAssumption DEF BackfillVisit, PurchaseTypes
  <2>2. \/ /\ WriteGrant(e, Legacy, "migration", e, clock)
           /\ Upward(HeldRank(e), Legacy) /\ status'[e] # "none"
        \/ grants' = grants
    BY <1>5 DEF BackfillVisit, Activable, grantVars, eventVars
  <2>3. Legacy \in Ranks
    BY EventPlansAssumption
  <2>4. CASE grants' # grants
    <3>. HIDE DEF e
    <3>1. \E new : Pushes(e, new)
      BY <1>0, <1>2, <2>1, <2>2, <2>3, <2>4, WritePushes
    <3>. QED  BY <1>1, <2>1, <3>1
  <2>. QED  BY <2>4
<1>6. CASE BillingReconcileGrant
  <2>. DEFINE p == Min(listed.purchases)
              e == purchases[p].event
              r == purchases[p].terms.rank
              at == purchases[p].settledAt
  <2>1. p \in Purchases /\ p \in Nat /\ purchases[p].status # "open"
    <3>1. listed.purchases \subseteq Purchases /\ Purchases \subseteq Nat
      BY DEF PurchaseTypes, Purchases
    <3>2. p \in listed.purchases
      BY <1>6, <3>1, MinIn DEF BillingReconcileGrant
    <3>. QED  BY <3>1, <3>2 DEF History
  <2>2. e \in EventIds /\ r \in Ranks /\ at \in Nat /\ at <= clock
    <3>1. purchases[p] \in PurchaseRecords /\ at <= clock
      BY <2>1 DEF PurchaseTypes, Purchases
    <3>. QED  BY <3>1 DEF PurchaseRecords, Terms
  <2>3. \/ /\ WriteGrant(e, r, "external", p, at) /\ Upward(HeldRank(e), r)
           /\ status'[e] # "none"
        \/ grants' = grants
    BY <1>6 DEF BillingReconcileGrant, Activable, grantVars, eventVars
  <2>4. grants[e] # <<>> => grants[e][1].at <= at
    BY <2>1 DEF History
  <2>5. CASE grants' # grants
    <3>1. \E new : Pushes(e, new)
      <4>. HIDE DEF p
      <4>. QED  BY <2>1, <2>2, <2>3, <2>4, <2>5, WritePushes
    <3>. QED  BY <1>1, <2>2, <3>1
  <2>. QED  BY <2>5
<1>7. CASE \/ BackfillCandidates \/ UnappliedSettled \/ BillingReconcileMark
           \/ PlanctlStops \/ CreatePurchase \/ Tick
  BY <1>7 DEF BackfillCandidates, UnappliedSettled, BillingReconcileMark,
              PlanctlStops, CreatePurchase, Tick, grantVars
<1>. QED  BY <1>1, <1>3, <1>4, <1>5, <1>6, <1>7 DEF Next

\* What Revoke leaves: the active grant a is revoked and the newest of the
\* superseded ones, b, in force again.
LEMMA RevokeIs ==
    ASSUME GrantTypes, NEW e \in EventIds, Revoke(e)
    PROVE  \E a, b \in DOMAIN grants[e] :
              /\ a = ActiveIndex(e) /\ b = Newest(e, With(e, "superseded")) /\ a # b
              /\ grants[e][a].status = "active" /\ grants[e][b].status = "superseded"
              /\ \A j \in With(e, "superseded") :
                    \/ grants[e][j].at < grants[e][b].at
                    \/ grants[e][j].at = grants[e][b].at /\ j <= b
              /\ DOMAIN grants'[e] = DOMAIN grants[e]
              /\ grants'[e][a] = [grants[e][a] EXCEPT !.status = "revoked"]
              /\ grants'[e][b] = [grants[e][b] EXCEPT !.status = "active"]
              /\ \A i \in DOMAIN grants[e] \ {a, b} : grants'[e][i] = grants[e][i]
              /\ \A d \in EventIds \ {e} : grants'[d] = grants[d]
              /\ status' = status
<1>. DEFINE a == ActiveIndex(e)
            b == Newest(e, With(e, "superseded"))
            g == grants[e]
<1>1. a \in DOMAIN g /\ g[a].status = "active"
  BY ActiveIs DEF Revoke
<1>2. With(e, "superseded") # {}
  BY DEF Revoke
<1>3. /\ b \in DOMAIN g /\ g[b].status = "superseded" /\ a # b
      /\ \A j \in With(e, "superseded") :
            \/ g[j].at < g[b].at
            \/ g[j].at = g[b].at /\ j <= b
  <2>1. b \in With(e, "superseded")
    BY <1>2, NewestIn
  <2>2. b \in DOMAIN g /\ g[b].status = "superseded" /\ a # b
    <3>. HIDE DEF a, b
    <3>. QED  BY <1>1, <2>1 DEF With
  <2>. QED  BY <1>2, <2>2, NewestIn
<1>4. grants' = [grants EXCEPT ![e][a].status = "revoked", ![e][b].status = "active"] /\ status' = status
  BY DEF Revoke, eventVars
<1>. HIDE DEF a, b
<1>5. grants'[e] = [g EXCEPT ![a].status = "revoked", ![b].status = "active"]
  BY <1>4 DEF GrantTypes
<1>6. \A d \in EventIds \ {e} : grants'[d] = grants[d]
  BY <1>4 DEF GrantTypes
<1>7. /\ DOMAIN grants'[e] = DOMAIN g
      /\ grants'[e][a] = [g[a] EXCEPT !.status = "revoked"]
      /\ grants'[e][b] = [g[b] EXCEPT !.status = "active"]
      /\ \A i \in DOMAIN g \ {a, b} : grants'[e][i] = g[i]
  BY <1>1, <1>3, <1>5
<1>. QED  BY <1>1, <1>3, <1>4, <1>6, <1>7 DEF a, b

\* No step removes a grant or changes anything but its status, and a revoked
\* one stays so.
Continues(e) ==
    \A i \in DOMAIN grants[e] :
        /\ i \in DOMAIN grants'[e]
        /\ grants'[e][i].rank = grants[e][i].rank
        /\ grants'[e][i].source = grants[e][i].source
        /\ grants'[e][i].ref = grants[e][i].ref
        /\ grants'[e][i].at = grants[e][i].at
        /\ grants[e][i].status = "revoked" => grants'[e][i].status = "revoked"

LEMMA GrantsContinue ==
    ASSUME IInv, History, Others, Next
    PROVE  \A e \in EventIds : Continues(e)
<1>. USE DEF IInv
<1>1. CASE grants' = grants
  BY <1>1 DEF Continues
<1>2. ASSUME NEW e \in EventIds, NEW new \in GrantRecords, Pushes(e, new)
      PROVE  \A d \in EventIds : Continues(d)
  <2>1. \A d \in EventIds \ {e} : Continues(d)
    BY <1>2 DEF Continues, Pushes, Appended
  <2>2. ASSUME NEW i \in DOMAIN grants[e]
        PROVE  /\ i \in DOMAIN grants'[e] /\ grants'[e][i] = Superseded(grants[e][i])
               /\ grants[e][i] \in GrantRecords
    <3>1. Len(grants[e]) \in Nat /\ DOMAIN grants[e] = 1..Len(grants[e]) /\ grants[e][i] \in GrantRecords
      BY GrantsAre
    <3>. QED  BY <1>2, <3>1 DEF Pushes, Appended
  <2>3. Continues(e)
    BY <2>2, SupersededIs DEF Continues
  <2>. QED  BY <2>1, <2>3
<1>3. ASSUME NEW e \in EventIds, Revoke(e)
      PROVE  \A d \in EventIds : Continues(d)
  <2>1. PICK a \in DOMAIN grants[e], b \in DOMAIN grants[e] :
              /\ a # b /\ grants[e][a].status = "active" /\ grants[e][b].status = "superseded"
              /\ DOMAIN grants'[e] = DOMAIN grants[e]
              /\ grants'[e][a] = [grants[e][a] EXCEPT !.status = "revoked"]
              /\ grants'[e][b] = [grants[e][b] EXCEPT !.status = "active"]
              /\ \A i \in DOMAIN grants[e] \ {a, b} : grants'[e][i] = grants[e][i]
              /\ \A d \in EventIds \ {e} : grants'[d] = grants[d]
    BY <1>3, RevokeIs
  <2>2. \A d \in EventIds \ {e} : Continues(d)
    BY <2>1 DEF Continues
  <2>3. grants[e][a] \in GrantRecords /\ grants[e][b] \in GrantRecords
    BY GrantsAre
  <2>4. Continues(e)
    BY <2>1, <2>3 DEF Continues, GrantRecords
  <2>. QED  BY <2>2, <2>4
<1>. QED  BY <1>1, <1>2, <1>3, Moves

\* A grant that was not there before was pushed.
LEMMA NewGrant ==
    ASSUME IInv, History, Others, Next, NEW e \in EventIds,
           NEW i \in DOMAIN grants'[e], i \notin DOMAIN grants[e]
    PROVE  /\ i = Len(grants[e]) + 1
           /\ \E new \in GrantRecords : Pushes(e, new) /\ grants'[e][i] = new
<1>. USE DEF IInv
<1>1. PICK new \in GrantRecords : Pushes(e, new)
  <2>1. grants'[e] # grants[e]
    OBVIOUS
  <2>2. \A d \in EventIds, g \in GrantRecords : Pushes(d, g) => d = e
    BY <2>1 DEF Pushes, Appended
  <2>3. ASSUME NEW d \in EventIds, Revoke(d)
        PROVE  FALSE
    BY <2>1, <2>3, RevokeIs
  <2>. QED  BY <2>1, <2>2, <2>3, Moves
<1>2. /\ DOMAIN grants'[e] = 1..Len(grants[e]) + 1
      /\ grants'[e][Len(grants[e]) + 1] = new
  BY <1>1 DEF Pushes, Appended
<1>3. Len(grants[e]) \in Nat /\ DOMAIN grants[e] = 1..Len(grants[e])
  BY GrantsAre
<1>4. i = Len(grants[e]) + 1
  BY <1>2, <1>3
<1>. QED  BY <1>1, <1>2, <1>4

\* The first grant of an event is the earliest it ever has.
LEMMA FirstStays ==
    ASSUME IInv, History, Others, Next, NEW e \in EventIds
    PROVE  /\ grants[e] # <<>> => grants'[e] # <<>> /\ grants'[e][1].at = grants[e][1].at
           /\ \A i \in DOMAIN grants'[e] : grants'[e][1].at <= grants'[e][i].at
<1>. USE DEF IInv
<1>1. Continues(e)
  BY GrantsContinue
<1>2. grants[e] # <<>> => 1 \in DOMAIN grants[e]
  BY GrantsAre
<1>3. grants[e] # <<>> => grants'[e] # <<>> /\ grants'[e][1].at = grants[e][1].at
  <2>1. 1 \notin DOMAIN <<>>
    OBVIOUS
  <2>. QED  BY <1>1, <1>2, <2>1 DEF Continues
<1>4. ASSUME NEW i \in DOMAIN grants'[e]
      PROVE  grants'[e][1].at <= grants'[e][i].at
  <2>1. CASE i \in DOMAIN grants[e]
    <3>1. grants'[e][i].at = grants[e][i].at /\ grants[e][1].at <= grants[e][i].at
      BY <1>1, <2>1 DEF Continues, History
    <3>2. grants[e] # <<>>
      BY <2>1
    <3>. QED  BY <1>3, <3>1, <3>2
  <2>2. CASE i \notin DOMAIN grants[e]
    <3>1. PICK new \in GrantRecords : Pushes(e, new) /\ grants'[e][i] = new
      BY <2>2, NewGrant
    <3>2. i = Len(grants[e]) + 1 /\ (grants[e] # <<>> => grants[e][1].at <= new.at)
      BY <2>2, <3>1, NewGrant DEF Pushes
    <3>3. grants[e] = <<>> => Len(grants[e]) = 0
      OBVIOUS
    <3>4. new.at \in Nat
      BY DEF GrantRecords
    <3>. QED  BY <1>3, <3>1, <3>2, <3>3, <3>4
  <2>. QED  BY <2>1, <2>2
<1>. QED  BY <1>3, <1>4

-----------------------------------------------------------------------------
(* What a step does to the purchases *)

\* A purchase keeps its event and its terms, and is paid once.
Proceeds(p) ==
    /\ p \in Purchases'
    /\ purchases'[p].event = purchases[p].event /\ purchases'[p].terms = purchases[p].terms
    /\ IF purchases[p].status = "open" /\ purchases'[p].status # "open"
         THEN purchases'[p].status = "settled" /\ purchases'[p].settledAt = clock
         ELSE purchases'[p].settledAt = purchases[p].settledAt
    /\ purchases[p].status # "open" => purchases'[p].status # "open"
    /\ purchases[p].status = "refunded" => purchases'[p].status = "refunded"

Enters(p) ==
    /\ CreatePurchase /\ quote # NoQuote /\ Of(quote.event, {"open"}) = {}
    /\ p = Len(purchases) + 1
    /\ purchases'[p].event = quote.event /\ purchases'[p].terms = quote.terms
    /\ purchases'[p].status = "open" /\ purchases'[p].license = "none"
    /\ ~purchases'[p].applied

LEMMA PurchasesAre ==
    ASSUME PurchaseTypes
    PROVE  /\ Len(purchases) \in Nat /\ Purchases = 1..Len(purchases)
           /\ \A p \in Purchases :
                 /\ purchases[p] \in PurchaseRecords /\ purchases[p].event \in EventIds
                 /\ purchases[p].terms \in Terms /\ purchases[p].terms.final \in Nat
                 /\ purchases[p].terms.base \in Nat /\ purchases[p].terms.rank \in Ranks
                 /\ purchases[p].settledAt \in Nat
                 /\ purchases[p].status \in {"open", "settled", "refunded"}
<1>1. purchases \in Seq(PurchaseRecords)
  BY DEF PurchaseTypes
<1>2. Len(purchases) \in Nat /\ Purchases = 1..Len(purchases)
  BY <1>1 DEF Purchases
<1>3. \A p \in Purchases : purchases[p] \in PurchaseRecords
  BY <1>1 DEF Purchases
<1>. QED  BY <1>2, <1>3 DEF PurchaseRecords, Terms

LEMMA PurchasesContinue ==
    ASSUME IInv, Next
    PROVE  /\ \A p \in Purchases : Proceeds(p)
           /\ \A p \in Purchases' \ Purchases : Enters(p)
<1>. USE DEF IInv
<1>1. CASE purchases' = purchases
  BY <1>1 DEF Proceeds, Purchases
<1>2. ASSUME NEW p \in Purchases,
             \/ SettlePurchase(p)
             \/ PurchaseStep(p) /\ ~SettlePurchase(p)
             \/ BillingReconcileMark /\ p = Min(listed.purchases)
      PROVE  Purchases' = Purchases /\ \A q \in Purchases : Proceeds(q)
  <2>1. purchases[p] \in PurchaseRecords
    BY PurchasesAre
  <2>2. CASE SettlePurchase(p)
    <3>1. /\ purchases' = [purchases EXCEPT ![p].status = "settled", ![p].settledAt = clock]
          /\ purchases[p].status = "open"
      BY <2>2 DEF SettlePurchase
    <3>2. /\ Purchases' = Purchases
          /\ purchases'[p] = [purchases[p] EXCEPT !.status = "settled", !.settledAt = clock]
          /\ \A q \in Purchases \ {p} : purchases'[q] = purchases[q]
      BY <3>1 DEF Purchases
    <3>3. /\ purchases'[p].event = purchases[p].event /\ purchases'[p].terms = purchases[p].terms
          /\ purchases'[p].status = "settled" /\ purchases'[p].settledAt = clock
      BY <2>1, <3>2 DEF PurchaseRecords
    <3>4. Proceeds(p)
      BY <3>1, <3>2, <3>3 DEF Proceeds
    <3>. QED  BY <3>2, <3>4 DEF Proceeds
  <2>3. CASE ~SettlePurchase(p)
    <3>. DEFINE Becomes(new) ==
                   /\ purchases' = [purchases EXCEPT ![p] = new]
                   /\ new.event = purchases[p].event /\ new.terms = purchases[p].terms
                   /\ new.settledAt = purchases[p].settledAt
                   /\ (purchases[p].status = "open" <=> new.status = "open")
                   /\ (purchases[p].status = "refunded" => new.status = "refunded")
    <3>1. \E new : Becomes(new)
      <4>1. CASE Refund(p)
        <5>. DEFINE new == [purchases[p] EXCEPT !.status = "refunded"]
        <5>1. purchases' = [purchases EXCEPT ![p] = new] /\ purchases[p].status = "settled"
          BY <4>1 DEF Refund
        <5>2. /\ new.event = purchases[p].event
              /\ new.terms = purchases[p].terms /\ new.settledAt = purchases[p].settledAt
              /\ new.status = "refunded"
          BY <2>1 DEF PurchaseRecords
        <5>. QED  BY <5>1, <5>2
      <4>2. CASE ActivatePurchase(p)
        <5>. DEFINE new == [purchases[p] EXCEPT !.license = "consumed"]
        <5>1. purchases' = [purchases EXCEPT ![p] = new]
          BY <4>2 DEF ActivatePurchase
        <5>2. /\ new.event = purchases[p].event
              /\ new.terms = purchases[p].terms /\ new.settledAt = purchases[p].settledAt
              /\ new.status = purchases[p].status
          BY <2>1 DEF PurchaseRecords
        <5>. QED  BY <5>1, <5>2
      <4>3. CASE MarkEntitlementApplied(p) \/ (BillingReconcileMark /\ p = Min(listed.purchases))
        <5>. DEFINE new == [purchases[p] EXCEPT !.applied = TRUE]
        <5>1. purchases' = [purchases EXCEPT ![p] = new]
          BY <4>3 DEF MarkEntitlementApplied, BillingReconcileMark
        <5>2. /\ new.event = purchases[p].event
              /\ new.terms = purchases[p].terms /\ new.settledAt = purchases[p].settledAt
              /\ new.status = purchases[p].status
          BY <2>1 DEF PurchaseRecords
        <5>. QED  BY <5>1, <5>2
      <4>4. \/ Refund(p) \/ ActivatePurchase(p) \/ MarkEntitlementApplied(p)
            \/ BillingReconcileMark /\ p = Min(listed.purchases)
        BY <1>2, <2>3 DEF PurchaseStep
      <4>. HIDE DEF Becomes
      <4>. QED  BY <4>1, <4>2, <4>3, <4>4
    <3>5. PICK new : Becomes(new)
      BY <3>1
    <3>2. /\ Purchases' = Purchases /\ purchases'[p] = new
          /\ \A q \in Purchases \ {p} : purchases'[q] = purchases[q]
      BY <3>5 DEF Purchases
    <3>3. Proceeds(p)
      BY <3>5, <3>2 DEF Proceeds
    <3>. QED  BY <3>2, <3>3 DEF Proceeds
  <2>. QED  BY <2>2, <2>3
<1>3. CASE CreatePurchase /\ purchases' # purchases
  <2>. DEFINE new == [event |-> quote.event, terms |-> quote.terms, status |-> "open",
                      license |-> "none", applied |-> FALSE, settledAt |-> 0]
  <2>1. /\ purchases' = Append(purchases, new) /\ quote # NoQuote
        /\ Of(quote.event, {"open"}) = {}
    BY <1>3 DEF CreatePurchase
  <2>2. /\ new.event = quote.event /\ new.terms = quote.terms /\ new.status = "open"
        /\ new.license = "none" /\ ~new.applied
    OBVIOUS
  <2>3. purchases \in Seq(PurchaseRecords \cup {new}) /\ Len(purchases) \in Nat
        /\ Purchases = 1..Len(purchases)
    <3>1. purchases \in Seq(PurchaseRecords)
      BY DEF PurchaseTypes
    <3>. HIDE DEF new
    <3>. QED  BY <3>1, PurchasesAre
  <2>. HIDE DEF new
  <2>4. /\ Purchases' = 1..Len(purchases) + 1
        /\ \A p \in 1..Len(purchases) : purchases'[p] = purchases[p]
        /\ purchases'[Len(purchases) + 1] = new
    BY <2>1, <2>3 DEF Purchases
  <2>5. \A p \in Purchases : Proceeds(p)
    BY <2>3, <2>4 DEF Proceeds
  <2>6. \A p \in Purchases' \ Purchases : p = Len(purchases) + 1
    BY <2>3, <2>4
  <2>. QED  BY <1>3, <2>1, <2>2, <2>4, <2>5, <2>6 DEF Enters
<1>4. CASE \E p \in Purchases : PurchaseStep(p)
  BY <1>2, <1>4
<1>5. CASE BillingReconcileMark
  <2>1. Min(listed.purchases) \in Purchases
    <3>1. listed.purchases \subseteq Purchases /\ Purchases \subseteq Nat
      BY DEF PurchaseTypes, Purchases
    <3>. QED  BY <1>5, <3>1, MinIn DEF BillingReconcileMark
  <2>. QED  BY <1>2, <1>5, <2>1
<1>6. CASE \E e \in EventIds : EventStep(e)
  <2>1. purchases' = purchases
    BY <1>6 DEF EventStep, Provision, UpdateDate, Delete, Revoke, Grant, QuoteEventPurchase
  <2>. QED  BY <1>1, <2>1
<1>7. CASE \/ BackfillCandidates \/ BackfillVisit \/ UnappliedSettled
           \/ BillingReconcileGrant \/ PlanctlStops \/ Tick
  <2>1. purchases' = purchases
    BY <1>7 DEF BackfillCandidates, BackfillVisit, UnappliedSettled, BillingReconcileGrant,
                PlanctlStops, Tick
  <2>. QED  BY <1>1, <2>1
<1>. QED  BY <1>1, <1>3, <1>4, <1>5, <1>6, <1>7 DEF Next

\* A quote is about an event that has a plan and no open purchase.
LEMMA QuotesContinue ==
    ASSUME Next
    PROVE  \/ quote' = quote
           \/ quote' = NoQuote
           \/ \E e \in EventIds, r \in Ranks : QuoteEventPurchase(e, r)
<1>1. ASSUME NEW e \in EventIds, EventStep(e)
      PROVE  quote' = quote \/ \E r \in Ranks : QuoteEventPurchase(e, r)
  BY <1>1 DEF EventStep, Provision, UpdateDate, Delete, Revoke, Grant
<1>2. ASSUME NEW p \in Purchases, PurchaseStep(p)
      PROVE  quote' = quote
  BY <1>2 DEF PurchaseStep, SettlePurchase, Refund, ActivatePurchase, MarkEntitlementApplied
<1>3. CASE \/ BackfillCandidates \/ BackfillVisit \/ UnappliedSettled \/ BillingReconcileMark
           \/ BillingReconcileGrant \/ PlanctlStops \/ Tick \/ CreatePurchase
  BY <1>3 DEF BackfillCandidates, BackfillVisit, UnappliedSettled, BillingReconcileGrant,
              BillingReconcileMark, PlanctlStops, Tick, CreatePurchase
<1>. QED  BY <1>1, <1>2, <1>3 DEF Next

LEMMA ListsContinue ==
    ASSUME IInv, Next
    PROVE  \A p \in listed'.purchases :
              p \in listed.purchases \/ (p \in Purchases /\ purchases[p].status = "settled")
<1>0. listed \in [events : SUBSET EventIds, purchases : SUBSET Purchases]
  BY DEF IInv, PurchaseTypes
<1>1. ASSUME NEW e \in EventIds, EventStep(e)
      PROVE  listed' = listed
  BY <1>1 DEF EventStep, Provision, UpdateDate, Delete, Revoke, Grant, QuoteEventPurchase
<1>2. ASSUME NEW p \in Purchases, PurchaseStep(p)
      PROVE  listed' = listed
  BY <1>2 DEF PurchaseStep, SettlePurchase, Refund, ActivatePurchase, MarkEntitlementApplied
<1>3. ASSUME Tick \/ CreatePurchase
      PROVE  listed' = listed
  BY <1>3 DEF Tick, CreatePurchase
<1>4. ASSUME BackfillCandidates \/ PlanctlStops
      PROVE  listed'.purchases = {}
  BY <1>4 DEF BackfillCandidates, PlanctlStops, NothingListed
<1>5. ASSUME BackfillVisit \/ BillingReconcileGrant \/ BillingReconcileMark
      PROVE  listed'.purchases \subseteq listed.purchases
  BY <1>0, <1>5 DEF BackfillVisit, BillingReconcileGrant, BillingReconcileMark
<1>6. ASSUME UnappliedSettled
      PROVE  listed'.purchases = {p \in Purchases : purchases[p].status = "settled" /\ ~purchases[p].applied}
  BY <1>6 DEF UnappliedSettled
<1>7. \/ listed' = listed \/ listed'.purchases \subseteq listed.purchases
      \/ \A p \in listed'.purchases : p \in Purchases /\ purchases[p].status = "settled"
  BY <1>1, <1>2, <1>3, <1>4, <1>5, <1>6 DEF Next
<1>8. CASE listed'.purchases \subseteq listed.purchases
  BY <1>8
<1>9. CASE listed' = listed
  <2>1. listed'.purchases \subseteq listed.purchases
    BY <1>9
  <2>. QED  BY <1>8, <2>1
<1>. QED  BY <1>7, <1>8, <1>9

LEMMA StatusContinues ==
    ASSUME Others, Next, NEW e \in EventIds, status'[e] = "none"
    PROVE  status[e] = "none"
<1>. USE DEF Others
<1>1. ASSUME NEW d \in EventIds, EventStep(d)
      PROVE  status[e] = "none"
  <2>1. CASE \E c \in Dates : Provision(d, c) \/ UpdateDate(d, c)
    BY <2>1 DEF Provision, UpdateDate
  <2>2. CASE Delete(d)
    BY <2>2 DEF Delete
  <2>3. CASE Revoke(d) \/ \E r \in Ranks, t \in Tickets : Grant(d, r, t)
    BY <2>3 DEF Revoke, Grant, eventVars
  <2>4. CASE \E r \in Ranks : QuoteEventPurchase(d, r)
    BY <2>4 DEF QuoteEventPurchase, eventVars
  <2>. QED  BY <1>1, <2>1, <2>2, <2>3, <2>4 DEF EventStep
<1>2. ASSUME NEW p \in Purchases, PurchaseStep(p)
      PROVE  status' = status
  BY <1>2 DEF PurchaseStep, SettlePurchase, Refund, ActivatePurchase, MarkEntitlementApplied, eventVars
<1>3. CASE BackfillCandidates \/ BackfillVisit \/ Tick \/ CreatePurchase
  BY <1>3 DEF BackfillCandidates, BackfillVisit, Tick, CreatePurchase, eventVars
<1>4. CASE UnappliedSettled \/ BillingReconcileGrant \/ BillingReconcileMark \/ PlanctlStops
  BY <1>4 DEF UnappliedSettled, BillingReconcileGrant, BillingReconcileMark, PlanctlStops, eventVars
<1>. QED  BY <1>1, <1>2, <1>3, <1>4 DEF Next

LEMMA HistoryInit == Init => History
BY DEF Init, History, NothingListed, Purchases

LEMMA HistoryKeeps == IInv /\ IInv' /\ Others /\ History /\ [Next]_vars => History'
<1>. SUFFICES ASSUME IInv, IInv', Others, History, Next
              PROVE  History'
  BY DEF History, vars, eventVars, grantVars, Purchases
<1>. USE DEF IInv
<1>1. ASSUME NEW e \in EventIds, status'[e] = "none"
      PROVE  grants'[e] = <<>>
  <2>1. grants[e] = <<>> /\ With(e, "active") = {}
    BY <1>1, StatusContinues DEF History, With
  <2>2. \A d \in EventIds, g \in GrantRecords : Pushes(d, g) => grants'[e] = grants[e]
    BY <1>1 DEF Pushes, Appended
  <2>3. ASSUME NEW d \in EventIds, Revoke(d)
        PROVE  grants'[e] = grants[e]
    <3>1. d # e
      BY <2>1, <2>3 DEF Revoke, HasGrant
    <3>2. \A c \in EventIds \ {d} : grants'[c] = grants[c]
      BY <2>3, RevokeIs
    <3>. QED  BY <3>1, <3>2
  <2>. QED  BY <2>1, <2>2, <2>3, Moves
<1>2. ASSUME NEW e \in EventIds
      PROVE  /\ grants[e] # <<>> => grants'[e] # <<>> /\ grants'[e][1].at = grants[e][1].at
             /\ \A i \in DOMAIN grants'[e] : grants'[e][1].at <= grants'[e][i].at
  BY FirstStays
<1>3. ASSUME NEW p \in Purchases'
      PROVE  /\ grants'[purchases'[p].event] # <<>>
             /\ purchases'[p].status # "open" =>
                   grants'[purchases'[p].event][1].at <= purchases'[p].settledAt
  <2>1. CASE p \in Purchases
    <3>1. Proceeds(p)
      BY <2>1, PurchasesContinue
    <3>2. /\ purchases[p].event \in EventIds /\ grants[purchases[p].event] # <<>>
          /\ purchases[p].status # "open" =>
                grants[purchases[p].event][1].at <= purchases[p].settledAt
          /\ grants[purchases[p].event][1].at <= clock
      BY <2>1, PurchasesAre, GrantsAre DEF History
    <3>. QED  BY <1>2, <3>1, <3>2 DEF Proceeds
  <2>2. CASE p \notin Purchases
    <3>1. quote # NoQuote /\ purchases'[p].event = quote.event /\ purchases'[p].status = "open"
      BY <1>3, <2>2, PurchasesContinue DEF Enters
    <3>2. quote.event \in EventIds /\ grants[quote.event] # <<>>
      BY <3>1 DEF PurchaseTypes, History
    <3>. QED  BY <1>2, <3>1, <3>2
  <2>. QED  BY <2>1, <2>2
<1>4. ASSUME quote' # NoQuote
      PROVE  grants'[quote'.event] # <<>>
  <2>1. CASE quote' = quote
    <3>1. quote.event \in EventIds /\ grants[quote.event] # <<>>
      BY <1>4, <2>1 DEF PurchaseTypes, History
    <3>. QED  BY <1>2, <2>1, <3>1
  <2>2. ASSUME NEW e \in EventIds, NEW r \in Ranks, QuoteEventPurchase(e, r)
        PROVE  grants'[quote'.event] # <<>>
    <3>1. quote'.event = e /\ HasGrant(e)
      BY <2>2 DEF QuoteEventPurchase
    <3>2. grants[e] # <<>>
      BY <3>1 DEF HasGrant, With
    <3>. QED  BY <1>2, <3>1, <3>2
  <2>. QED  BY <1>4, <2>1, <2>2, QuotesContinue
<1>5. ASSUME NEW p \in listed'.purchases
      PROVE  purchases'[p].status # "open"
  <2>1. p \in Purchases /\ purchases[p].status # "open"
    BY <1>5, ListsContinue DEF History, PurchaseTypes
  <2>. QED  BY <2>1, PurchasesContinue DEF Proceeds
<1>. QED  BY <1>1, <1>2, <1>3, <1>4, <1>5 DEF History

LEMMA HistoryInductive == Spec => [](IInv /\ Others /\ History)
<1>1. Init => Others
  BY EventPlansAssumption DEF Init, Others
<1>. QED  BY <1>1, InvInit, InvHolds, OthersKeep, HistoryInit, HistoryKeeps, PTL DEF Spec

-----------------------------------------------------------------------------
(* The stack *)

LEMMA TheActive ==
    ASSUME IInv, NEW e \in EventIds
    PROVE  /\ HasGrant(e) <=> grants[e] # <<>>
           /\ HasGrant(e) => /\ ActiveIndex(e) \in DOMAIN grants[e]
                             /\ With(e, "active") = {ActiveIndex(e)}
                             /\ ActiveGrant(e) = grants[e][ActiveIndex(e)]
<1>1. HasGrant(e) => grants[e] # <<>>
  BY DEF HasGrant, With
<1>2. ASSUME grants[e] # <<>>
      PROVE  /\ HasGrant(e) /\ ActiveIndex(e) \in DOMAIN grants[e]
             /\ With(e, "active") = {ActiveIndex(e)}
  <2>1. PICK i \in DOMAIN grants[e] :
           /\ grants[e][i].status = "active"
           /\ \A j \in DOMAIN grants[e] : grants[e][j].status = "active" => j = i
    BY <1>2 DEF IInv, OneInForce
  <2>2. With(e, "active") = {i}
    BY <2>1 DEF With
  <2>. QED  BY <2>1, <2>2 DEF HasGrant, ActiveIndex
<1>. QED  BY <1>1, <1>2 DEF ActiveGrant

\* The plan pushed is above the one held.
LEMMA PushAbove ==
    ASSUME IInv, NEW e \in EventIds, NEW new \in GrantRecords, Pushes(e, new), HasGrant(e)
    PROVE  ActiveGrant(e).rank < new.rank /\ ActiveGrant(e).until <= new.until
<1>1. grants[e][ActiveIndex(e)].rank \in HeldRank(e)
  BY TheActive DEF HeldRank
<1>2. ActiveGrant(e).rank \in Nat /\ new.rank \in Nat
  BY TheActive, GrantsAre, PricingAssumption DEF IInv, GrantRecords, Ranks
<1>. QED  BY <1>1, <1>2, TheActive DEF Pushes, Upward

\* The first grant of an event is the least it ever had.  It is never revoked:
\* it was activated first, so it comes back only when nothing else is left to.
Bottom ==
    \A e \in EventIds : grants[e] # <<>> =>
        /\ grants[e][1].status # "revoked"
        /\ grants[e][1].status = "active" => With(e, "superseded") = {}
        /\ \A i \in DOMAIN grants[e] : /\ grants[e][1].rank <= grants[e][i].rank
                                       /\ grants[e][1].until <= grants[e][i].until

LEMMA BottomPush ==
    ASSUME IInv, Bottom, NEW e \in EventIds, NEW new \in GrantRecords, Pushes(e, new)
    PROVE  Bottom'
<1>. DEFINE n == Len(grants[e])
            g == grants[e]
            h == grants'[e]
<1>1. /\ n \in Nat /\ DOMAIN g = 1..n /\ (g = <<>> <=> n = 0)
      /\ \A i \in 1..n : g[i] \in GrantRecords /\ g[i].rank \in Nat /\ g[i].until \in Nat
      /\ new.rank \in Nat /\ new.until \in Nat
  <2>1. new.rank \in Nat /\ new.until \in Nat
    BY PricingAssumption DEF GrantRecords, Ranks
  <2>2. n \in Nat /\ DOMAIN g = 1..n /\ (g = <<>> <=> n = 0)
    BY GrantsAre DEF IInv
  <2>3. \A i \in 1..n : g[i] \in GrantRecords /\ g[i].rank \in Nat /\ g[i].until \in Nat
    BY <2>2, GrantsAre DEF IInv
  <2>. QED  BY <2>1, <2>2, <2>3
<1>2. /\ DOMAIN h = 1..n + 1 /\ h[n + 1] = new
      /\ \A i \in 1..n : h[i] = Superseded(g[i])
      /\ \A d \in EventIds \ {e} : grants'[d] = grants[d]
      /\ new.status = "active"
  BY DEF Pushes, Appended
<1>3. \A i \in 1..n :
         /\ h[i].rank = g[i].rank /\ h[i].until = g[i].until
         /\ h[i].status = IF g[i].status = "revoked" THEN "revoked" ELSE "superseded"
  BY <1>1, <1>2, SupersededIs
<1>4. CASE g = <<>>
  <2>1. n = 0 /\ DOMAIN h = {1} /\ h[1] = new
    BY <1>1, <1>2, <1>4
  <2>2. With(e, "superseded")' = {}
    BY <1>2, <2>1 DEF With
  <2>3. \A d \in EventIds \ {e} : With(d, "superseded")' = With(d, "superseded")
    BY <1>2 DEF With
  <2>. QED  BY <1>1, <1>2, <2>1, <2>2, <2>3 DEF Bottom
<1>5. CASE g # <<>>
  <2>1. 1 \in 1..n /\ n + 1 \in 1..n + 1 /\ \A i \in 1..n + 1 : i \in 1..n \/ i = n + 1
    BY <1>1, <1>5
  <2>2. HasGrant(e) /\ ActiveIndex(e) \in 1..n /\ ActiveGrant(e) = g[ActiveIndex(e)]
    BY <1>1, <1>5, TheActive
  <2>3. g[1].rank <= new.rank /\ g[1].until <= new.until
    <3>1. g[1].rank <= ActiveGrant(e).rank /\ g[1].until <= ActiveGrant(e).until
      BY <1>1, <1>5, <2>2 DEF Bottom
    <3>2. ActiveGrant(e).rank \in Nat /\ ActiveGrant(e).until \in Nat
      BY <1>1, <2>2
    <3>. QED  BY <1>1, <2>1, <2>2, <3>1, <3>2, PushAbove
  <2>4. h[1].status = "superseded"
    BY <1>3, <1>5, <2>1 DEF Bottom
  <2>5. \A i \in DOMAIN h : h[1].rank <= h[i].rank /\ h[1].until <= h[i].until
    <3>1. \A i \in 1..n : g[1].rank <= g[i].rank /\ g[1].until <= g[i].until
      BY <1>1, <1>5 DEF Bottom
    <3>. HIDE DEF n, g, h
    <3>. QED  BY <1>2, <1>3, <2>1, <2>3, <3>1
  <2>6. \A d \in EventIds \ {e} : With(d, "superseded")' = With(d, "superseded")
    BY <1>2 DEF With
  <2>. QED  BY <1>2, <2>4, <2>5, <2>6 DEF Bottom
<1>. QED  BY <1>4, <1>5

LEMMA BottomRevoke ==
    ASSUME IInv, History, Bottom, NEW e \in EventIds, Revoke(e)
    PROVE  Bottom'
<1>. DEFINE g == grants[e]
            h == grants'[e]
<1>1. PICK a \in DOMAIN g, b \in DOMAIN g :
         /\ a # b /\ g[a].status = "active" /\ g[b].status = "superseded"
         /\ \A j \in With(e, "superseded") :
               g[j].at < g[b].at \/ (g[j].at = g[b].at /\ j <= b)
         /\ DOMAIN h = DOMAIN g
         /\ h[a] = [g[a] EXCEPT !.status = "revoked"]
         /\ h[b] = [g[b] EXCEPT !.status = "active"]
         /\ \A i \in DOMAIN g \ {a, b} : h[i] = g[i]
         /\ \A d \in EventIds \ {e} : grants'[d] = grants[d]
  BY RevokeIs DEF IInv
<1>2. \A i \in DOMAIN g : g[i] \in GrantRecords /\ i \in Nat \ {0} /\ g[i].at \in Nat
  BY GrantsAre DEF IInv
<1>3. /\ h[a].status = "revoked" /\ h[b].status = "active"
      /\ \A i \in DOMAIN g : h[i].rank = g[i].rank /\ h[i].until = g[i].until
  BY <1>1, <1>2 DEF GrantRecords
<1>4. g # <<>> /\ 1 \in DOMAIN g /\ b \in With(e, "superseded")
  BY <1>1, GrantsAre DEF IInv, With
<1>5. a # 1
  BY <1>1, <1>4 DEF Bottom
<1>6. \A i \in DOMAIN g : g[1].at <= g[i].at
  BY DEF History
<1>7. b = 1 => With(e, "superseded") \subseteq {1}
  <2>1. With(e, "superseded") \subseteq DOMAIN g
    BY DEF With
  <2>. HIDE DEF g, h
  <2>. QED  BY <1>1, <1>2, <1>4, <1>6, <2>1
<1>8. With(e, "superseded")' = With(e, "superseded") \ {b}
  <2>1. /\ With(e, "superseded")' = {i \in DOMAIN g : h[i].status = "superseded"}
        /\ With(e, "superseded") = {i \in DOMAIN g : g[i].status = "superseded"}
    BY <1>1 DEF With
  <2>. HIDE DEF g, h
  <2>. QED  BY <1>1, <1>3, <2>1
<1>9. h[1].status # "revoked" /\ (h[1].status = "active" => With(e, "superseded")' = {})
  <2>1. CASE b = 1
    BY <1>3, <1>7, <1>8, <2>1
  <2>2. CASE b # 1
    <3>1. h[1] = g[1]
      BY <1>1, <1>4, <1>5, <2>2
    <3>. QED  BY <1>4, <1>8, <3>1 DEF Bottom
  <2>. QED  BY <2>1, <2>2
<1>10. \A i \in DOMAIN h : h[1].rank <= h[i].rank /\ h[1].until <= h[i].until
  BY <1>1, <1>3, <1>4 DEF Bottom
<1>11. \A d \in EventIds \ {e} : With(d, "superseded")' = With(d, "superseded")
  BY <1>1 DEF With
<1>. QED  BY <1>1, <1>9, <1>10, <1>11 DEF Bottom

LEMMA BottomKeeps ==
    IInv /\ Others /\ History /\ Bottom /\ [Next]_vars => Bottom'
<1>. SUFFICES ASSUME IInv, Others, History, Bottom, [Next]_vars
              PROVE  Bottom'
  OBVIOUS
<1>1. CASE grants' = grants
  BY <1>1 DEF Bottom, With
<1>2. CASE grants' # grants
  <2>1. Next
    BY <1>2 DEF vars, grantVars
  <2>. QED  BY <1>2, <2>1, Moves, BottomPush, BottomRevoke
<1>. QED  BY <1>1, <1>2

LEMMA BottomSuffices == IInv /\ Bottom => NeverBelowFirst
<1>. SUFFICES ASSUME IInv, Bottom, NEW e \in EventIds, grants[e] # <<>>
              PROVE  /\ grants[e][1].status # "revoked"
                     /\ grants[e][1].rank <= ActiveGrant(e).rank
                     /\ grants[e][1].until <= ActiveGrant(e).until
  BY DEF NeverBelowFirst
<1>. QED  BY TheActive DEF Bottom

\* However plans are granted, upgraded, activated late and revoked, an event
\* holds at least the plan it was first given, for at least as long: Revoke
\* takes back the superseded grant that was activated last, and the first one
\* never goes (repository.go, Revoke and supersededGrant).
THEOREM FirstPlanStays == Spec => []NeverBelowFirst
<1>1. Init => Bottom
  BY DEF Init, Bottom
<1>. QED  BY <1>1, BottomKeeps, BottomSuffices, HistoryInductive, PTL DEF Spec

BroughtBack(e) ==
    /\ Held(e)' \in Below(e)
    /\ Below(e)' \subseteq Below(e) /\ Below(e) \subseteq Below(e)' \cup {Held(e)'}

\* What a revocation leaves of the stacks of plans.
PlanRevoked(e) ==
    /\ BroughtBack(e)
    /\ \A d \in EventIds \ {e} : Held(d)' = Held(d) /\ Below(d)' = Below(d)

LEMMA SameGrants ==
    ASSUME NEW d \in EventIds, grants'[d] = grants[d]
    PROVE  Held(d)' = Held(d) /\ Below(d)' = Below(d)
<1>1. \A s : With(d, s)' = With(d, s)
  BY DEF With
<1>2. HasGrant(d)' = HasGrant(d) /\ ActiveGrant(d)' = ActiveGrant(d)
  <2>1. ActiveIndex(d)' = ActiveIndex(d)
    BY <1>1 DEF ActiveIndex
  <2>. QED  BY <1>1, <2>1 DEF HasGrant, ActiveGrant
<1>. QED  BY <1>1, <1>2 DEF Held, Below

\* What a step means to PlanStack: pushing a grant is a Grant ...
LEMMA PushIsGrant ==
    ASSUME IInv, NEW e \in EventIds, NEW new \in GrantRecords, Pushes(e, new)
    PROVE  Stack!Grant(e)
<1>. DEFINE n == Len(grants[e])
            a == ActiveIndex(e)
<1>1. /\ n \in Nat /\ DOMAIN grants[e] = 1..n /\ (grants[e] = <<>> => n = 0)
      /\ \A i \in 1..n : grants[e][i] \in GrantRecords /\ grants[e][i].rank \in Nat \ {0}
  BY GrantsAre DEF IInv
<1>2. /\ DOMAIN grants'[e] = 1..n + 1 /\ grants'[e][n + 1] = new
      /\ \A i \in 1..n : grants'[e][i] = Superseded(grants[e][i])
      /\ \A d \in EventIds \ {e} : grants'[d] = grants[d]
      /\ new.status = "active"
  BY DEF Pushes, Appended
<1>3. \A i \in 1..n :
         /\ PlanOf(grants'[e][i]) = PlanOf(grants[e][i])
         /\ grants'[e][i].status = IF grants[e][i].status = "revoked" THEN "revoked" ELSE "superseded"
  BY <1>1, <1>2, SupersededIs DEF PlanOf
<1>4. /\ \A i \in DOMAIN grants'[e] : i \in 1..n \/ i = n + 1
      /\ n + 1 \notin 1..n /\ n + 1 \in DOMAIN grants'[e]
      /\ 1..n \subseteq DOMAIN grants'[e]
  BY <1>1, <1>2
<1>5. With(e, "active")' = {n + 1}
  <2>. HIDE DEF n
  <2>1. \A i \in 1..n : grants'[e][i].status # "active"
    BY <1>3
  <2>. QED  BY <1>2, <1>4, <2>1 DEF With
<1>6. Held(e)' = PlanOf(new)
  <2>1. HasGrant(e)' /\ ActiveIndex(e)' = n + 1
    <3>. HIDE DEF n
    <3>. QED  BY <1>5 DEF HasGrant, ActiveIndex
  <2>. QED  BY <1>2, <2>1 DEF Held, ActiveGrant
<1>7. With(e, "superseded")' = With(e, "superseded") \cup With(e, "active")
  <2>1. \A i \in 1..n : grants'[e][i].status = "superseded" <=> i \in With(e, "superseded") \cup With(e, "active")
    BY <1>1, <1>3 DEF With, GrantRecords
  <2>2. With(e, "superseded") \cup With(e, "active") \subseteq 1..n
    BY <1>1 DEF With
  <2>. HIDE DEF n
  <2>. QED  BY <1>2, <1>4, <2>1, <2>2 DEF With
<1>8. Below(e)' = Below(e) \cup {PlanOf(grants[e][i]) : i \in With(e, "active")}
  <2>1. With(e, "superseded") \cup With(e, "active") \subseteq 1..n
    BY <1>1 DEF With
  <2>2. Below(e)' = {PlanOf(grants'[e][i]) : i \in With(e, "superseded")'}
    BY DEF Below
  <2>. QED  BY <1>3, <1>7, <2>1, <2>2 DEF Below
<1>9. {PlanOf(grants[e][i]) : i \in With(e, "active")} = {Held(e)} \ {[rank |-> 0, until |-> 0]}
  <2>1. CASE HasGrant(e)
    <3>1. With(e, "active") = {a} /\ a \in 1..n /\ Held(e) = PlanOf(grants[e][a])
      BY <1>1, <2>1, TheActive DEF Held
    <3>2. PlanOf(grants[e][a]).rank # 0
      BY <1>1, <3>1 DEF PlanOf
    <3>3. Held(e) # [rank |-> 0, until |-> 0]
      BY <3>1, <3>2
    <3>. HIDE DEF a
    <3>. QED  BY <3>1, <3>3
  <2>2. CASE ~HasGrant(e)
    BY <2>2 DEF HasGrant, Held
  <2>. QED  BY <2>1, <2>2
<1>10. Held(e)'.rank > Held(e).rank /\ Held(e)'.until >= Held(e).until
  <2>1. new.rank \in Nat \ {0} /\ new.until \in Nat
    BY PricingAssumption DEF GrantRecords, Ranks
  <2>2. CASE HasGrant(e)
    <3>1. Held(e) = PlanOf(grants[e][a])
      BY <2>2, TheActive DEF Held
    <3>2. grants[e][a].rank < new.rank /\ grants[e][a].until <= new.until
      BY <2>2, PushAbove, TheActive
    <3>3. /\ a \in DOMAIN grants[e] /\ grants[e][a].rank \in Nat /\ grants[e][a].until \in Nat
      BY <2>2, TheActive, GrantsAre DEF IInv
    <3>. HIDE DEF a
    <3>. QED  BY <1>6, <2>1, <3>1, <3>2, <3>3 DEF PlanOf
  <2>3. CASE ~HasGrant(e)
    BY <1>6, <2>1, <2>3 DEF Held, PlanOf
  <2>. QED  BY <2>2, <2>3
<1>11. \A d \in EventIds \ {e} : Held(d)' = Held(d) /\ Below(d)' = Below(d)
  BY <1>2, SameGrants
<1>. HIDE DEF n, a
<1>12. Below(e)' = Below(e) \cup ({Held(e)} \ {[rank |-> 0, until |-> 0]})
  BY <1>8, <1>9
<1>. QED  BY <1>10, <1>11, <1>12 DEF Stack!Grant, Stack!NoPlan

\* ... and a revocation brings one of those below back, and leaves the others.
LEMMA RevokeBringsBack ==
    ASSUME IInv, NEW e \in EventIds, Revoke(e)
    PROVE  /\ BroughtBack(e)
           /\ \A d \in EventIds \ {e} : Held(d)' = Held(d) /\ Below(d)' = Below(d)
<1>. DEFINE g == grants[e]
            h == grants'[e]
<1>1. PICK a \in DOMAIN g, b \in DOMAIN g :
         /\ a # b /\ g[a].status = "active" /\ g[b].status = "superseded"
         /\ DOMAIN h = DOMAIN g
         /\ h[a] = [g[a] EXCEPT !.status = "revoked"]
         /\ h[b] = [g[b] EXCEPT !.status = "active"]
         /\ \A i \in DOMAIN g \ {a, b} : h[i] = g[i]
         /\ \A d \in EventIds \ {e} : grants'[d] = grants[d]
  BY RevokeIs DEF IInv
<1>2. \A i \in DOMAIN g : g[i] \in GrantRecords
  BY GrantsAre DEF IInv
<1>3. \A i \in DOMAIN g : g[i].status = "active" => i = a
  <2>1. With(e, "active") = {ActiveIndex(e)}
    BY TheActive DEF Revoke
  <2>. QED  BY <1>1, <2>1 DEF With
<1>4. /\ h[a].status = "revoked" /\ h[b].status = "active" /\ PlanOf(h[b]) = PlanOf(g[b])
  BY <1>1, <1>2 DEF GrantRecords, PlanOf
<1>5. b \in With(e, "superseded")
  BY <1>1 DEF With
<1>. HIDE DEF g, h
<1>6. With(e, "active")' = {b} /\ With(e, "superseded")' = With(e, "superseded") \ {b}
  <2>1. \A s : With(e, s)' = {i \in DOMAIN g : h[i].status = s}
    BY <1>1 DEF With, h
  <2>2. \A s : With(e, s) = {i \in DOMAIN g : g[i].status = s}
    BY DEF With, g
  <2>3. \A i \in DOMAIN g : /\ h[i].status = "active" <=> i = b
                            /\ h[i].status = "superseded" <=> g[i].status = "superseded" /\ i # b
    BY <1>1, <1>3, <1>4
  <2>. QED  BY <1>1, <2>1, <2>2, <2>3
<1>7. Held(e)' = PlanOf(g[b])
  <2>1. HasGrant(e)' /\ ActiveIndex(e)' = b
    BY <1>6 DEF HasGrant, ActiveIndex
  <2>. QED  BY <1>4, <2>1 DEF Held, ActiveGrant, h
<1>8. Below(e) = {PlanOf(g[j]) : j \in With(e, "superseded")}
  BY DEF Below, g
<1>9. Below(e)' = {PlanOf(g[j]) : j \in With(e, "superseded") \ {b}}
  <2>1. Below(e)' = {PlanOf(h[j]) : j \in With(e, "superseded") \ {b}}
    BY <1>6 DEF Below, h
  <2>2. \A j \in With(e, "superseded") \ {b} : h[j] = g[j]
    <3>1. With(e, "superseded") \subseteq DOMAIN g /\ a \notin With(e, "superseded")
      BY <1>1 DEF With, g
    <3>. QED  BY <1>1, <3>1
  <2>. QED  BY <2>1, <2>2
<1>10. \A d \in EventIds \ {e} : Held(d)' = Held(d) /\ Below(d)' = Below(d)
  BY <1>1, SameGrants
<1>. QED  BY <1>5, <1>7, <1>8, <1>9, <1>10 DEF BroughtBack

LEMMA StackSteps ==
    IInv /\ Others /\ History /\ [Next]_vars =>
        [\E e \in EventIds : Stack!Grant(e) \/ PlanRevoked(e)]_grants
<1>. SUFFICES ASSUME IInv, Others, History, [Next]_vars, grants' # grants
              PROVE  \E e \in EventIds : Stack!Grant(e) \/ PlanRevoked(e)
  OBVIOUS
<1>1. Next
  BY DEF vars, grantVars
<1>. QED  BY <1>1, Moves, PushIsGrant, RevokeBringsBack DEF PlanRevoked

\* In every catalog, and whatever purchases, the operator and its batches
\* interleave, the plan of an event changes in two ways only.  A grant goes up,
\* shortens no window and keeps what it replaces; a revocation brings back one
\* plan that was replaced, and leaves the others (repository.go, Activate and
\* Revoke).  That it is the one which the revoked grant replaced is not so in
\* every catalog: the run plans checks it in one of three tiers.
THEOREM RevokingUndoes ==
    Spec => [][\E e \in EventIds : Stack!Grant(e) \/ PlanRevoked(e)]_grants
BY HistoryInductive, StackSteps, PTL DEF Spec

-----------------------------------------------------------------------------
(* What is paid *)

Paid(e) == Of(e, {"settled"})

LEMMA PaidAre ==
    ASSUME PurchaseTypes, NEW e
    PROVE  /\ Paid(e) \subseteq Purchases /\ Purchases \subseteq Nat
           /\ \A p \in Paid(e) : purchases[p].event = e /\ purchases[p].status = "settled"
BY PurchasesAre DEF Paid, Of

LEMMA SpentIs ==
    ASSUME PurchaseTypes, NEW e
    PROVE  IsFiniteSet(Dollars(e)) /\ SpentOn(e) \in Nat
<1>. DEFINE all == {{p} \X (1..purchases[p].terms.final) : p \in Paid(e)}
<1>1. Paid(e) \subseteq Purchases /\ \A p \in Purchases : purchases[p].terms.final \in Nat
  BY PaidAre, PurchasesAre
<1>2. IsFiniteSet(Paid(e))
  <2>1. IsFiniteSet(Purchases)
    BY PurchasesAre, FS_Interval
  <2>. QED  BY <1>1, <2>1, FS_Subset
<1>3. IsFiniteSet(all)
  <2>. DEFINE f == [p \in Paid(e) |-> {p} \X (1..purchases[p].terms.final)]
  <2>1. f \in Surjection(Paid(e), all)
    BY DEF Surjection
  <2>. HIDE DEF all, f
  <2>. QED  BY <1>2, <2>1, FS_Surjection
<1>4. \A T \in all : IsFiniteSet(T)
  <2>1. ASSUME NEW p \in Paid(e)
        PROVE  IsFiniteSet({p} \X (1..purchases[p].terms.final))
    <3>1. IsFiniteSet({p})
      BY FS_Singleton
    <3>2. IsFiniteSet(1..purchases[p].terms.final)
      <4>1. purchases[p].terms.final \in Int
        BY <1>1
      <4>. QED  BY <4>1, FS_Interval
    <3>. QED  BY <3>1, <3>2, FS_Product
  <2>. QED  BY <2>1
<1>5. Dollars(e) = UNION all
  BY DEF Dollars, Paid
<1>6. IsFiniteSet(Dollars(e))
  <2>. HIDE DEF all
  <2>. QED  BY <1>3, <1>4, <1>5, FS_UNION
<1>. QED  BY <1>6, FS_CardinalityType DEF SpentOn

\* One more purchase that is paid adds its price.
LEMMA SpentAdds ==
    ASSUME PurchaseTypes, NEW e, NEW p \in Purchases, p \notin Paid(e),
           Paid(e)' = Paid(e) \cup {p},
           \A q \in Purchases : purchases'[q].terms = purchases[q].terms
    PROVE  SpentOn(e)' = SpentOn(e) + purchases[p].terms.final
<1>. DEFINE n == purchases[p].terms.final
            more == {p} \X (1..n)
<1>1. n \in Nat /\ Paid(e) \subseteq Purchases
  BY PurchasesAre, PaidAre
<1>2. IsFiniteSet(Dollars(e))
  BY SpentIs
<1>3. IsFiniteSet(more) /\ Cardinality(more) = n
  <2>1. IsFiniteSet({p}) /\ Cardinality({p}) = 1
    BY FS_Singleton
  <2>2. IsFiniteSet(1..n) /\ Cardinality(1..n) = n
    <3>1. n \in Int /\ n >= 0
      BY <1>1
    <3>. HIDE DEF n
    <3>. QED  BY <3>1, FS_Interval
  <2>. HIDE DEF n
  <2>. QED  BY <1>1, <2>1, <2>2, FS_Product
<1>4. Dollars(e) \cap more = {}
  BY <1>1 DEF Dollars, Paid
<1>5. Dollars(e)' = Dollars(e) \cup more
  <2>1. \A q \in Paid(e)' : purchases'[q].terms.final = purchases[q].terms.final
    BY <1>1
  <2>2. Dollars(e)' = UNION {{q} \X (1..purchases[q].terms.final) : q \in Paid(e)'}
    BY <2>1 DEF Dollars, Paid
  <2>3. Dollars(e) = UNION {{q} \X (1..purchases[q].terms.final) : q \in Paid(e)}
    BY DEF Dollars, Paid
  <2>. QED  BY <2>2, <2>3
<1>6. Cardinality(Dollars(e) \cup more) = Cardinality(Dollars(e)) + n
  <2>1. Cardinality(Dollars(e)) \in Nat /\ Cardinality(Dollars(e) \cap more) = 0
    BY <1>2, <1>4, FS_CardinalityType, FS_EmptySet
  <2>. HIDE DEF more
  <2>2. Cardinality(Dollars(e) \cup more) =
           Cardinality(Dollars(e)) + Cardinality(more) - Cardinality(Dollars(e) \cap more)
    BY <1>2, <1>3, FS_Union
  <2>. HIDE DEF n
  <2>. QED  BY <1>1, <1>3, <2>1, <2>2
<1>. QED  BY <1>5, <1>6 DEF SpentOn

LEMMA SpentStays ==
    ASSUME PurchaseTypes, NEW e, Paid(e)' = Paid(e),
           \A q \in Purchases : purchases'[q].terms = purchases[q].terms
    PROVE  SpentOn(e)' = SpentOn(e)
<1>1. \A q \in Paid(e) : purchases'[q].terms.final = purchases[q].terms.final
  BY PaidAre
<1>2. Dollars(e)' = Dollars(e)
  BY <1>1 DEF Dollars, Paid
<1>. QED  BY <1>2 DEF SpentOn

-----------------------------------------------------------------------------
(* The checkouts of an event *)

\* One checkout of an event is open at a time, and later than the others.
Checkouts ==
    /\ \A p, q \in Purchases :
          purchases[p].event = purchases[q].event /\ purchases[p].status = "open" => q <= p
    /\ quote # NoQuote => Of(quote.event, {"open"}) = {}

LEMMA CheckoutsKeep == IInv /\ IInv' /\ Checkouts /\ [Next]_vars => Checkouts'
<1>. SUFFICES ASSUME IInv, IInv', Checkouts, Next
              PROVE  Checkouts'
  BY DEF Checkouts, vars, Purchases, Of
<1>. USE DEF IInv
<1>1. /\ \A p \in Purchases : Proceeds(p)
      /\ \A p \in Purchases' \ Purchases : Enters(p)
  BY PurchasesContinue
<1>2. Len(purchases) \in Nat /\ Purchases = 1..Len(purchases)
  BY PurchasesAre
<1>3. ASSUME NEW p \in Purchases', NEW q \in Purchases',
             purchases'[p].event = purchases'[q].event, purchases'[p].status = "open"
      PROVE  q <= p
  <2>1. CASE p \in Purchases /\ q \in Purchases
    BY <1>1, <1>3, <2>1 DEF Proceeds, Checkouts
  <2>2. CASE p \notin Purchases
    BY <1>1, <1>2, <1>3, <2>2 DEF Enters
  <2>3. CASE p \in Purchases /\ q \notin Purchases
    <3>1. Of(quote.event, {"open"}) = {} /\ purchases'[q].event = quote.event
      BY <1>1, <1>3, <2>3 DEF Enters
    <3>2. purchases[p].event = quote.event /\ purchases[p].status = "open"
      BY <1>1, <1>3, <2>3, <3>1, PurchasesAre DEF Proceeds
    <3>. QED  BY <2>3, <3>1, <3>2 DEF Of
  <2>. QED  BY <2>1, <2>2, <2>3
<1>4. ASSUME quote' # NoQuote
      PROVE  Of(quote.event, {"open"})' = {}
  <2>1. \A p \in Purchases' \ Purchases : quote' = NoQuote
    BY <1>1 DEF Enters, CreatePurchase
  <2>2. Purchases' \subseteq Purchases
    BY <1>4, <2>1
  <2>3. ASSUME NEW e, e = quote'.event, Of(e, {"open"}) = {}
        PROVE  Of(quote.event, {"open"})' = {}
    <3>1. \A p \in Purchases' : purchases'[p].event = e => purchases'[p].status # "open"
      BY <1>1, <2>2, <2>3 DEF Of, Proceeds
    <3>. QED  BY <2>3, <3>1 DEF Of
  <2>4. CASE quote' = quote
    BY <1>4, <2>3, <2>4 DEF Checkouts
  <2>5. CASE \E e \in EventIds, r \in Ranks : QuoteEventPurchase(e, r)
    <3>1. PICK e \in EventIds, r \in Ranks : QuoteEventPurchase(e, r)
      BY <2>5
    <3>2. quote'.event = e /\ Of(e, {"open"}) = {}
      BY <3>1 DEF QuoteEventPurchase
    <3>. QED  BY <2>3, <3>2
  <2>. QED  BY <1>4, <2>4, <2>5, QuotesContinue
<1>. QED  BY <1>3, <1>4 DEF Checkouts

-----------------------------------------------------------------------------
(* Where the grants come from *)

Sources == {"system", "purchase", "external"}

\* The grant i of event e is what a paid purchase of the event bought.
SoldBy(e, i) ==
    /\ grants[e][i].ref \in Purchases
    /\ purchases[grants[e][i].ref].event = e
    /\ purchases[grants[e][i].ref].status # "open"
    /\ purchases[grants[e][i].ref].terms.rank = grants[e][i].rank

Served(p) ==
    \E i \in DOMAIN grants[purchases[p].event] :
        /\ grants[purchases[p].event][i].source \in {"purchase", "external"}
        /\ grants[purchases[p].event][i].ref = p

Origins ==
    /\ \A e \in EventIds : \A i \in DOMAIN grants[e] :
          /\ grants[e][i].source = "system" => grants[e][i].rank = Free /\ i = 1
          /\ grants[e][i].source \in {"purchase", "external"} => SoldBy(e, i)
    /\ \A p \in Purchases : purchases[p].applied \/ purchases[p].license = "consumed" => Served(p)
    /\ \A e \in EventIds :
          \/ grants[e] = <<>>
          \/ grants[e][Len(grants[e])].status = "active"
          \/ \E i \in DOMAIN grants[e] : grants[e][i].status = "revoked"

LEMMA OriginsInit == Init => Origins
BY DEF Init, Origins, Purchases

\* A license or a mark comes with a grant, or after one.
LEMMA ServedFirst ==
    ASSUME IInv, Origins, Next, NEW p \in Purchases',
           purchases'[p].applied \/ purchases'[p].license = "consumed"
    PROVE  \/ p \in Purchases /\ Served(p)
           \/ p \in Purchases /\ ActivatePurchase(p)
<1>. USE DEF IInv
<1>1. p \in Purchases
  BY PurchasesContinue DEF Enters
<1>2. ASSUME purchases[p].applied \/ purchases[p].license = "consumed"
      PROVE  Served(p)
  BY <1>1, <1>2 DEF Origins
<1>3. purchases[p] \in PurchaseRecords
  BY <1>1, PurchasesAre
<1>4. CASE purchases'[p] = purchases[p]
  BY <1>1, <1>2, <1>4
<1>5. ASSUME NEW q \in Purchases, PurchaseStep(q), ~ActivatePurchase(q)
      PROVE  Served(p)
  <2>1. CASE SettlePurchase(q)
    <3>1. purchases'[p].applied = purchases[p].applied /\ purchases'[p].license = purchases[p].license
      BY <1>1, <1>3, <2>1 DEF SettlePurchase, PurchaseRecords, Purchases
    <3>. QED  BY <1>2, <3>1
  <2>2. CASE Refund(q)
    <3>1. purchases'[p].applied = purchases[p].applied /\ purchases'[p].license = purchases[p].license
      BY <1>1, <1>3, <2>2 DEF Refund, PurchaseRecords, Purchases
    <3>. QED  BY <1>2, <3>1
  <2>3. CASE MarkEntitlementApplied(q)
    <3>1. p # q => purchases'[p] = purchases[p]
      BY <1>1, <2>3 DEF MarkEntitlementApplied, Purchases
    <3>2. p = q => purchases[p].license = "consumed"
      BY <2>3 DEF MarkEntitlementApplied
    <3>. QED  BY <1>2, <3>1, <3>2
  <2>. QED  BY <1>5, <2>1, <2>2, <2>3 DEF PurchaseStep
<1>6. ASSUME NEW q \in Purchases, ActivatePurchase(q), q # p
      PROVE  purchases'[p] = purchases[p]
  BY <1>1, <1>6 DEF ActivatePurchase, Purchases
<1>7. ASSUME BillingReconcileMark
      PROVE  Served(p)
  <2>. DEFINE q == Min(listed.purchases)
  <2>1. RefUsed("external", q) /\ purchases' = [purchases EXCEPT ![q].applied = TRUE]
    BY <1>7 DEF BillingReconcileMark
  <2>2. p # q => purchases'[p] = purchases[p]
    BY <1>1, <2>1 DEF Purchases
  <2>3. ASSUME p = q
        PROVE  Served(p)
    <3>1. PICK e \in EventIds :
             \E i \in DOMAIN grants[e] : grants[e][i].source = "external" /\ grants[e][i].ref = p
      BY <2>1, <2>3 DEF RefUsed
    <3>2. PICK i \in DOMAIN grants[e] : grants[e][i].source = "external" /\ grants[e][i].ref = p
      BY <3>1
    <3>3. purchases[p].event = e
      BY <3>2 DEF Origins, SoldBy
    <3>. QED  BY <3>2, <3>3 DEF Served
  <2>. QED  BY <1>2, <2>2, <2>3
<1>8. ASSUME \/ \E e \in EventIds : EventStep(e)
             \/ BackfillCandidates \/ BackfillVisit \/ UnappliedSettled
             \/ BillingReconcileGrant \/ PlanctlStops \/ Tick
      PROVE  purchases' = purchases
  BY <1>8 DEF EventStep, Provision, UpdateDate, Delete, Revoke, Grant, QuoteEventPurchase,
              BackfillCandidates, BackfillVisit, UnappliedSettled, BillingReconcileGrant,
              PlanctlStops, Tick
<1>9. ASSUME CreatePurchase
      PROVE  purchases'[p] = purchases[p]
  <2>1. CASE purchases' # purchases
    <3>. DEFINE new == [event |-> quote.event, terms |-> quote.terms, status |-> "open",
                        license |-> "none", applied |-> FALSE, settledAt |-> 0]
    <3>1. purchases' = Append(purchases, new)
      BY <1>9, <2>1 DEF CreatePurchase
    <3>2. purchases \in Seq(PurchaseRecords \cup {new})
      <4>1. purchases \in Seq(PurchaseRecords)
        BY DEF PurchaseTypes
      <4>. HIDE DEF new
      <4>. QED  BY <4>1
    <3>3. p \in 1..Len(purchases)
      BY <1>1, PurchasesAre
    <3>. HIDE DEF new
    <3>. QED  BY <3>1, <3>2, <3>3
  <2>. QED  BY <2>1
<1>. QED  BY <1>1, <1>4, <1>5, <1>6, <1>7, <1>8, <1>9 DEF Next

LEMMA OriginsKeep == IInv /\ IInv' /\ Others /\ History /\ Origins /\ [Next]_vars => Origins'
<1>. SUFFICES ASSUME IInv, IInv', Others, History, Origins, Next
              PROVE  Origins'
  BY DEF Origins, SoldBy, Served, vars, grantVars, Purchases
<1>. USE DEF IInv
<1>1. \A e \in EventIds : Continues(e)
  BY GrantsContinue
<1>2. \A p \in Purchases : Proceeds(p)
  BY PurchasesContinue
<1>3. ASSUME NEW p \in Purchases, NEW e, NEW r, purchases[p].event = e,
             purchases[p].status # "open", purchases[p].terms.rank = r
      PROVE  /\ p \in Purchases' /\ purchases'[p].event = e
             /\ purchases'[p].status # "open" /\ purchases'[p].terms.rank = r
  BY <1>2, <1>3 DEF Proceeds
<1>4. ASSUME NEW e \in EventIds, NEW i \in DOMAIN grants'[e]
      PROVE  /\ grants'[e][i].source = "system" => grants'[e][i].rank = Free /\ i = 1
             /\ grants'[e][i].source \in {"purchase", "external"} => SoldBy(e, i)'
  <2>1. CASE i \in DOMAIN grants[e]
    <3>1. /\ grants'[e][i].source = grants[e][i].source
          /\ grants'[e][i].rank = grants[e][i].rank /\ grants'[e][i].ref = grants[e][i].ref
      BY <1>1, <2>1 DEF Continues
    <3>2. /\ grants[e][i].source = "system" => grants[e][i].rank = Free /\ i = 1
          /\ grants[e][i].source \in {"purchase", "external"} => SoldBy(e, i)
      BY <2>1 DEF Origins
    <3>. QED  BY <1>3, <3>1, <3>2 DEF SoldBy
  <2>2. CASE i \notin DOMAIN grants[e]
    <3>1. PICK new \in GrantRecords : Pushes(e, new) /\ grants'[e][i] = new
      BY <2>2, NewGrant
    <3>2. i = Len(grants[e]) + 1 /\ (grants[e] = <<>> => Len(grants[e]) = 0)
      BY <2>2, NewGrant
    <3>3. Bills(new, e)
      BY <3>1 DEF Pushes
    <3>. QED  BY <1>3, <3>1, <3>2, <3>3 DEF Bills, SoldBy
  <2>. QED  BY <2>1, <2>2
<1>5. ASSUME NEW p \in Purchases', purchases'[p].applied \/ purchases'[p].license = "consumed"
      PROVE  Served(p)'
  <2>1. p \in Purchases /\ purchases[p].event \in EventIds /\ purchases'[p].event = purchases[p].event
    BY <1>2, <1>5, PurchasesContinue, PurchasesAre DEF Enters, Proceeds
  <2>2. CASE Served(p)
    BY <1>1, <2>1, <2>2 DEF Served, Continues
  <2>3. CASE ActivatePurchase(p)
    <3>. DEFINE e == purchases[p].event
                r == purchases[p].terms.rank
                at == purchases[p].settledAt
                new == [rank |-> r, source |-> "purchase", ref |-> p, status |-> "active",
                        at |-> at, until |-> Window(e, at, r)]
    <3>1. WriteGrant(e, r, "purchase", p, at)
      BY <2>3 DEF ActivatePurchase
    <3>2. Appended(e, new)
      BY <2>1, <3>1, WriteGrantIs
    <3>3. new.source = "purchase" /\ new.ref = p
      OBVIOUS
    <3>. HIDE DEF new
    <3>4. /\ Len(grants[e]) + 1 \in DOMAIN grants'[e]
          /\ grants'[e][Len(grants[e]) + 1].source = "purchase"
          /\ grants'[e][Len(grants[e]) + 1].ref = p
      BY <2>1, <3>2, <3>3, GrantsAre DEF Appended
    <3>. QED  BY <2>1, <3>4 DEF Served
  <2>. QED  BY <1>5, <2>2, <2>3, ServedFirst
<1>6. ASSUME NEW e \in EventIds
      PROVE  \/ grants'[e] = <<>>
             \/ grants'[e][Len(grants'[e])].status = "active"
             \/ \E i \in DOMAIN grants'[e] : grants'[e][i].status = "revoked"
  <2>1. CASE grants'[e] = grants[e]
    BY <2>1 DEF Origins
  <2>2. ASSUME NEW new \in GrantRecords, Pushes(e, new)
        PROVE  grants'[e][Len(grants'[e])].status = "active"
    <3>1. /\ DOMAIN grants'[e] = 1..Len(grants[e]) + 1 /\ grants'[e][Len(grants[e]) + 1] = new
          /\ new.status = "active"
      BY <2>2 DEF Pushes, Appended
    <3>2. Len(grants[e]) \in Nat /\ grants'[e] \in Seq(GrantRecords)
      BY GrantsAre DEF GrantTypes
    <3>3. Len(grants'[e]) = Len(grants[e]) + 1
      BY <3>1, <3>2, LenProperties
    <3>. QED  BY <3>1, <3>3
  <2>3. ASSUME Revoke(e)
        PROVE  \E i \in DOMAIN grants'[e] : grants'[e][i].status = "revoked"
    <3>1. PICK a \in DOMAIN grants[e] :
             /\ DOMAIN grants'[e] = DOMAIN grants[e]
             /\ grants'[e][a] = [grants[e][a] EXCEPT !.status = "revoked"]
      BY <2>3, RevokeIs
    <3>2. grants[e][a] \in GrantRecords
      BY GrantsAre
    <3>3. grants'[e][a].status = "revoked"
      BY <3>1, <3>2 DEF GrantRecords
    <3>. QED  BY <3>1, <3>3
  <2>4. ASSUME grants'[e] # grants[e]
        PROVE  (\E new \in GrantRecords : Pushes(e, new)) \/ Revoke(e)
    <3>1. \A d \in EventIds, g \in GrantRecords : Pushes(d, g) => d = e
      BY <2>4 DEF Pushes, Appended
    <3>2. ASSUME NEW d \in EventIds, Revoke(d)
          PROVE  d = e
      <4>1. \A c \in EventIds \ {d} : grants'[c] = grants[c]
        BY <3>2, RevokeIs
      <4>. QED  BY <2>4, <4>1
    <3>. QED  BY <2>4, <3>1, <3>2, Moves
  <2>. QED  BY <2>1, <2>2, <2>3, <2>4
<1>. QED  BY <1>4, <1>5, <1>6 DEF Origins

-----------------------------------------------------------------------------
(* The price of a plan *)

\* The loyalty price of a plan is not above its list price, and the discount
\* not above the list price of any plan on sale.
ModestLoyalty ==
    \A r, s \in Ranks : Sellable(r) /\ Sellable(s) =>
        /\ TierValue("returning", r) <= TierValue("first", r)
        /\ TierValue("first", r) <= TierValue("returning", r) + TierValue("first", s)

\* Nothing was given to the event or taken back.
Clean(e) ==
    /\ \A i \in DOMAIN grants[e] : grants[e][i].source \in Sources /\ grants[e][i].status # "revoked"
    /\ Of(e, {"refunded"}) = {}

FairTerms(t) == Sellable(t.rank) /\ t.base = TierValue(t.context, t.rank)

First(e) == {f \in Paid(e) : \A q \in Paid(e) : f <= q}

\* The amount n pays for the plan of terms t, and for the first plan too when
\* that was sold at the list price and this one at the loyalty price.
Covers(e, t, n) ==
    /\ n >= t.base
    /\ \A f \in First(e) :
          purchases[f].terms.context = "first" /\ t.context = "returning" =>
              n >= t.base + purchases[f].terms.base

Ledger ==
    /\ \A p \in Purchases : FairTerms(purchases[p].terms)
    /\ quote # NoQuote => FairTerms(quote.terms)
    /\ \A e \in EventIds : Clean(e) =>
          /\ \A p \in Paid(e) : Covers(e, purchases[p].terms, SpentOn(e))
          /\ \A p \in Of(e, {"open"}) :
                Covers(e, purchases[p].terms, SpentOn(e) + purchases[p].terms.final)
          /\ quote # NoQuote /\ quote.event = e =>
                Covers(e, quote.terms, SpentOn(e) + quote.terms.final)

LEMMA LatestPurchase ==
    ASSUME PurchaseTypes, GrantTypes, NEW e, Paid(e) # {}, Of(e, {"refunded"}) = {}
    PROVE  /\ LatestEventPurchase(e) # {}
           /\ \A f \in LatestEventPurchase(e) : \E p \in Paid(e) : f = purchases[p]
<1>. DEFINE s == Of(e, {"settled", "refunded"})
            at == [p \in s |-> purchases[p].settledAt]
<1>1. s = Paid(e)
  BY DEF Paid, Of
<1>2. s \subseteq 0..Len(purchases) /\ Len(purchases) \in Nat
  BY PurchasesAre DEF Of
<1>3. at \in [s -> 0..clock] /\ clock \in Nat
  <2>1. \A p \in s : purchases[p].settledAt \in Nat /\ purchases[p].settledAt <= clock
    BY PurchasesAre DEF Of, PurchaseTypes
  <2>. QED  BY <2>1 DEF GrantTypes
<1>4. PICK p \in s : \A q \in s : at[q] < at[p] \/ (at[q] = at[p] /\ q <= p)
  <2>. HIDE DEF s, at
  <2>. QED  BY <1>1, <1>2, <1>3, LatestIn
<1>5. \A q \in s : \/ purchases[q].settledAt < purchases[p].settledAt
                   \/ purchases[q].settledAt = purchases[p].settledAt /\ q <= p
  <2>1. \A q \in s : at[q] = purchases[q].settledAt
    OBVIOUS
  <2>. HIDE DEF s, at
  <2>. QED  BY <1>4, <2>1
<1>6. purchases[p] \in LatestEventPurchase(e)
  BY <1>5 DEF LatestEventPurchase
<1>. QED  BY <1>1, <1>6 DEF LatestEventPurchase

\* In an event that was given nothing, a plan that is on sale was bought.
LEMMA HeldWasBought ==
    ASSUME IInv, Origins, NEW e \in EventIds, Clean(e), HasGrant(e), Sellable(ActiveGrant(e).rank)
    PROVE  \E p \in Paid(e) : purchases[p].terms.rank = ActiveGrant(e).rank
<1>. DEFINE a == ActiveIndex(e)
<1>1. a \in DOMAIN grants[e] /\ ActiveGrant(e) = grants[e][a]
  BY TheActive
<1>2. grants[e][a].source # "system"
  BY <1>1, PricingAssumption DEF Origins, Sellable, Free
<1>3. SoldBy(e, a)
  BY <1>1, <1>2 DEF Clean, Sources, Origins
<1>4. grants[e][a].ref \in Paid(e)
  <2>1. purchases[grants[e][a].ref].status # "refunded"
    BY <1>3 DEF Clean, Of, SoldBy
  <2>2. purchases[grants[e][a].ref].status = "settled"
    BY <1>3, <2>1, PurchasesAre DEF SoldBy, IInv
  <2>. QED  BY <1>3, <2>2 DEF SoldBy, Paid, Of
<1>. QED  BY <1>1, <1>3, <1>4 DEF SoldBy

LEMMA QuoteIsFair ==
    ASSUME IInv, NEW r \in Ranks, Sellable(r), NEW returning, NEW funding, NEW held
    PROVE  /\ FairTerms(QuoteNewPurchase(returning, r))
           /\ FairTerms(QuoteUpgrade(funding, returning, held, r))
<1>1. \A context, credit, reason : FairTerms(Quote(r, context, credit, reason))
  BY DEF FairTerms, Quote
<1>. QED  BY <1>1 DEF QuoteNewPurchase, QuoteUpgrade

\* Whatever is quoted, together with what was paid it covers the plan's price.
LEMMA QuoteCovers ==
    ASSUME IInv, Origins, Ledger, NEW e \in EventIds, NEW r \in Ranks,
           QuoteEventPurchase(e, r), Clean(e), IInv'
    PROVE  Covers(e, quote'.terms, SpentOn(e) + quote'.terms.final)
<1>. DEFINE held == ActiveGrant(e).rank
            S == SpentOn(e)
            t == quote'.terms
<1>1. S \in Nat
  BY SpentIs DEF IInv
<1>2. /\ HasGrant(e) /\ Sellable(r)
      /\ t = IF ~Sellable(held) THEN QuoteNewPurchase(Eligible(e), r)
             ELSE QuoteUpgrade(LatestEventPurchase(e), Eligible(e), held, r)
  BY DEF QuoteEventPurchase
<1>3. \A f \in First(e) :
         /\ purchases[f].terms.base \in Nat
         /\ Covers(e, purchases[f].terms, S)
  <2>1. First(e) \subseteq Paid(e) /\ Paid(e) \subseteq Purchases
    BY PaidAre DEF First, IInv
  <2>. QED  BY <2>1, PurchasesAre DEF Ledger, IInv
<1>4. \A context : TierValue(context, r) \in Nat
  BY TierValueIs
<1>5. CASE ~Sellable(held)
  <2>1. t.base \in Nat /\ t.final = t.base
    <3>1. \A context, reason : LET q == Quote(r, context, 0, reason)
                               IN q.base \in Nat /\ q.final = q.base
      BY <1>4 DEF Quote
    <3>. QED  BY <1>2, <1>5, <3>1 DEF QuoteNewPurchase
  <2>2. \A f \in First(e) : purchases[f].terms.base \in Nat /\ S >= purchases[f].terms.base
    BY <1>3 DEF Covers
  <2>. HIDE DEF S, t
  <2>. QED  BY <1>1, <2>1, <2>2 DEF Covers, S, t
<1>6. CASE Sellable(held)
  <2>. DEFINE funding == LatestEventPurchase(e)
              p == CHOOSE p \in funding : TRUE
  <2>1. funding # {} /\ \A f \in funding : \E q \in Paid(e) : f = purchases[q]
    <3>1. Paid(e) # {}
      BY <1>2, <1>6, HeldWasBought
    <3>. QED  BY <3>1, LatestPurchase DEF IInv, Clean
  <2>2. PICK k \in Paid(e) : p = purchases[k]
    <3>. HIDE DEF funding
    <3>. QED  BY <2>1
  <2>3. /\ k \in Purchases /\ p.status = "settled" /\ p.terms.base \in Nat
        /\ Covers(e, p.terms, S)
    <3>1. k \in Purchases /\ purchases[k].status = "settled"
      BY PaidAre DEF IInv
    <3>2. purchases[k].terms.base \in Nat
      BY <3>1, PurchasesAre DEF IInv
    <3>. QED  BY <2>2, <3>1, <3>2 DEF Ledger
  <2>4. t = Quote(r, p.terms.context, Capped(p.terms.base, TierValue(p.terms.context, r)), "upgrade")
    <3>1. t = QuoteUpgrade(funding, Eligible(e), held, r)
      BY <1>2, <1>6
    <3>. HIDE DEF funding, t, held
    <3>. QED  BY <2>1, <2>3, <3>1 DEF QuoteUpgrade
  <2>. HIDE DEF p, t, S, held
  <2>5. /\ t.context = p.terms.context /\ t.base = TierValue(p.terms.context, r)
        /\ t.final = t.base - Capped(p.terms.base, t.base)
    BY <2>4 DEF Quote
  <2>6. t.base \in Nat /\ S + t.final >= t.base /\ S + t.final >= S + t.base - p.terms.base
    <3>1. S >= p.terms.base /\ t.base \in Nat
      BY <1>4, <2>3, <2>5 DEF Covers
    <3>2. t.final \in Int /\ t.final >= 0 /\ t.final >= t.base - p.terms.base
      BY <2>3, <2>5, <3>1 DEF Capped
    <3>. QED  BY <1>1, <2>3, <3>1, <3>2
  <2>7. ASSUME NEW f \in First(e), purchases[f].terms.context = "first", t.context = "returning"
        PROVE  S + t.final >= t.base + purchases[f].terms.base
    <3>1. S >= p.terms.base + purchases[f].terms.base
      BY <2>3, <2>5, <2>7 DEF Covers
    <3>2. purchases[f].terms.base \in Nat /\ t.final \in Int
      <4>1. Capped(p.terms.base, t.base) \in Int
        BY <2>3, <2>6 DEF Capped
      <4>. QED  BY <1>3, <2>5, <2>6, <4>1
    <3>. QED  BY <1>1, <2>3, <2>6, <3>1, <3>2
  <2>. QED  BY <2>6, <2>7 DEF Covers, S, t
<1>. QED  BY <1>5, <1>6

LEMMA LedgerInit == Init => Ledger
BY DEF Init, Ledger, Purchases, Paid, Of

LEMMA CleanBefore ==
    ASSUME IInv, History, Others, Next, NEW e \in EventIds, Clean(e)'
    PROVE  Clean(e)
<1>1. \A i \in DOMAIN grants[e] : grants[e][i].source \in Sources /\ grants[e][i].status # "revoked"
  BY GrantsContinue DEF Continues, Clean
<1>2. Of(e, {"refunded"}) = {}
  BY PurchasesContinue DEF Proceeds, Clean, Of
<1>. QED  BY <1>1, <1>2 DEF Clean

\* One purchase of the event may have been paid, the one that was open.
LEMMA PaidGrows ==
    ASSUME IInv, IInv', Checkouts, Next, NEW e \in EventIds, Clean(e)'
    PROVE  \/ Paid(e)' = Paid(e)
           \/ \E p \in Of(e, {"open"}) : Paid(e)' = Paid(e) \cup {p}
<1>. USE DEF IInv
<1>1. ASSUME NEW p \in Paid(e)
      PROVE  p \in Paid(e)'
  <2>1. p \in Purchases /\ purchases[p].event = e /\ purchases[p].status = "settled"
    BY PaidAre
  <2>2. p \in Purchases' /\ purchases'[p].event = e /\ purchases'[p].status # "open"
    BY <2>1, PurchasesContinue DEF Proceeds
  <2>3. purchases'[p].status # "refunded"
    BY <2>2 DEF Clean, Of
  <2>4. purchases'[p].status \in {"open", "settled", "refunded"}
    <3>1. purchases'[p] \in PurchaseRecords
      BY <2>2 DEF PurchaseTypes, Purchases
    <3>. QED  BY <3>1 DEF PurchaseRecords
  <2>. QED  BY <2>2, <2>3, <2>4 DEF Paid, Of
<1>2. ASSUME NEW p \in Paid(e)'
      PROVE  p \in Paid(e) \/ p \in Of(e, {"open"})
  <2>1. p \in Purchases' /\ purchases'[p].event = e /\ purchases'[p].status = "settled"
    BY DEF Paid, Of
  <2>2. p \in Purchases
    BY <2>1, PurchasesContinue DEF Enters
  <2>3. purchases[p].event = e /\ purchases[p].status # "refunded"
    BY <2>1, <2>2, PurchasesContinue DEF Proceeds
  <2>4. purchases[p].status \in {"open", "settled", "refunded"}
    BY <2>2, PurchasesAre
  <2>. QED  BY <2>2, <2>3, <2>4 DEF Paid, Of
<1>3. \A p, q \in Of(e, {"open"}) : p = q
  <2>1. \A p, q \in Of(e, {"open"}) : p <= q /\ q <= p /\ p \in Nat /\ q \in Nat
    BY PurchasesAre DEF Checkouts, Of
  <2>. QED  BY <2>1
<1>. QED  BY <1>1, <1>2, <1>3

LEMMA LedgerKeeps ==
    IInv /\ IInv' /\ Others /\ History /\ Origins /\ Checkouts /\ Ledger /\ [Next]_vars => Ledger'
<1>. SUFFICES ASSUME IInv, IInv', Others, History, Origins, Checkouts, Ledger, [Next]_vars
              PROVE  Ledger'
  OBVIOUS
<1>. USE DEF IInv
<1>1. CASE UNCHANGED vars
  <2>1. UNCHANGED <<grants, purchases, quote>>
    BY <1>1 DEF vars, grantVars
  <2>. QED  BY <2>1 DEF Ledger, Clean, Covers, First, Paid, Of, SpentOn, Dollars, Purchases
<1>2. ASSUME Next
      PROVE  Ledger'
  <2>1. /\ \A p \in Purchases : Proceeds(p)
        /\ \A p \in Purchases' \ Purchases : Enters(p)
    BY <1>2, PurchasesContinue
  <2>2. \A p \in Purchases : purchases'[p].terms = purchases[p].terms
    BY <2>1 DEF Proceeds
  <2>3. ASSUME NEW p \in Purchases'
        PROVE  FairTerms(purchases'[p].terms)
    <3>1. CASE p \in Purchases
      BY <2>2, <3>1 DEF Ledger
    <3>2. CASE p \notin Purchases
      BY <2>1, <2>3, <3>2 DEF Enters, Ledger
    <3>. QED  BY <3>1, <3>2
  <2>4. ASSUME quote' # NoQuote
        PROVE  FairTerms(quote'.terms)
    <3>1. CASE quote' = quote
      BY <2>4, <3>1 DEF Ledger
    <3>2. ASSUME NEW e \in EventIds, NEW r \in Ranks, QuoteEventPurchase(e, r)
          PROVE  FairTerms(quote'.terms)
      BY <3>2, QuoteIsFair DEF QuoteEventPurchase
    <3>. QED  BY <1>2, <2>4, <3>1, <3>2, QuotesContinue
  <2>5. ASSUME NEW e \in EventIds, Clean(e)'
        PROVE  /\ \A p \in Paid(e)' : Covers(e, purchases[p].terms, SpentOn(e))'
               /\ \A p \in Of(e, {"open"})' :
                     Covers(e, purchases[p].terms, SpentOn(e) + purchases[p].terms.final)'
               /\ quote' # NoQuote /\ quote'.event = e =>
                     Covers(e, quote.terms, SpentOn(e) + quote.terms.final)'
    <3>. DEFINE S == SpentOn(e)
                T == SpentOn(e)'
                After(t, n) ==
                    /\ n >= t.base
                    /\ \A f \in First(e)' :
                          purchases'[f].terms.context = "first" /\ t.context = "returning" =>
                              n >= t.base + purchases'[f].terms.base
    <3>1. Clean(e) /\ S \in Nat
      BY <1>2, <2>5, CleanBefore, SpentIs
    <3>2. /\ \A p \in Paid(e) : Covers(e, purchases[p].terms, S)
          /\ \A p \in Of(e, {"open"}) : Covers(e, purchases[p].terms, S + purchases[p].terms.final)
          /\ quote # NoQuote /\ quote.event = e => Covers(e, quote.terms, S + quote.terms.final)
      BY <3>1 DEF Ledger
    <3>3. /\ Paid(e) \subseteq Purchases /\ First(e) \subseteq Purchases
          /\ Of(e, {"open"}) \subseteq Purchases /\ Purchases \subseteq Nat
      BY PaidAre DEF First, Of
    <3>4. ASSUME NEW p \in Of(e, {"open"})'
          PROVE  \/ p \in Of(e, {"open"})
                 \/ /\ quote # NoQuote /\ quote.event = e /\ purchases'[p].terms = quote.terms
                    /\ Of(e, {"open"}) = {}
      <4>1. p \in Purchases' /\ purchases'[p].event = e /\ purchases'[p].status = "open"
        BY DEF Of
      <4>2. CASE p \in Purchases
        BY <2>1, <4>1, <4>2 DEF Proceeds, Of
      <4>3. CASE p \notin Purchases
        BY <2>1, <4>1, <4>3 DEF Enters
      <4>. QED  BY <4>2, <4>3
    <3>5. ASSUME quote' # NoQuote, quote'.event = e
          PROVE  \/ quote' = quote /\ Of(e, {"open"}) = {}
                 \/ /\ \E r \in Ranks : QuoteEventPurchase(e, r)
                    /\ Of(e, {"open"}) = {}
      <4>1. ASSUME NEW d \in EventIds, NEW r \in Ranks, QuoteEventPurchase(d, r)
            PROVE  d = e /\ Of(e, {"open"}) = {}
        BY <3>5, <4>1 DEF QuoteEventPurchase
      <4>2. quote' = quote => Of(e, {"open"}) = {}
        BY <3>5 DEF Checkouts
      <4>. QED  BY <1>2, <3>5, <4>1, <4>2, QuotesContinue
    <3>6. ASSUME Paid(e)' = Paid(e)
          PROVE  /\ \A p \in Paid(e)' : After(purchases'[p].terms, T)
                 /\ \A p \in Of(e, {"open"})' :
                       After(purchases'[p].terms, T + purchases'[p].terms.final)
                 /\ quote' # NoQuote /\ quote'.event = e => After(quote'.terms, T + quote'.terms.final)
      <4>1. T = S
        BY <2>2, <3>6, SpentStays
      <4>2. First(e)' = First(e)
        BY <3>6 DEF First
      <4>3. ASSUME NEW t, NEW n, Covers(e, t, n)
            PROVE  After(t, n)
        BY <2>2, <3>3, <4>2, <4>3 DEF Covers
      <4>. HIDE DEF After, S, T
      <4>4. \A p \in Paid(e)' : After(purchases'[p].terms, T)
        BY <2>2, <3>2, <3>3, <3>6, <4>1, <4>3
      <4>5. ASSUME NEW p \in Of(e, {"open"})'
            PROVE  After(purchases'[p].terms, T + purchases'[p].terms.final)
        <5>1. CASE p \in Of(e, {"open"})
          BY <2>2, <3>2, <3>3, <4>1, <4>3, <5>1
        <5>2. CASE p \notin Of(e, {"open"})
          BY <3>2, <3>4, <4>1, <4>3, <5>2
        <5>. QED  BY <5>1, <5>2
      <4>6. ASSUME quote' # NoQuote, quote'.event = e
            PROVE  After(quote'.terms, T + quote'.terms.final)
        <5>1. CASE quote' = quote
          BY <3>2, <4>1, <4>3, <4>6, <5>1
        <5>2. ASSUME NEW r \in Ranks, QuoteEventPurchase(e, r)
              PROVE  Covers(e, quote'.terms, S + quote'.terms.final)
          BY <3>1, <5>2, QuoteCovers DEF S
        <5>. QED  BY <3>5, <4>1, <4>3, <4>6, <5>1, <5>2
      <4>. QED  BY <4>4, <4>5, <4>6
    <3>7. ASSUME NEW p \in Of(e, {"open"}), Paid(e)' = Paid(e) \cup {p}
          PROVE  /\ \A q \in Paid(e)' : After(purchases'[q].terms, T)
                 /\ Of(e, {"open"})' = {}
                 /\ ~(quote' # NoQuote /\ quote'.event = e)
      <4>1. p \in Purchases /\ purchases[p].event = e /\ purchases[p].status = "open" /\ p \notin Paid(e)
        BY DEF Of, Paid
      <4>2. T = S + purchases[p].terms.final /\ purchases[p].terms.final \in Nat
        BY <2>2, <3>7, <4>1, SpentAdds, PurchasesAre
      <4>3. \A q \in Paid(e) : q <= p /\ q # p
        BY <4>1, PaidAre DEF Checkouts
      <4>4. ASSUME NEW f \in First(e)'
            PROVE  f \in Purchases /\ (f \in First(e) \/ (f = p /\ Paid(e) = {}))
        <5>1. f \in Paid(e)' /\ \A q \in Paid(e)' : f <= q
          BY DEF First
        <5>2. CASE f \in Paid(e)
          BY <3>3, <3>7, <5>1, <5>2 DEF First
        <5>3. CASE f = p
          <6>1. \A q \in Paid(e) : p <= q /\ q \in Nat /\ p \in Nat
            BY <3>3, <3>7, <4>1, <5>1, <5>3
          <6>2. Paid(e) = {}
            BY <4>3, <6>1
          <6>. QED  BY <4>1, <5>3, <6>2
        <5>. QED  BY <3>7, <5>1, <5>2, <5>3
      <4>5. ASSUME NEW q \in Paid(e)'
            PROVE  After(purchases'[q].terms, T)
        <5>1. q \in Purchases /\ purchases'[q].terms = purchases[q].terms /\ purchases[q].terms.base \in Nat
          BY <2>2, <3>3, <3>7, <4>1, PurchasesAre
        <5>2. \A f \in First(e)' : /\ purchases'[f].terms = purchases[f].terms
                                   /\ purchases[f].terms.base \in Nat
          BY <2>2, <4>4, PurchasesAre
        <5>3. CASE q = p
          <6>1. Covers(e, purchases[p].terms, T)
            BY <3>2, <4>2
          <6>. HIDE DEF S, T
          <6>. QED  BY <4>4, <5>1, <5>2, <5>3, <6>1 DEF Covers
        <5>4. CASE q \in Paid(e)
          <6>1. Covers(e, purchases[q].terms, S)
            BY <3>2, <5>4
          <6>. HIDE DEF S, T
          <6>. QED  BY <3>1, <4>2, <4>4, <5>1, <5>2, <5>4, <6>1 DEF Covers
        <5>. QED  BY <3>7, <5>3, <5>4
      <4>6. Of(e, {"open"})' = {}
        <5>1. ASSUME NEW q \in Of(e, {"open"})'
              PROVE  FALSE
          <6>1. q \in Of(e, {"open"})
            BY <3>4, <3>7, <5>1
          <6>2. q = p
            <7>1. q \in Nat /\ p \in Nat /\ q <= p /\ p <= q
              BY <3>3, <4>1, <6>1 DEF Checkouts, Of
            <7>. QED  BY <7>1
          <6>3. purchases'[p].status = "settled"
            BY <3>7 DEF Paid, Of
          <6>. QED  BY <5>1, <6>2, <6>3 DEF Of
        <5>. QED  BY <5>1
      <4>7. ~(quote' # NoQuote /\ quote'.event = e)
        BY <3>5, <3>7
      <4>. QED  BY <4>5, <4>6, <4>7
    <3>8. /\ \A p \in Paid(e)' : After(purchases'[p].terms, T)
          /\ \A p \in Of(e, {"open"})' :
                After(purchases'[p].terms, T + purchases'[p].terms.final)
          /\ quote' # NoQuote /\ quote'.event = e => After(quote'.terms, T + quote'.terms.final)
      <4>. HIDE DEF After, S, T
      <4>. QED  BY <1>2, <2>5, <3>6, <3>7, PaidGrows
    <3>. QED  BY <3>8 DEF Covers
  <2>. QED  BY <2>3, <2>4, <2>5 DEF Ledger, FairTerms
<1>. QED  BY <1>1, <1>2

\* A plan that was bought and stands is the last grant of a clean event.
LEMMA BoughtIsSold ==
    ASSUME IInv, History, Origins, NEW e \in EventIds, Bought(e)
    PROVE  \E p \in Paid(e) : purchases[p].terms.rank = ActiveGrant(e).rank
<1>. DEFINE a == ActiveIndex(e)
            n == Len(grants[e])
<1>1. Clean(e) /\ HasGrant(e)
  BY DEF Bought, Clean, Sources
<1>2. /\ a \in DOMAIN grants[e] /\ With(e, "active") = {a} /\ ActiveGrant(e) = grants[e][a]
      /\ grants[e] # <<>>
  BY <1>1, TheActive
<1>3. n \in Nat /\ DOMAIN grants[e] = 1..n
  BY GrantsAre DEF IInv
<1>4. a = n
  <2>1. grants[e][n].status = "active" /\ n \in DOMAIN grants[e]
    BY <1>1, <1>2, <1>3 DEF Origins, Clean
  <2>. HIDE DEF a, n
  <2>. QED  BY <1>2, <2>1 DEF With
<1>5. PICK p \in Of(e, {"settled"}) : purchases[p].applied
  BY DEF Bought
<1>6. PICK i \in DOMAIN grants[e] : grants[e][i].source \in {"purchase", "external"}
  BY <1>5 DEF Origins, Served, Of
<1>7. grants[e][a].source # "system"
  <2>1. ASSUME grants[e][a].source = "system"
        PROVE  FALSE
    <3>1. a = 1
      BY <1>2, <2>1 DEF Origins
    <3>2. i = 1
      BY <1>3, <1>4, <3>1
    <3>. QED  BY <1>6, <2>1, <3>1, <3>2
  <2>. QED  BY <2>1
<1>8. SoldBy(e, a)
  BY <1>1, <1>2, <1>7 DEF Clean, Sources, Origins
<1>9. grants[e][a].ref \in Paid(e)
  <2>1. purchases[grants[e][a].ref].status # "refunded"
    BY <1>1, <1>8 DEF Clean, Of, SoldBy
  <2>2. purchases[grants[e][a].ref].status = "settled"
    BY <1>8, <2>1, PurchasesAre DEF SoldBy, IInv
  <2>. QED  BY <1>8, <2>2 DEF SoldBy, Paid, Of
<1>. QED  BY <1>2, <1>8, <1>9 DEF SoldBy

LEMMA PriceFits ==
    ASSUME ModestLoyalty, IInv, History, Origins, Ledger
    PROVE  NeverBelowPrice
<1>. SUFFICES ASSUME NEW e \in EventIds, Bought(e)
              PROVE  SpentOn(e) >= TierValue(purchases[Min(Of(e, {"settled"}))].terms.context,
                                             ActiveGrant(e).rank)
  BY DEF NeverBelowPrice
<1>. USE DEF IInv
<1>. DEFINE f == Min(Paid(e))
            r == ActiveGrant(e).rank
            S == SpentOn(e)
<1>1. PICK p \in Paid(e) : purchases[p].terms.rank = r
  BY BoughtIsSold
<1>2. f \in First(e) /\ f \in Purchases /\ p \in Purchases
  BY <1>1, PaidAre, MinIn DEF First
<1>3. Clean(e)
  BY DEF Bought, Clean, Sources
<1>4. Covers(e, purchases[p].terms, S)
  BY <1>1, <1>3 DEF Ledger
<1>5. FairTerms(purchases[p].terms) /\ FairTerms(purchases[f].terms)
  BY <1>2 DEF Ledger
<1>6. /\ purchases[p].terms.context \in Contexts /\ purchases[f].terms.context \in Contexts
      /\ purchases[f].terms.rank \in Ranks /\ r \in Ranks
  <2>1. purchases[p].terms \in Terms /\ purchases[f].terms \in Terms
    BY <1>2, PurchasesAre
  <2>. QED  BY <1>1, <2>1 DEF Terms
<1>7. S \in Nat /\ TierValue("first", r) \in Nat /\ TierValue("returning", r) \in Nat
      /\ TierValue("first", purchases[f].terms.rank) \in Nat
  BY <1>6, SpentIs, TierValueIs
<1>8. Sellable(r) /\ purchases[p].terms.base = TierValue(purchases[p].terms.context, r)
  BY <1>1, <1>5 DEF FairTerms
<1>9. S >= TierValue(purchases[f].terms.context, r)
  <2>. HIDE DEF f, r, S
  <2>1. CASE purchases[p].terms.context = purchases[f].terms.context
    BY <1>4, <1>8, <2>1 DEF Covers
  <2>2. CASE purchases[p].terms.context = "first" /\ purchases[f].terms.context = "returning"
    <3>1. TierValue("returning", r) <= TierValue("first", r)
      BY <1>6, <1>8 DEF ModestLoyalty
    <3>. QED  BY <1>4, <1>7, <1>8, <2>2, <3>1 DEF Covers
  <2>3. CASE purchases[p].terms.context = "returning" /\ purchases[f].terms.context = "first"
    <3>1. S >= TierValue("returning", r) + TierValue("first", purchases[f].terms.rank)
      BY <1>2, <1>4, <1>5, <1>8, <2>3 DEF Covers, FairTerms
    <3>2. TierValue("first", r) <= TierValue("returning", r) + TierValue("first", purchases[f].terms.rank)
      BY <1>5, <1>6, <1>8 DEF ModestLoyalty, FairTerms
    <3>. QED  BY <1>7, <2>3, <3>1, <3>2
  <2>. QED  BY <1>6, <2>1, <2>2, <2>3 DEF Contexts
<1>. QED  BY <1>9 DEF Paid

\* No order of purchases, upgrades and loyalty makes a plan cheaper than the
\* price list of the event's first purchase says, for any catalog whose
\* loyalty discounts are at most the price of a plan: before the first purchase
\* is granted, and once another event of the host is paid, a second full one may
\* be quoted at the loyalty price (pricing.go, QuoteEventPurchase and
\* quoteUpgrade).
THEOREM PriceListHolds == ModestLoyalty => (Spec => []NeverBelowPrice)
<1>. SUFFICES ASSUME ModestLoyalty
              PROVE  Spec => []NeverBelowPrice
  OBVIOUS
<1>1. Init => Checkouts
  BY DEF Init, Checkouts, Purchases
<1>2. IInv /\ History /\ Origins /\ Ledger => NeverBelowPrice
  BY PriceFits
<1>. QED  BY <1>1, <1>2, HistoryInductive, CheckoutsKeep, OriginsInit, OriginsKeep,
          LedgerInit, LedgerKeeps, PTL DEF Spec
=============================================================================
