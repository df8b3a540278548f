----------------------------- MODULE MCBilling -----------------------------
(* Small instances of Billing for TLC: two tiers at a total of 3, and the   *)
(* notifications the provider may send about each purchase.                 *)
EXTENDS Billing, TLC

CONSTANTS
    k1, k2,                  \* purchases of the lower and of the higher tier
    paid1, failed1, canceled1, refund1, second1, dispute1, won1,
    paid2, wrong2

MCRank == [k \in Keys |-> IF k = k1 THEN 1 ELSE 2]
MCTotal == [k \in Keys |-> 3]

About(k, type, amount) == [key |-> k, type |-> type, amount |-> amount]

MCNote ==
    [n \in Notes |->
        CASE n = paid1 -> About(k1, "settled", 0)
          [] n = failed1 -> About(k1, "failed", 0)
          [] n = canceled1 -> About(k1, "canceled", 0)
          [] n = refund1 -> About(k1, "refunded", 1)
          [] n = second1 -> About(k1, "refunded", 1)
          [] n = dispute1 -> About(k1, "disputed", 2)
          [] n = won1 -> About(k1, "dispute_reversed", 2)
          [] n = paid2 -> About(k2, "settled", 0)
          [] n = wrong2 -> About(k2, "settled", 0)]

\* Requests are alike.
MCSymmetry == Permutations(Checkouts) \cup Permutations(Deliveries)
=============================================================================
