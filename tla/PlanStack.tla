---------------------------- MODULE PlanStack -----------------------------
(***************************************************************************)
(* What the grants of an event amount to: a plan that is held, and below   *)
(* it the plans it replaced, each lower than the one that came after.  A   *)
(* grant brings a higher plan that lasts no shorter; revoking one leaves   *)
(* exactly what there was before it (internal/entitlement/repository.go,   *)
(* Activate and Revoke).                                                   *)
(***************************************************************************)
EXTENDS Naturals

CONSTANT EventIds

VARIABLES
    held,    \* of an event: the plan in force, its rank and last day
    below    \* of an event: the plans replaced and not revoked

NoPlan == [rank |-> 0, until |-> 0]

Init ==
    /\ held = [e \in EventIds |-> NoPlan]
    /\ below = [e \in EventIds |-> {}]

\* Whatever comes on top.
Grant(e) ==
    /\ held'[e].rank > held[e].rank
    /\ held'[e].until >= held[e].until
    /\ held' = [held EXCEPT ![e] = held'[e]]
    /\ below' = [below EXCEPT ![e] = @ \cup ({held[e]} \ {NoPlan})]

Revoke(e) ==
    /\ held'[e] \in below[e]
    /\ \A p \in below[e] \ {held'[e]} : p.rank < held'[e].rank
    /\ held' = [held EXCEPT ![e] = held'[e]]
    /\ below' = [below EXCEPT ![e] = @ \ {held'[e]}]

Next == \E e \in EventIds : Grant(e) \/ Revoke(e)

Spec == Init /\ [][Next]_<<held, below>>
=============================================================================
