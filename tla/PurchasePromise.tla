-------------------------- MODULE PurchasePromise --------------------------
(***************************************************************************)
(* What billing promises about the purchases of one event, without any of  *)
(* its handlers: what was paid is granted, once, and only upwards          *)
(* (internal/billing/service.go, docs/operations/event-plans-runbook.md).  *)
(***************************************************************************)
EXTENDS Naturals

CONSTANTS
    Purchases,
    Tier          \* tier_rank of the plan each purchase is for

VARIABLES
    paid,         \* purchases whose payment the provider completed
    granted,      \* purchases the event was granted the plan of
    level         \* tier_rank of the event's plan

promiseVars == <<paid, granted, level>>

Owed == {k \in paid \ granted : Tier[k] > level}

Init == paid = {} /\ granted = {} /\ level = 0

Pay(k) ==
    /\ k \notin paid
    /\ paid' = paid \cup {k}
    /\ UNCHANGED <<granted, level>>

Grant(k) ==
    /\ k \in Owed
    /\ granted' = granted \cup {k}
    /\ level' = Tier[k]
    /\ UNCHANGED paid

Next == \E k \in Purchases : Pay(k) \/ Grant(k)

Spec == Init /\ [][Next]_promiseVars

\* What is owed is granted, or ceases to be an upgrade.
AllGranted == \A k \in Purchases : k \in Owed ~> k \notin Owed

\* The same of an event that has no paid plan yet.
FirstGranted ==
    \A k \in Purchases : (k \in Owed /\ granted = {}) ~> granted # {}
=============================================================================
