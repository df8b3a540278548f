--------------------------- MODULE MCEventPlans ----------------------------
\* EventPlans with the three plans of the default catalog, at the list and
\* loyalty prices of migration 000039, and two events of one host.
EXTENDS EventPlans

Plan(sellable, items, bytes, days, price, returning) ==
    [sellable |-> sellable, items |-> items, bytes |-> bytes, days |-> days,
     price |-> price, returning |-> returning]

MCPlans == << Plan(FALSE, 1, 1, 0, 0, 0),
              Plan(TRUE, 2, 0, 2, 39, 32),
              Plan(TRUE, 3, 3, 1, 69, 59) >>
MCEventIds == 1..2
MCDates == {0, 1}
MCOldEvents == {2}
=============================================================================
