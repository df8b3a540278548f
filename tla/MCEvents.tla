----------------------------- MODULE MCEvents -----------------------------
(* Small instances of Events for TLC: a free plan with one seat, and a paid  *)
(* one without a limit.                                                      *)
EXTENDS Events, TLC

MCSeats == <<1, 0>>
MCSymmetry == Permutations(EventIds) \cup Permutations(Creates) \cup Permutations(Scans)
=============================================================================
