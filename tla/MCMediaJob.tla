----------------------------- MODULE MCMediaJob -----------------------------
(* Small instances of MediaJob for TLC. *)
EXTENDS MediaJob, TLC

CONSTANTS m1, m2
=============================================================================
