----------------------------- MODULE MCStorage -----------------------------
\* Storage with two items, of which the older cannot be copied.
EXTENDS Storage

MCBroken == {1}
=============================================================================
