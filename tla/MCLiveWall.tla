---------------------------- MODULE MCLiveWall ----------------------------
(* A small instance of LiveWall for TLC. *)
EXTENDS LiveWall

CONSTANTS h, g, p, ra, rb

MCRole == [c \in Conns |-> IF c = h THEN "host" ELSE IF c = g THEN "guest" ELSE "projector"]
MCCast(who, n) == [who |-> who, changes |-> n]
MCCasts == {MCCast({h, g}, 1), MCCast({p, ra}, 2), MCCast({ra, rb}, 2)}
MCIncluded == <<{"classic"}, {"classic", "cinematic"}>>
=============================================================================
