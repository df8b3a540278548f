--------------------------- MODULE MCMediaUpload ---------------------------
(* Small instances of MediaUpload for TLC. *)
EXTENDS MediaUpload, TLC

CONSTANTS u1, u2

\* Two guests sharing the same photo, or a photo and a video.
MCSamePhoto ==
    u1 :> [checksum |-> "a", size |-> 2, kind |-> "photo"] @@
    u2 :> [checksum |-> "a", size |-> 2, kind |-> "photo"]
MCPhotoVideo ==
    u1 :> [checksum |-> "a", size |-> 1, kind |-> "photo"] @@
    u2 :> [checksum |-> "b", size |-> 1, kind |-> "video"]

\* A plan is its byte limit and its limits on media, photos and videos.
MCPlan(b, i, p, v) ==
    [bytes |-> b, items |-> [x \in Resources |-> CASE x = "media" -> i
                                                  [] x = "photo" -> p
                                                  [] x = "video" -> v]]
MCSmallPlan == MCPlan(1, 1, 0, 1)
MCNoBytePlan == MCPlan(0, 2, 1, 0)
MCWidePlan == MCPlan(2, 2, 2, 1)
MCLargePlan == MCPlan(4, 2, 2, 1)
MCPlans == {MCSmallPlan, MCNoBytePlan, MCWidePlan}
MCOnePlan == {MCLargePlan}

\* Bounds: while the event is active under the wide plan alone, a deletion runs
\* beside confirmations, other deletions and the cleanup; while no upload has
\* grown stale and nothing is deleted, the event may be closed, or its plan
\* change once.
MCDeleting == \E r \in Requests : pc[r] = "delete"
MCRacesOrPlans ==
    \/ /\ granted = {MCWidePlan} /\ eventStatus = "active"
       /\ MCDeleting => \A r \in Requests : pc[r] \in {"idle", "mark", "delete"}
    \/ /\ horizon = 0 /\ ~MCDeleting
       /\ \/ granted = {MCWidePlan} /\ eventStatus = "closed"
          \/ eventStatus = "active" /\ Cardinality(granted) <= 2

MCSymmetry == Permutations(Requests)
=============================================================================
