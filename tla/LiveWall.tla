----------------------------- MODULE LiveWall -----------------------------
(***************************************************************************)
(* The live wall of an event: the hosts' remotes that command it and       *)
(* change its presentation, the plan its features need, and the projectors *)
(* that follow it through the event's notifications.                       *)
(*                                                                         *)
(*   internal/livewall/livewall.go, internal/httpapi/live_wall.go          *)
(***************************************************************************)
EXTENDS Realtime

CONSTANTS
    Remotes,     \* hosts' screens that control the wall
    Transitions, \* the ones chosen, of "classic", "cinematic", "living_mosaic"
    Included,    \* transitions included, by rank of the plan
    Anything     \* an update without expected_revision

ASSUME LiveWallAssumption ==
    /\ Transitions \subseteq {"classic", "cinematic", "living_mosaic"}
    /\ "classic" \in Transitions
    /\ Included \in Seq(SUBSET Transitions) /\ Len(Included) > 0
    /\ Anything \notin Nat

VARIABLES
    rank,   \* rank of the event's plan
    wall,   \* the row of live_wall_sessions
    aged,   \* expires_at has passed
    rpc,    \* a remote: next step
    want,   \* transition it asks for
    expect, \* revision it expects
    saw     \* the row as it last read it

wallVars == <<rank, wall, aged, rpc, want, expect, saw>>
vars == <<realtimeVars, wallVars>>

NoWall == [status |-> "none", revision |-> 0, transition |-> "classic", playing |-> TRUE]

Live == wall.status = "live"
TokenWorks == Live /\ ~aged
Allowed(t) == t \in Included[rank]

LiveWallChanged == Announce(<<Message("presentation", {"public"})>>)

Idle(r) ==
    /\ rpc' = [rpc EXCEPT ![r] = "idle"]
    /\ want' = [want EXCEPT ![r] = "classic"]
    /\ expect' = [expect EXCEPT ![r] = Anything]

\* The row an answer carries, or a GET.
Answer(r, row) == saw' = [saw EXCEPT ![r] = row]

-----------------------------------------------------------------------------

PlanChanged(n) ==
    /\ rank' = n
    /\ n # rank
    /\ Announce(<<Message("plan", {"host"})>>)
    /\ UNCHANGED <<media, gallery, topicVars, connVars, panicked,
                   wall, aged, rpc, want, expect, saw>>

\* A plan without the full wall starts on the classic transition.
CreateGate(r) ==
    /\ rpc[r] = "idle" /\ wall.status = "none"
    /\ want' = [want EXCEPT ![r] = IF Allowed("cinematic") THEN "cinematic" ELSE "classic"]
    /\ rpc' = [rpc EXCEPT ![r] = "create"]
    /\ UNCHANGED <<realtimeVars, rank, wall, aged, expect, saw>>

\* Bound: one session.
CreateWall(r) ==
    /\ rpc[r] = "create" /\ wall.status = "none"
    /\ wall' = [NoWall EXCEPT !.status = "live", !.transition = want[r]]
    /\ Idle(r)
    /\ Answer(r, wall')
    /\ UNCHANGED <<realtimeVars, rank, aged>>

Get(r) ==
    /\ rpc[r] = "idle" /\ wall.status # "none"
    /\ saw[r] # wall
    /\ Answer(r, wall)
    /\ UNCHANGED <<realtimeVars, rank, wall, aged, rpc, want, expect>>

\* Update: the plan is asked before the row is touched.
UpdateGate(r, t, named) ==
    /\ rpc[r] = "idle" /\ saw[r].status = "live"
    /\ t = "classic" \/ Allowed(t)
    /\ want' = [want EXCEPT ![r] = t]
    /\ expect' = [expect EXCEPT ![r] = IF named THEN saw[r].revision ELSE Anything]
    /\ rpc' = [rpc EXCEPT ![r] = "update"]
    /\ UNCHANGED <<realtimeVars, rank, wall, aged, saw>>

\* UpdatePresentation: one conditional UPDATE that returns the row.
UpdateWall(r) ==
    /\ rpc[r] = "update" /\ Live
    /\ expect[r] \in {Anything, wall.revision}
    /\ wall' = [wall EXCEPT !.transition = want[r], !.revision = @ + 1]
    /\ LiveWallChanged
    /\ Answer(r, wall')
    /\ Idle(r)
    /\ UNCHANGED <<media, gallery, topicVars, connVars, panicked, rank, aged>>

\* ErrNotFound or ErrRevisionConflict.
UpdateRefused(r) ==
    /\ rpc[r] = "update"
    /\ ~Live \/ expect[r] \notin {Anything, wall.revision}
    /\ Idle(r)
    /\ UNCHANGED <<realtimeVars, rank, wall, aged, saw>>

\* Variant: a command leaves the revision alone.
CommandUnnumbered(r, play) ==
    /\ rpc[r] = "idle" /\ Live
    /\ wall' = [wall EXCEPT !.playing = play]
    /\ LiveWallChanged
    /\ Answer(r, wall')
    /\ UNCHANGED <<media, gallery, topicVars, connVars, panicked,
                   rank, aged, rpc, want, expect>>

\* Play and pause; the other commands set other flags or none, and announce
\* a new revision all the same.  A session is commanded after it expired.
Command(r, play) ==
    /\ rpc[r] = "idle" /\ Live
    /\ wall' = [wall EXCEPT !.playing = play, !.revision = @ + 1]
    /\ LiveWallChanged
    /\ Answer(r, wall')
    /\ UNCHANGED <<media, gallery, topicVars, connVars, panicked,
                   rank, aged, rpc, want, expect>>

\* End and Revoke keep the revision.
EndWall(status) ==
    /\ Live
    /\ wall' = [wall EXCEPT !.status = status]
    /\ LiveWallChanged
    /\ UNCHANGED <<media, gallery, topicVars, connVars, panicked,
                   rank, aged, rpc, want, expect, saw>>

\* Time passes.
Expire ==
    /\ Live /\ ~aged
    /\ aged' = TRUE
    /\ UNCHANGED <<realtimeVars, rank, wall, rpc, want, expect, saw>>

\* LiveWallHandler.Stream: the token is checked before subscribing, and not
\* again.
WallConnect(c) ==
    /\ cpc[c] = "idle" /\ Role[c] = "projector"
    /\ TokenWorks
    /\ Goto(c, "subscribe")
    /\ UNCHANGED <<eventVars, topicVars, topic, chanVars, panicked, wallVars>>

-----------------------------------------------------------------------------

Init ==
    /\ \E cast \in Casts :
         /\ RealtimeInit(cast)
         /\ rpc = [r \in Remotes |-> IF r \in cast.who THEN "idle" ELSE "gone"]
    /\ rank = Len(Included) /\ wall = NoWall /\ aged = FALSE
    /\ want = [r \in Remotes |-> "classic"]
    /\ expect = [r \in Remotes |-> Anything]
    /\ saw = [r \in Remotes |-> NoWall]

RemoteStep(r) ==
    \/ CreateGate(r) \/ CreateWall(r) \/ Get(r) \/ UpdateWall(r) \/ UpdateRefused(r)
    \/ \E t \in Transitions, named \in BOOLEAN : UpdateGate(r, t, named)
    \/ \E play \in BOOLEAN : Command(r, play)

Next ==
    /\ ~panicked
    /\ \/ RealtimeNext /\ UNCHANGED wallVars
       \/ \E r \in Remotes : RemoteStep(r)
       \/ \E n \in DOMAIN Included : PlanChanged(n)
       \/ \E s \in {"ended", "revoked"} : EndWall(s)
       \/ Expire
       \/ \E c \in Conns : WallConnect(c)

Spec == Init /\ [][Next]_vars
FairSpec == Spec /\ RealtimeFairness

-----------------------------------------------------------------------------
(* Properties *)

Records == [status : {"none", "live", "ended", "revoked"}, revision : Nat,
            transition : Transitions, playing : BOOLEAN]

TypeOK ==
    /\ media \in {"none", "ready", "featured", "hidden", "gone"}
    /\ gallery \in BOOLEAN /\ budget \in Nat
    /\ hub \in {"open", "closing", "closed"} /\ current \in Topics \cup {NoTopic}
    /\ run \in [Topics -> {"unused", "made", "starting", "live", "stopping", "ended"}]
    /\ subs \in [Topics -> SUBSET Conns] /\ cancelled \in [Topics -> BOOLEAN]
    /\ cpc \in [Conns -> {"idle", "subscribe", "join", "found", "streaming",
                          "leaving", "close", "gone"}]
    /\ topic \in [Conns -> Topics \cup {NoTopic}]
    /\ \A c \in Conns : Len(queue[c]) <= Buffer /\ (dropped[c] => ~open[c])
    /\ wall \in Records /\ saw \in [Remotes -> Records]
    /\ rank \in DOMAIN Included /\ aged \in BOOLEAN /\ panicked \in BOOLEAN
    /\ rpc \in [Remotes -> {"idle", "create", "update", "gone"}]
    /\ want \in [Remotes -> Transitions] /\ expect \in [Remotes -> Nat \cup {Anything}]

\* An update that names the revision it expects changes the very presentation
\* its remote had on screen, whatever the other remotes did meanwhile
\* (livewall.go, UpdatePresentation, Command).
NoLostUpdate ==
    [][\A r \in Remotes :
         rpc[r] = "update" /\ rpc'[r] = "idle" /\ wall' # wall /\ expect[r] # Anything
           => wall = saw[r]]_vars
=============================================================================
