-------------------------- MODULE LiveWallProofs --------------------------
(***************************************************************************)
(* Theorems about LiveWall, and the notifications under it, for any number *)
(* of streams, topics, remotes: sends on channels, gaps, abandoned topics  *)
(* and updates that name their revision.                                   *)
(***************************************************************************)
EXTENDS LiveWall, TLAPS

-----------------------------------------------------------------------------
(* Types *)

Kinds == {"created", "thumbnail", "updated", "deleted", "gallery_on", "gallery_off",
          "plan", "presentation"}
Messages == [kind : Kinds, to : SUBSET Audiences]

ChangeTypes ==
    /\ media \in {"none", "ready", "featured", "hidden", "gone"}
    /\ gallery \in BOOLEAN /\ budget \in Nat
    /\ pending \in Seq(Seq(Messages))

TopicTypes ==
    /\ hub \in {"open", "closing", "closed"} /\ current \in Topics \cup {NoTopic}
    /\ run \in [Topics -> {"unused", "made", "starting", "live", "stopping", "ended"}]
    /\ subs \in [Topics -> SUBSET Conns] /\ cancelled \in [Topics -> BOOLEAN]
    /\ sent \in [Topics -> [Audiences -> Nat]]

InboxTypes == inbox \in [Topics -> Seq(Messages)]

ConnTypes ==
    /\ cpc \in [Conns -> {"idle", "subscribe", "join", "found", "streaming",
                          "leaving", "close", "gone"}]
    /\ topic \in [Conns -> Topics \cup {NoTopic}]
    /\ queue \in [Conns -> Seq(Messages)]
    /\ open \in [Conns -> BOOLEAN] /\ dropped \in [Conns -> BOOLEAN]
    /\ got \in [Conns -> Nat] /\ panicked \in BOOLEAN

WallTypes ==
    /\ wall \in Records /\ saw \in [Remotes -> Records]
    /\ rank \in DOMAIN Included /\ aged \in BOOLEAN
    /\ rpc \in [Remotes -> {"idle", "create", "update", "gone"}]
    /\ want \in [Remotes -> Transitions] /\ expect \in [Remotes -> Nat \cup {Anything}]

Types == ChangeTypes /\ TopicTypes /\ InboxTypes /\ ConnTypes /\ WallTypes

-----------------------------------------------------------------------------
(* The inductive invariant *)

Fresh(c) == cpc[c] \in {"idle", "subscribe", "join", "found"}
Alive(t) == run[t] \in {"made", "starting", "live"}

\* While the hub is open its map holds the one topic that is alive.
MapHoldsAlive == hub = "open" => \A t \in Topics : Alive(t) <=> current = t

\* A topic waits for the stream that made it.
Makers ==
    /\ \A c \in Conns : cpc[c] = "found" => topic[c] \in Topics /\ run[topic[c]] = "made"
    /\ \A c, d \in Conns :
          cpc[c] = "found" /\ cpc[d] = "found" /\ c # d => topic[c] # topic[d]

\* A stream joins one topic, and its channel is filled by it alone.
Joined ==
    /\ \A c \in Conns : Fresh(c) =>
          /\ queue[c] = <<>> /\ ~dropped[c]
          /\ \A t \in Topics : c \notin subs[t]
    /\ \A c \in Conns : cpc[c] \in {"join", "found", "streaming"} =>
          topic[c] \in Topics /\ run[topic[c]] # "unused"
    /\ \A c \in Conns : cpc[c] \in {"join", "found"} => open[c]
    /\ \A c \in Conns, t, u \in Topics : c \in subs[t] /\ c \in subs[u] => t = u
    /\ \A c \in Conns, t \in Topics :
          c \in subs[t] /\ cpc[c] \in {"streaming", "leaving"} => topic[c] = t
    /\ \A c \in Conns : cpc[c] = "streaming" /\ open[c] => c \in subs[topic[c]]
    /\ \A t \in Topics : run[t] = "unused" => subs[t] = {}

\* Outside shutdown a topic that is alive sends to open channels.
OpenToSends ==
    hub = "open" => \A c \in Conns, t \in Topics : c \in subs[t] /\ Alive(t) =>
        open[c] /\ topic[c] = t /\ cpc[c] \in {"streaming", "leaving", "close"}

\* A channel holds messages to its audience, no more than fit.
Channels ==
    /\ \A c \in Conns : Len(queue[c]) <= Buffer /\ (dropped[c] => ~open[c])
    /\ \A c \in Conns : \A i \in DOMAIN queue[c] : AudienceOf(c) \in queue[c][i].to

Wiring ==
    /\ MapHoldsAlive /\ Makers /\ Joined /\ OpenToSends /\ Channels
    /\ SendsAreSafe /\ GapsAreTold /\ IdleCancelled

\* A remote has the row on screen unless the revision is another.
OnScreen ==
    /\ \A r \in Remotes : saw[r].status # "none" =>
          /\ wall.status # "none" /\ saw[r].revision <= wall.revision
          /\ saw[r].status = "live" /\ wall.status = "live" /\ saw[r].revision = wall.revision
               => saw[r] = wall
    /\ \A r \in Remotes : rpc[r] = "update" /\ expect[r] # Anything =>
          saw[r].status = "live" /\ expect[r] = saw[r].revision

IInv == Types /\ Wiring /\ OnScreen

-----------------------------------------------------------------------------
(* Initially *)

LEMMA AudienceIs == \A c \in Conns : AudienceOf(c) \in Audiences
BY DEF AudienceOf, Audiences

LEMMA InvInit == ASSUME Init PROVE IInv
<1>1. PICK cast \in Casts : /\ RealtimeInit(cast)
                            /\ rpc = [r \in Remotes |-> IF r \in cast.who THEN "idle" ELSE "gone"]
  BY DEF Init
<1>. USE <1>1, RealtimeAssumption, LiveWallAssumption DEF RealtimeInit
<1>2. ChangeTypes /\ TopicTypes /\ InboxTypes /\ ConnTypes
  <2>1. ChangeTypes  BY DEF ChangeTypes
  <2>2. TopicTypes  BY DEF TopicTypes
  <2>3. InboxTypes  BY DEF InboxTypes
  <2>4. cpc \in [Conns -> {"idle", "subscribe", "join", "found", "streaming",
                            "leaving", "close", "gone"}]
    OBVIOUS
  <2>6. topic \in [Conns -> Topics \cup {NoTopic}]  OBVIOUS
  <2>7. queue \in [Conns -> Seq(Messages)]  OBVIOUS
  <2>8. open \in [Conns -> BOOLEAN] /\ dropped \in [Conns -> BOOLEAN]  OBVIOUS
  <2>9. got \in [Conns -> Nat] /\ panicked \in BOOLEAN  OBVIOUS
  <2>5. ConnTypes  BY <2>4, <2>6, <2>7, <2>8, <2>9 DEF ConnTypes
  <2>. QED  BY <2>1, <2>2, <2>3, <2>5
<1>3. WallTypes
  <2>1. NoWall \in Records
    BY DEF NoWall, Records
  <2>2. rank \in DOMAIN Included
    BY DEF Init
  <2>. QED  BY <2>1, <2>2 DEF Init, WallTypes
<1>4. Wiring
  BY DEF Wiring, MapHoldsAlive, Makers, Joined, OpenToSends, Channels, SendsAreSafe,
         GapsAreTold, IdleCancelled, Fresh, Alive, Topics
<1>5. OnScreen
  BY DEF Init, OnScreen, NoWall
<1>. QED  BY <1>2, <1>3, <1>4, <1>5 DEF IInv, Types

-----------------------------------------------------------------------------
(* Changes and remotes *)

wiringVars == <<hub, current, run, cancelled, subs, sent, connVars, panicked>>

LEMMA WiringFrame == ASSUME Wiring, UNCHANGED wiringVars PROVE Wiring'
BY DEF wiringVars, connVars, chanVars, Wiring, MapHoldsAlive, Makers, Joined, OpenToSends,
       Channels, SendsAreSafe, GapsAreTold, IdleCancelled, Fresh, Alive

LEMMA WiringTypesFrame ==
    ASSUME TopicTypes, ConnTypes, UNCHANGED wiringVars
    PROVE  TopicTypes' /\ ConnTypes'
BY DEF wiringVars, connVars, chanVars, TopicTypes, ConnTypes

LEMMA WallFrame ==
    ASSUME WallTypes, OnScreen, UNCHANGED wallVars
    PROVE  WallTypes' /\ OnScreen'
BY DEF wallVars, WallTypes, OnScreen

LEMMA Said ==
    ASSUME NEW kind \in Kinds, NEW to \in SUBSET Audiences
    PROVE  Message(kind, to) \in Messages
BY DEF Message, Messages

LEMMA Announced ==
    ASSUME ChangeTypes, NEW messages \in Seq(Messages), Announce(messages)
    PROVE  budget' \in Nat /\ pending' \in Seq(Seq(Messages))
BY DEF ChangeTypes, Announce

LEMMA MediaIsSaid ==
    ASSUME NEW kind \in {"created", "thumbnail", "moderated", "deleted"}, NEW s
    PROVE  MediaMessages(kind, s) \in Seq(Messages)
<1>1. CASE kind # "moderated"
  <2>1. Message(kind, Audiences) \in Messages
    BY <1>1, Said DEF Kinds
  <2>. QED  BY <1>1, <2>1 DEF MediaMessages
<1>2. CASE kind = "moderated"
  <2>1. {"host"} \in SUBSET Audiences /\ {"public"} \in SUBSET Audiences
    BY DEF Audiences
  <2>2. {"updated", "deleted"} \subseteq Kinds
    BY DEF Kinds
  <2>3. Message("updated", {"host"}) \in Messages
    BY <2>1, <2>2, Said
  <2>4. Message(IF s = "hidden" THEN "deleted" ELSE "updated", {"public"}) \in Messages
    BY <2>1, <2>2, Said
  <2>. QED  BY <1>2, <2>3, <2>4 DEF MediaMessages
<1>. QED  BY <1>1, <1>2

LEMMA InvChange ==
    ASSUME IInv, UNCHANGED wallVars,
           \/ MediaCreated \/ MediaThumbnail \/ MediaDeleted \/ EventChanged
           \/ \E s \in {"ready", "featured", "hidden"} : MediaModerated(s)
    PROVE  IInv'
<1>1. UNCHANGED <<wiringVars, inbox>>
  BY DEF MediaCreated, MediaThumbnail, MediaDeleted, MediaModerated, ChangeMedia,
         EventChanged, wiringVars, topicVars
<1>2. ChangeTypes'
  <2>1. ASSUME NEW kind \in {"created", "thumbnail", "moderated", "deleted"},
               NEW s \in {"ready", "featured", "hidden", "gone"}, ChangeMedia(kind, s)
        PROVE  ChangeTypes'
    <3>1. Announce(MediaMessages(kind, s)) /\ media' = s /\ gallery' = gallery
      BY <2>1 DEF ChangeMedia
    <3>2. budget' \in Nat /\ pending' \in Seq(Seq(Messages))
      BY <2>1, <3>1, MediaIsSaid, Announced DEF IInv, Types
    <3>. QED  BY <3>1, <3>2 DEF IInv, Types, ChangeTypes
  <2>2. CASE EventChanged
    <3>1. PICK kind \in {"gallery_on", "gallery_off"} : Announce(<<Message(kind, Audiences)>>)
      BY <2>2 DEF EventChanged
    <3>2. Message(kind, Audiences) \in Messages
      BY Said DEF Kinds
    <3>4. <<Message(kind, Audiences)>> \in Seq(Messages)
      BY <3>2
    <3>3. budget' \in Nat /\ pending' \in Seq(Seq(Messages))
      BY <3>1, <3>4, Announced DEF IInv, Types
    <3>. QED  BY <2>2, <3>3 DEF EventChanged, IInv, Types, ChangeTypes
  <2>3. media \in {"none", "ready", "featured", "hidden", "gone"}
    BY DEF IInv, Types, ChangeTypes
  <2>. QED
    BY <2>1, <2>2, <2>3 DEF MediaCreated, MediaThumbnail, MediaDeleted, MediaModerated
<1>. QED
  BY <1>1, <1>2, WiringFrame, WiringTypesFrame, WallFrame DEF IInv, Types, InboxTypes

LEMMA InvPublish ==
    ASSUME IInv, UNCHANGED wallVars, NEW i \in 1..Len(pending), Publish(i)
    PROVE  IInv'
<1>1. UNCHANGED <<wiringVars, media, gallery, budget>>
  BY DEF Publish, wiringVars
<1>2. pending[i] \in Seq(Messages) /\ pending[i] # <<>>
  BY DEF Publish, IInv, Types, ChangeTypes
<1>3. Head(pending[i]) \in Messages /\ Tail(pending[i]) \in Seq(Messages)
  BY <1>2
<1>4. ChangeTypes'
  BY <1>1, <1>3 DEF Publish, IInv, Types, ChangeTypes
<1>5. InboxTypes'
  <2>1. \A t \in Topics : Append(inbox[t], Head(pending[i])) \in Seq(Messages)
    BY <1>3 DEF IInv, Types, InboxTypes
  <2>2. inbox \in [Topics -> Seq(Messages)]
    BY DEF IInv, Types, InboxTypes
  <2>. QED  BY <2>1, <2>2 DEF Publish, InboxTypes
<1>. QED
  BY <1>1, <1>4, <1>5, WiringFrame, WiringTypesFrame, WallFrame DEF IInv, Types

\* An answer shows the row as it is now.
LEMMA Answered ==
    ASSUME WallTypes, NEW r \in Remotes, Answer(r, wall'), wall' \in Records,
           wall'.status # "none"
    PROVE  /\ saw' \in [Remotes -> Records]
           /\ saw'[r] = wall'
           /\ \A q \in Remotes \ {r} : saw'[q] = saw[q]
BY DEF WallTypes, Answer

LEMMA IdleAgain ==
    ASSUME WallTypes, NEW r \in Remotes, Idle(r)
    PROVE  /\ rpc' \in [Remotes -> {"idle", "create", "update", "gone"}]
           /\ want' \in [Remotes -> Transitions]
           /\ expect' \in [Remotes -> Nat \cup {Anything}]
           /\ rpc'[r] = "idle"
           /\ \A q \in Remotes \ {r} : rpc'[q] = rpc[q] /\ expect'[q] = expect[q]
BY LiveWallAssumption DEF WallTypes, Idle

LEMMA WallIsSaid ==
    ASSUME ChangeTypes, LiveWallChanged, UNCHANGED <<media, gallery>>
    PROVE  ChangeTypes'
<1>1. Message("presentation", {"public"}) \in Messages
  <2>1. "presentation" \in Kinds /\ {"public"} \in SUBSET Audiences
    BY DEF Kinds, Audiences
  <2>. QED  BY <2>1, Said
<1>2. <<Message("presentation", {"public"})>> \in Seq(Messages)
  BY <1>1
<1>3. budget' \in Nat /\ pending' \in Seq(Seq(Messages))
  BY <1>2, Announced DEF LiveWallChanged
<1>. QED  BY <1>3 DEF ChangeTypes

\* The presentation changes: the revision is the next.
LEMMA Renumbered ==
    ASSUME WallTypes, OnScreen, NEW r \in Remotes, Live, wall'.status = "live",
           wall' \in Records, wall'.revision = wall.revision + 1, Answer(r, wall'),
           UNCHANGED <<rank, aged>>,
           \/ Idle(r)
           \/ rpc[r] = "idle" /\ UNCHANGED <<rpc, want, expect>>
    PROVE  WallTypes' /\ OnScreen'
<1>1. /\ saw' \in [Remotes -> Records] /\ saw'[r] = wall'
      /\ \A q \in Remotes \ {r} : saw'[q] = saw[q]
  BY Answered
<1>2. /\ rpc' \in [Remotes -> {"idle", "create", "update", "gone"}]
      /\ want' \in [Remotes -> Transitions]
      /\ expect' \in [Remotes -> Nat \cup {Anything}]
      /\ rpc'[r] = "idle"
      /\ \A q \in Remotes \ {r} : rpc'[q] = rpc[q] /\ expect'[q] = expect[q]
  BY IdleAgain DEF WallTypes
<1>3. WallTypes'
  BY <1>1, <1>2 DEF WallTypes
<1>4. wall.revision \in Nat /\ \A q \in Remotes : saw[q].revision \in Nat
  BY DEF WallTypes, Records
<1>5. OnScreen'
  BY <1>1, <1>2, <1>4 DEF OnScreen, Live
<1>. QED  BY <1>3, <1>5

LEMMA InvRemote ==
    ASSUME IInv, NEW r \in Remotes, RemoteStep(r)
    PROVE  IInv'
<1>. USE DEF IInv, Types
<1>1. UNCHANGED <<wiringVars, inbox>>
  BY DEF RemoteStep, CreateGate, CreateWall, Get, UpdateWall, UpdateRefused, UpdateGate,
         Command, realtimeVars, topicVars, wiringVars
<1>2. ChangeTypes'
  <2>1. CASE UNCHANGED eventVars
    BY <2>1 DEF eventVars, ChangeTypes
  <2>2. CASE UpdateWall(r) \/ \E play \in BOOLEAN : Command(r, play)
    BY <2>2, WallIsSaid DEF UpdateWall, Command
  <2>. QED
    BY <2>1, <2>2 DEF RemoteStep, CreateGate, CreateWall, Get, UpdateRefused, UpdateGate,
                      realtimeVars
<1>3. WallTypes' /\ OnScreen'
  <2>1. CASE CreateGate(r)
    <3>1. Allowed("cinematic") => "cinematic" \in Transitions
      BY LiveWallAssumption DEF Allowed, WallTypes
    <3>2. want' \in [Remotes -> Transitions]
      BY <2>1, <3>1, LiveWallAssumption DEF CreateGate, WallTypes
    <3>3. rpc' \in [Remotes -> {"idle", "create", "update", "gone"}]
      BY <2>1 DEF CreateGate, WallTypes
    <3>4. \A q \in Remotes : rpc'[q] = "update" => rpc[q] = "update"
      BY <2>1 DEF CreateGate, WallTypes
    <3>. QED  BY <2>1, <3>2, <3>3, <3>4 DEF CreateGate, WallTypes, OnScreen
  <2>2. CASE CreateWall(r)
    <3>1. /\ wall' = [status |-> "live", revision |-> 0, transition |-> want[r], playing |-> TRUE]
          /\ wall.status = "none"
      BY <2>2 DEF CreateWall, NoWall
    <3>2. wall' \in Records
      BY <3>1 DEF WallTypes, Records
    <3>3. /\ saw' \in [Remotes -> Records] /\ saw'[r] = wall'
          /\ \A q \in Remotes \ {r} : saw'[q] = saw[q]
      BY <2>2, <3>1, <3>2, Answered DEF CreateWall
    <3>4. /\ rpc' \in [Remotes -> {"idle", "create", "update", "gone"}]
          /\ want' \in [Remotes -> Transitions]
          /\ expect' \in [Remotes -> Nat \cup {Anything}]
          /\ rpc'[r] = "idle"
          /\ \A q \in Remotes \ {r} : rpc'[q] = rpc[q] /\ expect'[q] = expect[q]
      BY <2>2, IdleAgain DEF CreateWall
    <3>5. WallTypes'
      BY <2>2, <3>2, <3>3, <3>4 DEF CreateWall, WallTypes
    <3>6. OnScreen'
      BY <3>1, <3>3, <3>4 DEF OnScreen
    <3>. QED  BY <3>5, <3>6
  <2>3. CASE Get(r)
    <3>1. saw' = [saw EXCEPT ![r] = wall] /\ UNCHANGED <<rank, wall, aged, rpc, want, expect>>
          /\ rpc[r] = "idle" /\ wall.status # "none"
      BY <2>3 DEF Get, Answer
    <3>2. WallTypes'
      BY <3>1 DEF WallTypes
    <3>3. wall.revision \in Nat
      BY DEF WallTypes, Records
    <3>4. OnScreen'
      BY <3>1, <3>3 DEF OnScreen, WallTypes
    <3>. QED  BY <3>2, <3>4
  <2>4. CASE UpdateWall(r)
    <3>1. wall' = [wall EXCEPT !.transition = want[r], !.revision = wall.revision + 1] /\ Live
      BY <2>4 DEF UpdateWall
    <3>3. wall' = [status |-> "live", revision |-> wall.revision + 1,
                   transition |-> want[r], playing |-> wall.playing]
      BY <3>1 DEF WallTypes, Records, Live
    <3>2. wall' \in Records /\ wall'.status = "live" /\ wall'.revision = wall.revision + 1
      BY <3>3 DEF WallTypes, Records
    <3>. QED  BY <2>4, <3>1, <3>2, Renumbered DEF UpdateWall
  <2>5. CASE UpdateRefused(r)
    <3>1. Idle(r) /\ UNCHANGED <<rank, wall, aged, saw>>
      BY <2>5 DEF UpdateRefused
    <3>. QED  BY <3>1, IdleAgain DEF WallTypes, OnScreen
  <2>6. ASSUME NEW t \in Transitions, NEW named \in BOOLEAN, UpdateGate(r, t, named)
        PROVE  WallTypes' /\ OnScreen'
    <3>1. saw[r].revision \in Nat /\ saw[r].status = "live"
      BY <2>6 DEF UpdateGate, WallTypes, Records
    <3>. QED  BY <2>6, <3>1 DEF UpdateGate, WallTypes, OnScreen
  <2>7. ASSUME NEW play \in BOOLEAN, Command(r, play)
        PROVE  WallTypes' /\ OnScreen'
    <3>1. wall' = [wall EXCEPT !.playing = play, !.revision = wall.revision + 1] /\ Live
      BY <2>7 DEF Command
    <3>3. wall' = [status |-> "live", revision |-> wall.revision + 1,
                   transition |-> wall.transition, playing |-> play]
      BY <3>1 DEF WallTypes, Records, Live
    <3>2. wall' \in Records /\ wall'.status = "live" /\ wall'.revision = wall.revision + 1
      BY <3>3 DEF WallTypes, Records
    <3>. QED  BY <2>7, <3>1, <3>2, Renumbered DEF Command
  <2>. QED  BY <2>1, <2>2, <2>3, <2>4, <2>5, <2>6, <2>7 DEF RemoteStep
<1>. QED
  BY <1>1, <1>2, <1>3, WiringFrame, WiringTypesFrame DEF InboxTypes

-----------------------------------------------------------------------------
(* Streams *)

\* What the steps of a stream and of a topic must show.
Held == TopicTypes /\ ConnTypes /\ Wiring

LEMMA OtherSteps ==
    ASSUME IInv, Held', InboxTypes', UNCHANGED <<eventVars, wallVars>>
    PROVE  IInv'
BY WallFrame DEF Held, IInv, Types, eventVars, ChangeTypes

\* A stream moves on without touching its topic or channel.
LEMMA MoveOn ==
    ASSUME Held, NEW c \in Conns, NEW l, Goto(c, l),
           UNCHANGED <<topicVars, topic, chanVars, panicked>>,
           \/ cpc[c] = "idle" /\ l = "subscribe"
           \/ cpc[c] = "subscribe" /\ l = "gone"
           \/ cpc[c] = "streaming" /\ l = "leaving"
    PROVE  Held'
<1>. USE DEF Held, topicVars, chanVars
<1>1. /\ cpc' = [cpc EXCEPT ![c] = l] /\ cpc'[c] = l /\ \A d \in Conns \ {c} : cpc'[d] = cpc[d]
      /\ ConnTypes'
  BY DEF Goto, ConnTypes
<1>2. TopicTypes' /\ MapHoldsAlive' /\ Channels' /\ SendsAreSafe' /\ IdleCancelled'
  BY DEF TopicTypes, Wiring, MapHoldsAlive, Channels, SendsAreSafe, IdleCancelled, Alive
<1>3. Makers' /\ GapsAreTold'
  BY <1>1 DEF Wiring, Makers, GapsAreTold
<1>4. Joined' /\ OpenToSends'
  BY <1>1 DEF Wiring, Joined, OpenToSends, Fresh, Alive
<1>. QED  BY <1>1, <1>2, <1>3, <1>4 DEF Wiring

LEMMA HeldFind ==
    ASSUME Held, NEW c \in Conns, SubscribeFind(c)
    PROVE  Held'
<1>. USE DEF Held
<1>1. /\ cpc[c] = "subscribe" /\ hub = "open" /\ Fresh(c)
      /\ UNCHANGED <<hub, cancelled, subs, sent, queue, dropped, got, panicked>>
      /\ open' = [open EXCEPT ![c] = TRUE]
  BY DEF SubscribeFind, Fresh
<1>2. CASE Mapped # NoTopic
  <2>1. /\ current \in Topics /\ Mapped = current
        /\ topic' = [topic EXCEPT ![c] = current] /\ cpc' = [cpc EXCEPT ![c] = "join"]
        /\ UNCHANGED <<current, run>>
    BY <1>1, <1>2 DEF SubscribeFind, Goto, Mapped, TopicTypes
  <2>2. TopicTypes' /\ ConnTypes'
    BY <1>1, <2>1 DEF TopicTypes, ConnTypes
  <2>3. MapHoldsAlive' /\ SendsAreSafe' /\ IdleCancelled'
    BY <1>1, <2>1 DEF Wiring, MapHoldsAlive, SendsAreSafe, IdleCancelled, Alive
  <2>4. Makers'
    BY <1>1, <2>1, <2>2 DEF Wiring, Makers, ConnTypes
  <2>7. run[current] # "unused"
    BY <1>1, <2>1 DEF Wiring, MapHoldsAlive, Alive
  <2>8. Joined'
    BY <1>1, <2>1, <2>7 DEF Wiring, Joined, Fresh, ConnTypes
  <2>5. OpenToSends'
    BY <1>1, <2>1 DEF Wiring, Joined, OpenToSends, Alive, ConnTypes
  <2>6. Channels' /\ GapsAreTold'
    BY <1>1, <2>1 DEF Wiring, Channels, GapsAreTold, Joined, ConnTypes
  <2>. QED  BY <2>2, <2>3, <2>4, <2>5, <2>6, <2>8 DEF Wiring
<1>3. CASE Mapped = NoTopic
  <2>1. PICK t \in Topics :
           /\ run[t] = "unused" /\ current' = t /\ run' = [run EXCEPT ![t] = "made"]
           /\ topic' = [topic EXCEPT ![c] = t] /\ cpc' = [cpc EXCEPT ![c] = "found"]
    BY <1>1, <1>3 DEF SubscribeFind, Goto
  <2>2. TopicTypes' /\ ConnTypes'
    BY <1>1, <2>1 DEF TopicTypes, ConnTypes
  <2>3. current = NoTopic /\ \A u \in Topics : ~Alive(u)
    BY <1>1, <1>3, RealtimeAssumption DEF Mapped, Wiring, MapHoldsAlive, Topics
  <2>4. MapHoldsAlive' /\ SendsAreSafe' /\ IdleCancelled'
    BY <1>1, <2>1, <2>3 DEF Wiring, MapHoldsAlive, SendsAreSafe, IdleCancelled, Alive, TopicTypes
  <2>5. Makers'
    BY <1>1, <2>1, <2>2, <2>3 DEF Wiring, Makers, ConnTypes, TopicTypes, Alive
  <2>6. subs[t] = {}
    BY <2>1 DEF Wiring, Joined
  <2>7. Joined' /\ OpenToSends'
    BY <1>1, <2>1, <2>3, <2>6 DEF Wiring, Joined, OpenToSends, Fresh, Alive, ConnTypes, TopicTypes
  <2>8. Channels' /\ GapsAreTold'
    BY <1>1, <2>1 DEF Wiring, Channels, GapsAreTold, Joined, ConnTypes
  <2>. QED  BY <2>2, <2>4, <2>5, <2>7, <2>8 DEF Wiring
<1>. QED  BY <1>2, <1>3

LEMMA HeldJoin ==
    ASSUME Held, NEW c \in Conns, Join(c)
    PROVE  Held'
<1>. USE DEF Held
<1>. DEFINE t == topic[c]
<1>1. /\ cpc[c] \in {"join", "found"} /\ Fresh(c) /\ t \in Topics
      /\ subs' = [subs EXCEPT ![t] = @ \cup {c}]
      /\ got' = [got EXCEPT ![c] = sent[t][AudienceOf(c)]]
      /\ cpc' = [cpc EXCEPT ![c] = "streaming"]
      /\ UNCHANGED <<hub, current, cancelled, sent, topic, queue, open, dropped, panicked>>
  BY DEF Join, Goto, Fresh, Wiring, Joined
<1>2. \/ run' = run /\ cpc[c] = "join"
      \/ run' = [run EXCEPT ![t] = "starting"] /\ run[t] = "made" /\ cpc[c] = "found"
  BY <1>1 DEF Join, Wiring, Makers
<1>3. TopicTypes' /\ ConnTypes'
  <2>1. sent[t][AudienceOf(c)] \in Nat
    BY <1>1, AudienceIs DEF TopicTypes
  <2>2. TopicTypes'
    BY <1>1, <1>2 DEF TopicTypes
  <2>3. ConnTypes'
    BY <1>1, <2>1 DEF ConnTypes
  <2>. QED  BY <2>2, <2>3
<1>4. \A u \in Topics : Alive(u)' <=> Alive(u)
  BY <1>2 DEF Alive, TopicTypes
<1>5. MapHoldsAlive' /\ SendsAreSafe'
  BY <1>1, <1>4 DEF Wiring, MapHoldsAlive, SendsAreSafe
<1>6. IdleCancelled'
  BY <1>1, <1>2 DEF Wiring, IdleCancelled, TopicTypes
<1>7. Makers'
  BY <1>1, <1>2 DEF Wiring, Makers, ConnTypes, TopicTypes
<1>8. Joined'
  <2>1. run[t] # "unused" /\ \A u \in Topics : run'[u] = "unused" <=> run[u] = "unused"
    BY <1>1, <1>2 DEF Wiring, Joined, TopicTypes
  <2>. QED  BY <1>1, <2>1 DEF Wiring, Joined, Fresh, ConnTypes, TopicTypes
<1>9. OpenToSends'
  BY <1>1, <1>4 DEF Wiring, OpenToSends, Joined, ConnTypes, TopicTypes
<1>10. Channels' /\ GapsAreTold'
  BY <1>1, AudienceIs DEF Wiring, Channels, GapsAreTold, Joined, ConnTypes, TopicTypes
<1>. QED  BY <1>3, <1>5, <1>6, <1>7, <1>8, <1>9, <1>10 DEF Wiring

LEMMA HeldPump ==
    ASSUME Held, NEW c \in Conns, Pump(c)
    PROVE  Held'
<1>. USE DEF Held, topicVars
<1>1. /\ cpc[c] = "streaming" /\ queue[c] # <<>>
      /\ queue' = [queue EXCEPT ![c] = Tail(queue[c])]
      /\ got' = [got EXCEPT ![c] = got[c] + 1]
      /\ UNCHANGED <<hub, current, run, cancelled, subs, sent, topic, open, dropped, panicked>>
      /\ cpc' = cpc \/ cpc' = [cpc EXCEPT ![c] = "leaving"]
  BY DEF Pump
<1>2. /\ queue[c] \in Seq(Messages) /\ Tail(queue[c]) \in Seq(Messages)
      /\ Len(Tail(queue[c])) = Len(queue[c]) - 1 /\ Len(queue[c]) \in Nat
      /\ \A i \in DOMAIN Tail(queue[c]) :
            i + 1 \in DOMAIN queue[c] /\ Tail(queue[c])[i] = queue[c][i + 1]
  BY <1>1 DEF ConnTypes
<1>3. TopicTypes' /\ MapHoldsAlive' /\ SendsAreSafe' /\ IdleCancelled'
  BY <1>1 DEF TopicTypes, Wiring, MapHoldsAlive, SendsAreSafe, IdleCancelled, Alive
<1>4. ConnTypes'
  BY <1>1, <1>2 DEF ConnTypes
<1>9. /\ cpc'[c] \in {"streaming", "leaving"}
      /\ \A d \in Conns \ {c} : cpc'[d] = cpc[d] /\ queue'[d] = queue[d] /\ got'[d] = got[d]
      /\ queue'[c] = Tail(queue[c]) /\ got'[c] = got[c] + 1
  BY <1>1 DEF ConnTypes
<1>5. Makers'
  BY <1>1, <1>9 DEF Wiring, Makers
<1>6. Joined'
  BY <1>1, <1>9 DEF Wiring, Joined, Fresh
<1>10. OpenToSends'
  BY <1>1, <1>9 DEF Wiring, OpenToSends, Alive
<1>7. Channels'
  BY <1>1, <1>2, RealtimeAssumption DEF Wiring, Channels, ConnTypes
<1>8. GapsAreTold'
  <2>1. \A d \in Conns \ {c} : cpc'[d] = "streaming" /\ open'[d] =>
           got'[d] + Len(queue'[d]) = sent'[topic'[d]][AudienceOf(d)]
    BY <1>1, <1>9 DEF Wiring, GapsAreTold
  <2>2. open[c] => got[c] + Len(queue[c]) = sent[topic[c]][AudienceOf(c)]
    BY <1>1 DEF Wiring, GapsAreTold
  <2>3. got'[c] + Len(queue'[c]) = got[c] + Len(queue[c])
    BY <1>2, <1>9 DEF ConnTypes
  <2>. QED  BY <1>1, <2>1, <2>2, <2>3 DEF GapsAreTold
<1>. QED  BY <1>3, <1>4, <1>5, <1>6, <1>7, <1>8, <1>10 DEF Wiring

LEMMA HeldCloseFind ==
    ASSUME Held, NEW c \in Conns, CloseFind(c)
    PROVE  Held'
<1>. USE DEF Held, topicVars, chanVars
<1>1. /\ cpc[c] = "leaving"
      /\ topic' = [topic EXCEPT ![c] = Mapped]
      /\ cpc' = [cpc EXCEPT ![c] = "close"]
      /\ UNCHANGED <<hub, current, run, cancelled, subs, sent, queue, open, dropped, got, panicked>>
  BY DEF CloseFind, Goto
<1>2. Mapped \in Topics \cup {NoTopic} /\ (hub = "open" => Mapped = current)
  BY DEF Mapped, TopicTypes
<1>3. TopicTypes' /\ MapHoldsAlive' /\ SendsAreSafe' /\ IdleCancelled' /\ Channels'
  BY <1>1 DEF TopicTypes, Wiring, MapHoldsAlive, SendsAreSafe, IdleCancelled, Channels, Alive
<1>4. ConnTypes'
  BY <1>1, <1>2 DEF ConnTypes
<1>5. Makers' /\ GapsAreTold'
  BY <1>1 DEF Wiring, Makers, GapsAreTold, ConnTypes
<1>6. Joined'
  BY <1>1 DEF Wiring, Joined, Fresh, ConnTypes
<1>7. OpenToSends'
  BY <1>1, <1>2 DEF Wiring, MapHoldsAlive, OpenToSends, Alive, ConnTypes
<1>. QED  BY <1>3, <1>4, <1>5, <1>6, <1>7 DEF Wiring

LEMMA HeldCloseRemove ==
    ASSUME Held, NEW c \in Conns, CloseRemove(c)
    PROVE  Held'
<1>. USE DEF Held
<1>1. /\ cpc[c] = "close" /\ open' = [open EXCEPT ![c] = FALSE]
      /\ cpc' = [cpc EXCEPT ![c] = "gone"]
      /\ UNCHANGED <<hub, current, run, sent, topic, queue, dropped, got, panicked>>
  BY DEF CloseRemove, Goto
<1>2. \/ topic[c] = NoTopic /\ UNCHANGED <<subs, cancelled>>
      \/ /\ topic[c] \in Topics
         /\ subs' = [subs EXCEPT ![topic[c]] = @ \ {c}]
         /\ cancelled' = [cancelled EXCEPT ![topic[c]] = @ \/ subs'[topic[c]] = {}]
  BY DEF CloseRemove, ConnTypes
<1>3. TopicTypes'
  BY <1>1, <1>2 DEF TopicTypes
<1>4. ConnTypes'
  BY <1>1 DEF ConnTypes
<1>5. /\ \A t \in Topics : subs'[t] \subseteq subs[t]
      /\ \A d \in Conns \ {c}, t \in Topics : d \in subs[t] => d \in subs'[t]
      /\ topic[c] \in Topics => c \notin subs'[topic[c]]
  <2>1. NoTopic \notin Topics
    BY RealtimeAssumption DEF Topics
  <2>2. CASE UNCHANGED subs /\ topic[c] = NoTopic
    BY <2>1, <2>2
  <2>3. CASE topic[c] \in Topics /\ subs' = [subs EXCEPT ![topic[c]] = @ \ {c}]
    BY <2>3 DEF TopicTypes
  <2>. QED  BY <1>2, <2>2, <2>3
<1>6. MapHoldsAlive' /\ SendsAreSafe'
  BY <1>1 DEF Wiring, MapHoldsAlive, SendsAreSafe, Alive
<1>7. IdleCancelled'
  BY <1>1, <1>2, RealtimeAssumption DEF Wiring, IdleCancelled, TopicTypes, Topics
<1>8. Makers' /\ Channels' /\ GapsAreTold'
  BY <1>1 DEF Wiring, Makers, Channels, GapsAreTold, ConnTypes
<1>9. Joined'
  <2>1. /\ cpc'[c] = "gone"
        /\ \A d \in Conns \ {c} : cpc'[d] = cpc[d] /\ open'[d] = open[d]
    BY <1>1 DEF ConnTypes
  <2>. QED  BY <1>1, <1>5, <2>1 DEF Wiring, Joined, Fresh
<1>10. OpenToSends'
  BY <1>1, <1>5 DEF Wiring, OpenToSends, Alive, ConnTypes
<1>. QED  BY <1>3, <1>4, <1>6, <1>7, <1>8, <1>9, <1>10 DEF Wiring

LEMMA InvConn ==
    ASSUME IInv, UNCHANGED wallVars, NEW c \in Conns, ConnStep(c) \/ WallConnect(c)
    PROVE  IInv'
<1>1. Held
  BY DEF IInv, Types, Held
<1>2. UNCHANGED <<eventVars, inbox>>
  BY DEF ConnStep, Connect, SubscribeFind, SubscribeRefused, Join, Pump, PumpClosed, Leave,
         CloseFind, CloseRemove, WallConnect, topicVars
<1>3. Held'
  <2>1. CASE Connect(c) \/ WallConnect(c) \/ SubscribeRefused(c) \/ PumpClosed(c) \/ Leave(c)
    BY <1>1, <2>1, MoveOn DEF Connect, WallConnect, SubscribeRefused, PumpClosed, Leave
  <2>. QED
    BY <1>1, <2>1, HeldFind, HeldJoin, HeldPump, HeldCloseFind, HeldCloseRemove DEF ConnStep
<1>. QED
  BY <1>2, <1>3, OtherSteps DEF IInv, Types, InboxTypes

-----------------------------------------------------------------------------
(* Topics and the hub *)

LEMMA HeldDeliver ==
    ASSUME Held, InboxTypes, NEW t \in Topics, Deliver(t)
    PROVE  Held' /\ InboxTypes'
<1>. USE DEF Held
<1>. DEFINE m == Head(inbox[t])
            over == Overflowed(t, m)
<1>1. /\ run[t] = "live"
      /\ queue' = [c \in Conns |-> IF c \in Reached(t, m) \ over
                                    THEN Append(queue[c], m) ELSE queue[c]]
      /\ open' = [c \in Conns |-> open[c] /\ c \notin over]
      /\ dropped' = [c \in Conns |-> dropped[c] \/ c \in over]
      /\ subs' = [subs EXCEPT ![t] = @ \ over]
      /\ cancelled' = [cancelled EXCEPT ![t] = @ \/ subs'[t] = {}]
      /\ panicked' = (\E c \in Reached(t, m) : ~open[c])
      /\ sent' = [sent EXCEPT ![t] = [a \in Audiences |-> IF a \in m.to THEN @[a] + 1 ELSE @[a]]]
      /\ inbox' = [inbox EXCEPT ![t] = Tail(@)]
      /\ UNCHANGED <<hub, current, run, cpc, topic, got>>
  BY DEF Deliver, Take
<1>2. inbox[t] \in Seq(Messages) /\ inbox[t] # <<>>
  BY DEF Deliver, InboxTypes
<1>3. m \in Messages /\ Tail(inbox[t]) \in Seq(Messages)
  BY <1>2
<1>. HIDE DEF m
<1>4. InboxTypes'
  BY <1>1, <1>3 DEF InboxTypes, m
<1>5. /\ Reached(t, m) = {c \in subs[t] : AudienceOf(c) \in m.to}
      /\ over = {c \in Reached(t, m) : Len(queue[c]) = Buffer}
      /\ over \subseteq subs[t] /\ Reached(t, m) \subseteq subs[t] /\ subs[t] \subseteq Conns
  BY DEF Overflowed, Reached, TopicTypes
<1>. HIDE DEF over
<1>6. TopicTypes'
  <2>1. \A a \in Audiences : sent'[t][a] = IF a \in m.to THEN sent[t][a] + 1 ELSE sent[t][a]
    BY <1>1 DEF TopicTypes
  <2>2. sent' \in [Topics -> [Audiences -> Nat]]
    BY <1>1 DEF TopicTypes
  <2>. QED  BY <1>1, <1>5, <2>2 DEF TopicTypes
<1>7. ConnTypes'
  <2>1. \A c \in Conns : Append(queue[c], m) \in Seq(Messages)
    BY <1>3 DEF ConnTypes
  <2>2. queue' \in [Conns -> Seq(Messages)]
    BY <1>1, <2>1 DEF ConnTypes
  <2>. QED  BY <1>1, <2>2 DEF ConnTypes
<1>8. MapHoldsAlive' /\ Makers'
  BY <1>1 DEF Wiring, MapHoldsAlive, Makers, Alive
<1>9. SendsAreSafe'
  BY <1>1, <1>5 DEF Wiring, OpenToSends, SendsAreSafe, Alive
<1>10. IdleCancelled'
  BY <1>1 DEF Wiring, IdleCancelled, TopicTypes
<1>11. \A u \in Topics : subs'[u] \subseteq subs[u] /\ (u # t => subs'[u] = subs[u])
  BY <1>1 DEF TopicTypes
<1>12. Joined'
  <2>1. \A c \in Conns : Fresh(c) => c \notin over /\ queue'[c] = queue[c]
    BY <1>1, <1>5 DEF Wiring, Joined
  <2>2. \A c \in Conns : c \in subs[t] /\ open'[c] => c \in subs'[t]
    BY <1>1, <1>5 DEF TopicTypes
  <2>3. \A c \in Conns : cpc[c] = "streaming" /\ open'[c] => c \in subs'[topic[c]]
    BY <1>1, <1>11, <2>2 DEF Wiring, Joined, ConnTypes
  <2>4. \A c \in Conns : Fresh(c) => open'[c] = open[c] /\ dropped'[c] = dropped[c]
    BY <1>1, <2>1 DEF ConnTypes
  <2>. QED  BY <1>1, <1>11, <2>1, <2>3, <2>4 DEF Wiring, Joined, Fresh
<1>13. OpenToSends'
  <2>1. \A c \in Conns, u \in Topics : c \in subs'[u] => c \notin over
    BY <1>1, <1>5, <1>11 DEF Wiring, Joined, TopicTypes
  <2>. QED  BY <1>1, <1>11, <2>1 DEF Wiring, OpenToSends, Alive
<1>14. Channels'
  <2>1. ASSUME NEW c \in Conns
        PROVE  /\ Len(queue'[c]) <= Buffer
               /\ \A i \in DOMAIN queue'[c] : AudienceOf(c) \in queue'[c][i].to
    <3>1. CASE c \in Reached(t, m) \ over
      <4>1. queue'[c] = Append(queue[c], m) /\ queue[c] \in Seq(Messages)
            /\ Len(queue[c]) < Buffer /\ AudienceOf(c) \in m.to
        BY <1>1, <1>5, <3>1, RealtimeAssumption DEF Wiring, Channels, ConnTypes
      <4>. QED  BY <4>1, RealtimeAssumption DEF Wiring, Channels
    <3>2. CASE c \notin Reached(t, m) \ over
      BY <1>1, <3>2 DEF Wiring, Channels
    <3>. QED  BY <3>1, <3>2
  <2>2. \A c \in Conns : dropped'[c] => ~open'[c]
    BY <1>1 DEF Wiring, Channels
  <2>. QED  BY <2>1, <2>2 DEF Channels
<1>15. GapsAreTold'
  <2>. SUFFICES ASSUME NEW c \in Conns, cpc[c] = "streaming", open'[c]
                PROVE  got[c] + Len(queue'[c]) = sent'[topic[c]][AudienceOf(c)]
    BY <1>1 DEF GapsAreTold
  <2>1. open[c] /\ c \notin over /\ c \in subs[topic[c]] /\ topic[c] \in Topics
    BY <1>1 DEF Wiring, Joined
  <2>2. got[c] + Len(queue[c]) = sent[topic[c]][AudienceOf(c)]
    BY <2>1 DEF Wiring, GapsAreTold
  <2>3. CASE topic[c] # t
    <3>1. c \notin Reached(t, m)
      BY <1>5, <2>1, <2>3 DEF Wiring, Joined
    <3>. QED  BY <1>1, <2>2, <2>3, <3>1 DEF TopicTypes
  <2>4. CASE topic[c] = t
    <3>1. sent'[t][AudienceOf(c)] = IF AudienceOf(c) \in m.to THEN sent[t][AudienceOf(c)] + 1
                                    ELSE sent[t][AudienceOf(c)]
      BY <1>1, AudienceIs DEF TopicTypes
    <3>2. CASE AudienceOf(c) \in m.to
      <4>1. queue'[c] = Append(queue[c], m) /\ queue[c] \in Seq(Messages)
        BY <1>1, <1>5, <2>1, <2>4, <3>2 DEF ConnTypes
      <4>. QED  BY <2>2, <2>4, <3>1, <3>2, <4>1 DEF ConnTypes
    <3>3. CASE AudienceOf(c) \notin m.to
      BY <1>1, <1>5, <2>2, <2>4, <3>1, <3>3
    <3>. QED  BY <3>2, <3>3
  <2>. QED  BY <2>3, <2>4
<1>. QED
  BY <1>4, <1>6, <1>7, <1>8, <1>9, <1>10, <1>12, <1>13, <1>14, <1>15 DEF Wiring

LEMMA HeldRun ==
    ASSUME Held, NEW t \in Topics, BusSubscribe(t) \/ Stop(t)
    PROVE  Held'
<1>. USE DEF Held, connVars, chanVars
<1>1. /\ UNCHANGED <<hub, subs, sent, connVars, panicked>>
      /\ \/ /\ run[t] = "starting" /\ ~cancelled[t] /\ run' = [run EXCEPT ![t] = "live"]
            /\ UNCHANGED <<current, cancelled>>
         \/ /\ run[t] \in {"starting", "live"} /\ run' = [run EXCEPT ![t] = "stopping"]
            /\ cancelled' = [cancelled EXCEPT ![t] = TRUE]
            /\ current' = IF Mapped = t THEN NoTopic ELSE current
  BY DEF BusSubscribe, Stop
<1>2. TopicTypes' /\ ConnTypes'
  BY <1>1 DEF TopicTypes, ConnTypes
<1>3. \A u \in Topics : /\ Alive(u)' => Alive(u)
                        /\ run[u] # "unused" => run'[u] # "unused"
                        /\ u # t => run'[u] = run[u]
  BY <1>1 DEF Alive, TopicTypes
<1>4. MapHoldsAlive'
  BY <1>1, RealtimeAssumption DEF Wiring, MapHoldsAlive, Mapped, Alive, TopicTypes, Topics
<1>5. Makers'
  BY <1>1, <1>3 DEF Wiring, Makers
<1>6. Joined'
  <2>1. run'[t] # "unused"
    BY <1>1 DEF TopicTypes
  <2>. QED  BY <1>1, <1>3, <2>1 DEF Wiring, Joined, Fresh
<1>7. OpenToSends' /\ Channels' /\ SendsAreSafe' /\ GapsAreTold'
  BY <1>1, <1>3 DEF Wiring, OpenToSends, Channels, SendsAreSafe, GapsAreTold
<1>8. IdleCancelled'
  BY <1>1 DEF Wiring, IdleCancelled, TopicTypes
<1>. QED  BY <1>2, <1>4, <1>5, <1>6, <1>7, <1>8 DEF Wiring

LEMMA HeldRelease ==
    ASSUME Held, NEW t \in Topics, Release(t)
    PROVE  Held'
<1>. USE DEF Held
<1>1. /\ run[t] = "stopping" /\ run' = [run EXCEPT ![t] = "ended"]
      /\ subs' = [subs EXCEPT ![t] = {}]
      /\ open' = [c \in Conns |-> open[c] /\ c \notin subs[t]]
      /\ UNCHANGED <<hub, current, cancelled, sent, cpc, topic, queue, dropped, got, panicked>>
  BY DEF Release
<1>2. TopicTypes' /\ ConnTypes'
  BY <1>1 DEF TopicTypes, ConnTypes
<1>3. /\ \A u \in Topics : Alive(u)' <=> Alive(u)
      /\ \A u \in Topics : run'[u] = "unused" <=> run[u] = "unused"
      /\ ~Alive(t)
  BY <1>1 DEF Alive, TopicTypes
<1>4. /\ subs'[t] = {} /\ \A u \in Topics \ {t} : subs'[u] = subs[u]
      /\ \A u \in Topics : subs'[u] \subseteq subs[u]
  BY <1>1 DEF TopicTypes
<1>5. \A c \in Conns : /\ open'[c] => open[c] /\ c \notin subs[t]
                       /\ open[c] /\ c \notin subs[t] => open'[c]
  BY <1>1
<1>6. MapHoldsAlive' /\ SendsAreSafe' /\ Channels' /\ GapsAreTold'
  BY <1>1, <1>3, <1>5 DEF Wiring, MapHoldsAlive, SendsAreSafe, Channels, GapsAreTold
<1>7. Makers' /\ IdleCancelled'
  BY <1>1 DEF Wiring, Makers, IdleCancelled, TopicTypes
<1>8. Joined'
  BY <1>1, <1>3, <1>4, <1>5 DEF Wiring, Joined, Fresh
<1>9. OpenToSends'
  <2>. SUFFICES ASSUME hub' = "open", NEW c \in Conns, NEW u \in Topics, c \in subs'[u], Alive(u)'
                PROVE  open'[c] /\ topic'[c] = u /\ cpc'[c] \in {"streaming", "leaving", "close"}
    BY DEF OpenToSends
  <2>1. c \in subs[u] /\ c \notin subs[t] /\ Alive(u)
    BY <1>3, <1>4 DEF Wiring, Joined
  <2>. QED  BY <1>1, <1>5, <2>1 DEF Wiring, OpenToSends
<1>. QED  BY <1>2, <1>6, <1>7, <1>8, <1>9 DEF Wiring

LEMMA HeldHub ==
    ASSUME Held, HubClose \/ HubShutdown
    PROVE  Held'
<1>. USE DEF Held, connVars, chanVars
<1>1. hub' # "open" /\ hub' \in {"open", "closing", "closed"}
  BY DEF HubClose, HubShutdown
<1>2. CASE HubClose
  <2>1. UNCHANGED <<current, run, cancelled, subs, sent, connVars, panicked>>
    BY <1>2 DEF HubClose
  <2>. QED
    BY <1>1, <2>1 DEF TopicTypes, ConnTypes, Wiring, MapHoldsAlive, Makers, Joined, OpenToSends,
       Channels, SendsAreSafe, GapsAreTold, IdleCancelled, Fresh
<1>3. CASE HubShutdown
  <2>1. /\ current' = NoTopic /\ cancelled' = [u \in Topics |-> TRUE]
        /\ UNCHANGED <<run, sent, cpc, topic, queue, dropped, got, panicked>>
    BY <1>3 DEF HubShutdown
  <2>2. CASE current = NoTopic
    <3>1. UNCHANGED <<subs, open>>
      BY <1>3, <2>2 DEF HubShutdown
    <3>. QED
      BY <1>1, <2>1, <3>1 DEF TopicTypes, ConnTypes, Wiring, MapHoldsAlive, Makers, Joined,
         OpenToSends, Channels, SendsAreSafe, GapsAreTold, IdleCancelled, Fresh
  <2>3. CASE current # NoTopic
    <3>1. /\ current \in Topics /\ subs' = [subs EXCEPT ![current] = {}]
          /\ open' = [c \in Conns |-> open[c] /\ c \notin subs[current]]
      BY <1>3, <2>3 DEF HubShutdown, TopicTypes
    <3>2. TopicTypes' /\ ConnTypes'
      BY <1>1, <2>1, <3>1 DEF TopicTypes, ConnTypes
    <3>3. /\ subs'[current] = {} /\ \A u \in Topics \ {current} : subs'[u] = subs[u]
          /\ \A u \in Topics : subs'[u] \subseteq subs[u]
      BY <3>1 DEF TopicTypes
    <3>4. \A c \in Conns : /\ open'[c] => open[c] /\ c \notin subs[current]
                           /\ open[c] /\ c \notin subs[current] => open'[c]
      BY <3>1
    <3>5. Joined'
      BY <2>1, <3>1, <3>3, <3>4 DEF Wiring, Joined, Fresh
    <3>6. MapHoldsAlive' /\ Makers' /\ OpenToSends' /\ SendsAreSafe'
      BY <1>1, <2>1 DEF Wiring, MapHoldsAlive, Makers, OpenToSends, SendsAreSafe
    <3>7. Channels' /\ GapsAreTold' /\ IdleCancelled'
      BY <2>1, <3>4 DEF Wiring, Channels, GapsAreTold, IdleCancelled
    <3>. QED  BY <3>2, <3>5, <3>6, <3>7 DEF Wiring
  <2>. QED  BY <2>2, <2>3
<1>. QED  BY <1>2, <1>3

LEMMA InvTopic ==
    ASSUME IInv, UNCHANGED wallVars,
           (\E t \in Topics : TopicStep(t)) \/ HubClose \/ HubShutdown
    PROVE  IInv'
<1>1. Held /\ InboxTypes
  BY DEF IInv, Types, Held
<1>2. UNCHANGED eventVars
  BY DEF TopicStep, BusSubscribe, Deliver, Take, Stop, Release, HubClose, HubShutdown
<1>3. Held' /\ InboxTypes'
  <2>1. ASSUME NEW t \in Topics, BusSubscribe(t) \/ Stop(t)
        PROVE  Held' /\ InboxTypes'
    BY <1>1, <2>1, HeldRun DEF BusSubscribe, Stop, InboxTypes
  <2>2. ASSUME NEW t \in Topics, Release(t)
        PROVE  Held' /\ InboxTypes'
    <3>1. inbox' = [inbox EXCEPT ![t] = <<>>]
      BY <2>2 DEF Release
    <3>2. InboxTypes'
      BY <1>1, <3>1 DEF InboxTypes
    <3>. QED  BY <1>1, <2>2, <3>2, HeldRelease
  <2>3. CASE HubClose \/ HubShutdown
    BY <1>1, <2>3, HeldHub DEF HubClose, HubShutdown, InboxTypes
  <2>. QED  BY <1>1, <2>1, <2>2, <2>3, HeldDeliver DEF TopicStep
<1>. QED  BY <1>2, <1>3, OtherSteps

-----------------------------------------------------------------------------
(* The invariant holds *)

LEMMA InvWall ==
    ASSUME IInv, \/ \E n \in DOMAIN Included : PlanChanged(n)
                 \/ \E s \in {"ended", "revoked"} : EndWall(s)
                 \/ Expire
    PROVE  IInv'
<1>. USE DEF IInv, Types
<1>1. UNCHANGED <<wiringVars, inbox>>
  BY DEF PlanChanged, EndWall, Expire, realtimeVars, topicVars, wiringVars
<1>2. TopicTypes' /\ ConnTypes' /\ InboxTypes' /\ Wiring'
  BY <1>1, WiringFrame, WiringTypesFrame DEF InboxTypes
<1>3. ASSUME NEW n \in DOMAIN Included, PlanChanged(n)
      PROVE  ChangeTypes' /\ WallTypes' /\ OnScreen'
  <2>1. Message("plan", {"host"}) \in Messages
    <3>1. "plan" \in Kinds /\ {"host"} \in SUBSET Audiences
      BY DEF Kinds, Audiences
    <3>. QED  BY <3>1, Said
  <2>2. <<Message("plan", {"host"})>> \in Seq(Messages)
    BY <2>1
  <2>3. budget' \in Nat /\ pending' \in Seq(Seq(Messages))
    BY <1>3, <2>2, Announced DEF PlanChanged
  <2>. QED  BY <1>3, <2>3 DEF PlanChanged, ChangeTypes, WallTypes, OnScreen
<1>4. ASSUME NEW s \in {"ended", "revoked"}, EndWall(s)
      PROVE  ChangeTypes' /\ WallTypes' /\ OnScreen'
  <2>1. ChangeTypes'
    BY <1>4, WallIsSaid DEF EndWall
  <2>2. wall' = [status |-> s, revision |-> wall.revision, transition |-> wall.transition,
                 playing |-> wall.playing]
    BY <1>4 DEF EndWall, WallTypes, Records
  <2>3. WallTypes'
    BY <1>4, <2>2 DEF EndWall, WallTypes, Records
  <2>4. OnScreen'
    BY <1>4, <2>2 DEF EndWall, OnScreen
  <2>. QED  BY <2>1, <2>3, <2>4
<1>5. CASE Expire
  BY <1>2, <1>5 DEF Expire, realtimeVars, eventVars, ChangeTypes, WallTypes, OnScreen
<1>. QED  BY <1>2, <1>3, <1>4, <1>5

LEMMA InvHolds ==
    ASSUME IInv, [Next]_vars
    PROVE  IInv'
<1>1. CASE UNCHANGED vars
  <2>1. UNCHANGED <<wiringVars, eventVars, inbox, wallVars>>
    BY <1>1 DEF vars, realtimeVars, topicVars, wiringVars
  <2>. QED
    BY <2>1, WiringFrame, WiringTypesFrame, WallFrame DEF IInv, Types, eventVars, ChangeTypes,
       InboxTypes
<1>2. CASE RealtimeNext /\ UNCHANGED wallVars
  BY <1>2, InvChange, InvPublish, InvConn, InvTopic DEF RealtimeNext
<1>3. ASSUME NEW c \in Conns, WallConnect(c)
      PROVE  IInv'
  BY <1>3, InvConn DEF WallConnect
<1>. QED
  BY <1>1, <1>2, <1>3, InvRemote, InvWall DEF Next

LEMMA Inductive == Spec => []IInv
<1>. QED  BY InvInit, InvHolds, PTL DEF Spec

-----------------------------------------------------------------------------
(* Theorems *)

\* Types hold, no channel holds more than fits, and a stream that was dropped
\* is closed (hub.go, deliver).
THEOREM LiveWallTypeCorrect == Spec => []TypeOK
<1>1. IInv => TypeOK
  BY DEF IInv, Types, Wiring, Channels, ChangeTypes, TopicTypes, ConnTypes, WallTypes, TypeOK
<1>. QED  BY <1>1, Inductive, PTL

\* Outside shutdown no send meets a closed channel (hub.go, deliver, Close).
THEOREM SendsMeetOpenChannels == Spec => []SendsAreSafe
<1>1. IInv => SendsAreSafe
  BY DEF IInv, Wiring
<1>. QED  BY <1>1, Inductive, PTL

\* An open stream has missed nothing (hub.go, deliver).
THEOREM GapsCloseStreams == Spec => []GapsAreTold
<1>1. IInv => GapsAreTold
  BY DEF IInv, Wiring
<1>. QED  BY <1>1, Inductive, PTL

\* A topic nobody watches is cancelled (hub.go, remove, shutdown).
THEOREM IdleTopicsEnd == Spec => []IdleCancelled
<1>1. IInv => IdleCancelled
  BY DEF IInv, Wiring
<1>. QED  BY <1>1, Inductive, PTL

\* A stream falls silent only by joining a topic that was shut down since it
\* was found (hub.go, Subscribe).
THEOREM SilenceIsOnJoin == Spec => SilentOnJoinOnly
<1>1. ASSUME IInv, [Next]_vars, NEW c \in Conns, Silent(c)', ~Silent(c)
      PROVE  cpc[c] = "join"
  <2>. USE DEF IInv, Types, Wiring
  <2>1. CASE UNCHANGED <<cpc, topic, open, run>>
    BY <1>1, <2>1 DEF Silent
  <2>2. ASSUME NEW d \in Conns, ConnStep(d) \/ WallConnect(d)
        PROVE  cpc[c] = "join"
    <3>1. CASE SubscribeFind(d)
      <4>1. cpc'[d] \in {"join", "found"}
            /\ \A e \in Conns \ {d} : /\ cpc'[e] = cpc[e] /\ topic'[e] = topic[e]
                                      /\ open'[e] = open[e]
        <5>1. /\ \E l \in {"join", "found"} : cpc' = [cpc EXCEPT ![d] = l]
              /\ \E u \in Topics \cup {Mapped} : topic' = [topic EXCEPT ![d] = u]
              /\ open' = [open EXCEPT ![d] = TRUE]
          BY <3>1 DEF SubscribeFind, Goto
        <5>. QED  BY <1>1, <5>1 DEF ConnTypes
      <4>2. \/ run' = run
            \/ \E t \in Topics : run' = [run EXCEPT ![t] = "made"]
        BY <3>1 DEF SubscribeFind
      <4>3. c # d /\ topic[c] \in Topics /\ run'[topic[c]] = "ended"
        BY <1>1, <4>1 DEF Silent, Joined
      <4>4. run[topic[c]] = "ended"
        <5>1. run \in [Topics -> {"unused", "made", "starting", "live", "stopping", "ended"}]
          BY <1>1 DEF TopicTypes
        <5>2. CASE run' = run
          BY <4>3, <5>2
        <5>3. ASSUME NEW t \in Topics, run' = [run EXCEPT ![t] = "made"]
              PROVE  run[topic[c]] = "ended"
          BY <4>3, <5>1, <5>3
        <5>. QED  BY <4>2, <5>2, <5>3
      <4>. QED  BY <1>1, <4>1, <4>3, <4>4 DEF Silent
    <3>2. CASE Join(d)
      <4>1. /\ cpc' = [cpc EXCEPT ![d] = "streaming"] /\ cpc[d] \in {"join", "found"}
            /\ run' = IF cpc[d] = "found" THEN [run EXCEPT ![topic[d]] = "starting"] ELSE run
            /\ UNCHANGED <<topic, open>>
        BY <3>2 DEF Join, Goto
      <4>. QED  BY <1>1, <4>1 DEF Silent, ConnTypes, TopicTypes, Joined
    <3>3. CASE Pump(d)
      BY <1>1, <3>3 DEF Pump, Silent, ConnTypes, topicVars
    <3>4. CASE CloseFind(d) \/ CloseRemove(d)
      BY <1>1, <3>4 DEF CloseFind, CloseRemove, Goto, Silent, ConnTypes, topicVars, chanVars
    <3>5. CASE Connect(d) \/ WallConnect(d) \/ SubscribeRefused(d) \/ PumpClosed(d) \/ Leave(d)
      <4>1. /\ \E l \in {"subscribe", "gone", "leaving"} : cpc' = [cpc EXCEPT ![d] = l]
            /\ UNCHANGED <<topic, open, run>>
        BY <3>5 DEF Connect, WallConnect, SubscribeRefused, PumpClosed, Leave, Goto, topicVars,
                    chanVars
      <4>. QED  BY <1>1, <4>1 DEF Silent, ConnTypes
    <3>. QED  BY <2>2, <3>1, <3>2, <3>3, <3>4, <3>5 DEF ConnStep
  <2>3. ASSUME NEW t \in Topics, TopicStep(t)
        PROVE  cpc[c] = "join"
    <3>1. CASE BusSubscribe(t) \/ Stop(t)
      <4>1. /\ UNCHANGED <<cpc, topic, open>>
            /\ \E l \in {"live", "stopping"} : run' = [run EXCEPT ![t] = l]
        BY <3>1 DEF BusSubscribe, Stop, connVars, chanVars
      <4>2. topic[c] \in Topics /\ run'[topic[c]] = "ended"
        BY <1>1, <4>1 DEF Silent, Joined
      <4>3. run[topic[c]] = "ended"
        BY <4>1, <4>2 DEF TopicTypes
      <4>. QED  BY <1>1, <4>1, <4>3 DEF Silent
    <3>2. CASE Release(t)
      BY <1>1, <3>2 DEF Release, Silent, TopicTypes, Joined
    <3>3. CASE Deliver(t)
      BY <1>1, <3>3 DEF Deliver, Take, Silent
    <3>. QED  BY <2>3, <3>1, <3>2, <3>3 DEF TopicStep
  <2>4. CASE HubClose \/ HubShutdown
    BY <1>1, <2>4 DEF HubClose, HubShutdown, Silent, connVars, chanVars
  <2>5. CASE UNCHANGED wiringVars
    BY <2>1, <2>5 DEF wiringVars, connVars, chanVars
  <2>6. CASE UNCHANGED vars
    BY <2>1, <2>6 DEF vars, realtimeVars, topicVars, connVars, chanVars
  <2>7. CASE RealtimeNext
    <3>1. CASE \/ MediaCreated \/ MediaThumbnail \/ MediaDeleted \/ EventChanged
               \/ \E s \in {"ready", "featured", "hidden"} : MediaModerated(s)
               \/ \E i \in 1..Len(pending) : Publish(i)
      BY <2>5, <3>1 DEF MediaCreated, MediaThumbnail, MediaDeleted, MediaModerated,
         ChangeMedia, EventChanged, Publish, wiringVars, topicVars
    <3>. QED  BY <2>2, <2>3, <2>4, <2>7, <3>1 DEF RealtimeNext
  <2>8. ASSUME NEW r \in Remotes, RemoteStep(r)
        PROVE  cpc[c] = "join"
    BY <2>5, <2>8 DEF RemoteStep, CreateGate, CreateWall, Get, UpdateWall, UpdateRefused,
       UpdateGate, Command, realtimeVars, topicVars, wiringVars
  <2>9. CASE \/ \E n \in DOMAIN Included : PlanChanged(n)
             \/ \E s \in {"ended", "revoked"} : EndWall(s)
             \/ Expire
    BY <2>5, <2>9 DEF PlanChanged, EndWall, Expire, realtimeVars, topicVars, wiringVars
  <2>. QED  BY <1>1, <2>2, <2>6, <2>7, <2>8, <2>9 DEF Next
<1>2. IInv /\ [Next]_vars =>
         [\A c \in Conns : Silent(c)' /\ ~Silent(c) => cpc[c] = "join"]_realtimeVars
  BY <1>1
<1>. QED  BY <1>2, Inductive, PTL DEF SilentOnJoinOnly, Spec

\* An update that names its revision changes what its remote had on screen
\* (livewall.go, UpdatePresentation).
THEOREM UpdatesAreInformed == Spec => NoLostUpdate
<1>1. ASSUME IInv, [Next]_vars, NEW r \in Remotes, rpc[r] = "update", rpc'[r] = "idle",
             wall' # wall, expect[r] # Anything
      PROVE  wall = saw[r]
  <2>. USE DEF IInv, Types
  <2>1. UpdateWall(r)
    <3>1. ~UNCHANGED wallVars
      BY <1>1 DEF wallVars
    <3>2. ~UNCHANGED vars
      BY <3>1 DEF vars
    <3>3. ~UNCHANGED rpc
      BY <1>1
    <3>4. PICK q \in Remotes : RemoteStep(q)
      BY <1>1, <3>1, <3>2, <3>3 DEF Next, PlanChanged, EndWall, Expire, WallConnect
    <3>5. UpdateWall(q) \/ CreateWall(q)
      BY <1>1, <3>3, <3>4 DEF RemoteStep, CreateGate, Get, UpdateRefused, UpdateGate, Command
    <3>6. q = r
      BY <1>1, <3>5 DEF UpdateWall, CreateWall, Idle, WallTypes
    <3>. QED  BY <1>1, <3>5, <3>6 DEF CreateWall
  <2>2. wall.status = "live" /\ expect[r] = wall.revision
    BY <1>1, <2>1 DEF UpdateWall, Live
  <2>. QED  BY <1>1, <2>2 DEF OnScreen
<1>2. IInv /\ [Next]_vars =>
         [\A r \in Remotes :
            rpc[r] = "update" /\ rpc'[r] = "idle" /\ wall' # wall /\ expect[r] # Anything
              => wall = saw[r]]_vars
  BY <1>1
<1>. QED  BY <1>2, Inductive, PTL DEF NoLostUpdate, Spec
=============================================================================
