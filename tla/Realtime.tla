----------------------------- MODULE Realtime -----------------------------
(***************************************************************************)
(* Change notifications of one event: a change is turned into messages for *)
(* hosts and for the public, published by a goroutine of its own, carried  *)
(* by Redis and delivered by the hub of one API process to the streams it  *)
(* holds.                                                                  *)
(*                                                                         *)
(*   internal/realtime/hub.go, notifier.go, realtime.go                    *)
(*   internal/httpapi/stream.go, internal/platform/redis/pubsub.go         *)
(*                                                                         *)
(* The hub and each of its topics have a mutex: what is done under one     *)
(* lock is one step.  A topic is one incarnation of the event's entry in   *)
(* the hub's map, with one goroutine (topic.run).                          *)
(***************************************************************************)
EXTENDS Integers, Sequences, FiniteSets, SequencesExt

CONSTANTS
    Conns,       \* stream requests
    Role,        \* "host", "guest" or "projector"
    MaxTopics,   \* bound: topics made for the event
    Buffer,      \* REALTIME_BUFFER: messages a stream may fall behind
    MaxPerEvent, \* streams of one event an instance accepts
    Casts,       \* bound: streams and remotes that take part, changes announced
    NoTopic

ASSUME RealtimeAssumption ==
    /\ Role \in [Conns -> {"host", "guest", "projector"}]
    /\ MaxTopics \in Nat /\ NoTopic \notin 1..MaxTopics
    /\ Buffer \in Nat \ {0} /\ MaxPerEvent \in Nat \ {0}
    /\ \A cast \in Casts : cast.changes \in Nat

Topics == 1..MaxTopics
Audiences == {"host", "public"}
AudienceOf(c) == IF Role[c] = "host" THEN "host" ELSE "public"

VARIABLES
    media,      \* status of a photo of the event
    gallery,    \* gallery_enabled
    pending,    \* per change, its messages not yet published
    budget,     \* changes left to announce
    hub,        \* "open", "closing" (map emptied) or "closed"
    current,    \* topic in the hub's map, while closing the one taken from it
    run,        \* goroutine of each topic
    cancelled,  \* the topic's context is done
    subs,       \* subscribers of each topic
    inbox,      \* messages Redis holds for the topic
    sent,       \* messages the topic sent, by audience (history)
    cpc,        \* a stream request: next step
    topic,      \* topic it found
    queue, open, dropped,  \* its channel
    got,        \* written to its browser, or sent before it joined (history)
    panicked    \* a send on a closed channel ended the process

eventVars == <<media, gallery, pending, budget>>
topicVars == <<hub, current, run, cancelled, subs, inbox, sent>>
chanVars == <<queue, open, dropped, got>>
connVars == <<cpc, topic, chanVars>>
realtimeVars == <<eventVars, topicVars, connVars, panicked>>

-----------------------------------------------------------------------------
(* Changes and their messages *)

Message(kind, to) == [kind |-> kind, to |-> to]

\* A hide is a deletion to the public.
MediaMessages(kind, status) ==
    IF kind # "moderated" THEN <<Message(kind, Audiences)>>
    ELSE <<Message("updated", {"host"}),
           Message(IF status = "hidden" THEN "deleted" ELSE "updated", {"public"})>>

\* dispatch: a goroutine publishes the messages of the change.
Announce(messages) ==
    /\ budget > 0 /\ budget' = budget - 1
    /\ pending' = Append(pending, messages)

ChangeMedia(kind, status) ==
    /\ media' = status
    /\ Announce(MediaMessages(kind, status))
    /\ UNCHANGED <<gallery, topicVars, connVars, panicked>>

MediaCreated == media = "none" /\ ChangeMedia("created", "ready")

\* The job announces the thumbnail to both audiences whatever the photo is by
\* then: hidden, featured, or deleted, which it takes for success.
MediaThumbnail == media # "none" /\ ChangeMedia("thumbnail", media)

MediaModerated(s) == media \notin {"none", "gone", s} /\ ChangeMedia("moderated", s)
MediaDeleted == media \notin {"none", "gone"} /\ ChangeMedia("deleted", "gone")

EventChanged ==
    /\ gallery' = ~gallery
    /\ Announce(<<Message(IF gallery' THEN "gallery_on" ELSE "gallery_off", Audiences)>>)
    /\ UNCHANGED <<media, topicVars, connVars, panicked>>

\* Redis hands it to the topics that are subscribed; a publish may fail.
Publish(i) ==
    /\ pending[i] # <<>>
    /\ pending' = [pending EXCEPT ![i] = Tail(@)]
    /\ \/ inbox' = [t \in Topics |-> IF run[t] = "live" /\ ~cancelled[t]
                                       THEN Append(inbox[t], Head(pending[i])) ELSE inbox[t]]
       \/ inbox' = inbox
    /\ UNCHANGED <<media, gallery, budget, hub, current, run, cancelled, subs, sent,
                   connVars, panicked>>

-----------------------------------------------------------------------------
(* A stream opens *)

Goto(c, label) == cpc' = [cpc EXCEPT ![c] = label]

Mapped == IF hub = "open" THEN current ELSE NoTopic
Subscribers == IF Mapped = NoTopic THEN 0 ELSE Cardinality(subs[Mapped])

\* StreamHandler.Host, Public and allowConnection: what was read may change
\* before the subscription exists.
Connect(c) ==
    /\ cpc[c] = "idle" /\ Role[c] # "projector"
    /\ Role[c] = "guest" => gallery
    /\ Subscribers < MaxPerEvent
    /\ Goto(c, "subscribe")
    /\ UNCHANGED <<eventVars, topicVars, topic, chanVars, panicked>>

\* Hub.Subscribe up to the unlock: the topic is found or made, not yet joined.
SubscribeFind(c) ==
    /\ cpc[c] = "subscribe" /\ hub = "open"
    /\ open' = [open EXCEPT ![c] = TRUE]
    /\ IF Mapped # NoTopic
         THEN /\ topic' = [topic EXCEPT ![c] = Mapped]
              /\ Goto(c, "join")
              /\ UNCHANGED <<current, run>>
         ELSE \E t \in Topics :
                /\ run[t] = "unused" /\ \A u \in 1..t-1 : run[u] # "unused"
                /\ current' = t
                /\ run' = [run EXCEPT ![t] = "made"]
                /\ topic' = [topic EXCEPT ![c] = t]
                /\ Goto(c, "found")
    /\ UNCHANGED <<eventVars, hub, cancelled, subs, inbox, sent,
                   queue, dropped, got, panicked>>

SubscribeRefused(c) ==
    /\ cpc[c] = "subscribe" /\ hub # "open"
    /\ Goto(c, "gone")
    /\ UNCHANGED <<eventVars, topicVars, topic, chanVars, panicked>>

\* t.add, and the goroutine of a topic the request made itself.
Join(c) ==
    /\ cpc[c] \in {"join", "found"}
    /\ subs' = [subs EXCEPT ![topic[c]] = @ \cup {c}]
    /\ got' = [got EXCEPT ![c] = sent[topic[c]][AudienceOf(c)]]
    /\ run' = IF cpc[c] = "found" THEN [run EXCEPT ![topic[c]] = "starting"] ELSE run
    /\ Goto(c, "streaming")
    /\ UNCHANGED <<eventVars, hub, current, cancelled, inbox, sent,
                   topic, queue, open, dropped, panicked>>

-----------------------------------------------------------------------------
(* topic.run *)

BusSubscribe(t) ==
    /\ run[t] = "starting" /\ ~cancelled[t]
    /\ run' = [run EXCEPT ![t] = "live"]
    /\ UNCHANGED <<eventVars, hub, current, cancelled, subs, inbox, sent,
                   connVars, panicked>>

\* Those a message reaches, and those of them whose channel is full.
Reached(t, m) == {c \in subs[t] : AudienceOf(c) \in m.to}
Overflowed(t, m) == {c \in Reached(t, m) : Len(queue[c]) = Buffer}

Take(t) ==
    /\ inbox' = [inbox EXCEPT ![t] = Tail(@)]
    /\ sent' = [sent EXCEPT ![t] = [a \in Audiences |->
                   IF a \in Head(inbox[t]).to THEN @[a] + 1 ELSE @[a]]]
    /\ UNCHANGED <<eventVars, hub, current, run, cpc, topic, got>>

\* Variant: a stream that cannot keep up just misses the message.
DeliverSkipping(t) ==
    /\ run[t] = "live" /\ inbox[t] # <<>>
    /\ LET m == Head(inbox[t])
           over == Overflowed(t, m)
       IN /\ queue' = [c \in Conns |-> IF c \in Reached(t, m) \ over
                                         THEN Append(queue[c], m) ELSE queue[c]]
          /\ dropped' = [c \in Conns |-> dropped[c] \/ c \in over]
    /\ Take(t)
    /\ UNCHANGED <<subs, open, cancelled, panicked>>

\* Who cannot keep up is removed and its channel closed.  A send to a channel
\* already closed panics.  The inbox may still be read once the context is done.
Deliver(t) ==
    /\ run[t] = "live" /\ inbox[t] # <<>>
    /\ LET m == Head(inbox[t])
           over == Overflowed(t, m)
       IN /\ queue' = [c \in Conns |-> IF c \in Reached(t, m) \ over
                                         THEN Append(queue[c], m) ELSE queue[c]]
          /\ open' = [c \in Conns |-> open[c] /\ c \notin over]
          /\ dropped' = [c \in Conns |-> dropped[c] \/ c \in over]
          /\ subs' = [subs EXCEPT ![t] = @ \ over]
          /\ cancelled' = [cancelled EXCEPT ![t] = @ \/ subs'[t] = {}]
          /\ panicked' = (\E c \in Reached(t, m) : ~open[c])
    /\ Take(t)

\* shutdown begins: Redis refused, or the context is done; the topic leaves
\* the map.
Stop(t) ==
    /\ run[t] = "starting" \/ (run[t] = "live" /\ cancelled[t])
    /\ run' = [run EXCEPT ![t] = "stopping"]
    /\ cancelled' = [cancelled EXCEPT ![t] = TRUE]
    /\ current' = IF Mapped = t THEN NoTopic ELSE current
    /\ UNCHANGED <<eventVars, hub, subs, inbox, sent, connVars, panicked>>

\* Variant: the subscribers are forgotten with their channels open.
ReleaseForgotten(t) ==
    /\ run[t] = "stopping"
    /\ run' = [run EXCEPT ![t] = "ended"]
    /\ subs' = [subs EXCEPT ![t] = {}]
    /\ UNCHANGED <<eventVars, hub, current, cancelled, inbox, sent, connVars, panicked>>

\* ... and ends: the subscribers found are released.
Release(t) ==
    /\ run[t] = "stopping"
    /\ run' = [run EXCEPT ![t] = "ended"]
    /\ subs' = [subs EXCEPT ![t] = {}]
    /\ open' = [c \in Conns |-> open[c] /\ c \notin subs[t]]
    /\ inbox' = [inbox EXCEPT ![t] = <<>>]
    /\ UNCHANGED <<eventVars, hub, current, cancelled, sent,
                   cpc, topic, queue, dropped, got, panicked>>

-----------------------------------------------------------------------------
(* The pump of a stream *)

\* A message is written; one that says the gallery is off ends a guest's stream.
Pump(c) ==
    /\ cpc[c] = "streaming" /\ queue[c] # <<>>
    /\ queue' = [queue EXCEPT ![c] = Tail(@)]
    /\ got' = [got EXCEPT ![c] = @ + 1]
    /\ cpc' = IF Role[c] = "guest" /\ Head(queue[c]).kind = "gallery_off"
                THEN [cpc EXCEPT ![c] = "leaving"] ELSE cpc
    /\ UNCHANGED <<eventVars, topicVars, topic, open, dropped, panicked>>

\* The channel is closed and drained; one that was dropped is told to resync.
PumpClosed(c) ==
    /\ cpc[c] = "streaming" /\ queue[c] = <<>> /\ ~open[c]
    /\ Goto(c, "leaving")
    /\ UNCHANGED <<eventVars, topicVars, topic, chanVars, panicked>>

\* The browser leaves, or the stream reached its age.
Leave(c) ==
    /\ cpc[c] = "streaming"
    /\ Goto(c, "leaving")
    /\ UNCHANGED <<eventVars, topicVars, topic, chanVars, panicked>>

\* Subscription.Close looks up the topic the map holds now, if any ...
CloseFind(c) ==
    /\ cpc[c] = "leaving"
    /\ topic' = [topic EXCEPT ![c] = Mapped]
    /\ Goto(c, "close")
    /\ UNCHANGED <<eventVars, topicVars, chanVars, panicked>>

\* Variants: the channel is closed while subscribed; the last to leave does
\* not end the topic.
CloseRemoveLate(c) ==
    /\ cpc[c] = "close"
    /\ open' = [open EXCEPT ![c] = FALSE]
    /\ Goto(c, "gone")
    /\ UNCHANGED <<eventVars, topicVars, topic, queue, dropped, got, panicked>>
CloseRemoveIdle(c) ==
    /\ cpc[c] = "close"
    /\ IF topic[c] = NoTopic THEN UNCHANGED subs
       ELSE subs' = [subs EXCEPT ![topic[c]] = @ \ {c}]
    /\ open' = [open EXCEPT ![c] = FALSE]
    /\ Goto(c, "gone")
    /\ UNCHANGED <<eventVars, hub, current, run, cancelled, inbox, sent,
                   topic, queue, dropped, got, panicked>>

\* ... removes the stream from it, which ends an empty one, and closes the channel.
CloseRemove(c) ==
    /\ cpc[c] = "close"
    /\ IF topic[c] = NoTopic THEN UNCHANGED <<subs, cancelled>>
       ELSE /\ subs' = [subs EXCEPT ![topic[c]] = @ \ {c}]
            /\ cancelled' = [cancelled EXCEPT ![topic[c]] = @ \/ subs'[topic[c]] = {}]
    /\ open' = [open EXCEPT ![c] = FALSE]
    /\ Goto(c, "gone")
    /\ UNCHANGED <<eventVars, hub, current, run, inbox, sent,
                   topic, queue, dropped, got, panicked>>

-----------------------------------------------------------------------------
(* Hub.Close at shutdown *)

HubClose ==
    /\ hub = "open"
    /\ hub' = "closing"
    /\ UNCHANGED <<eventVars, current, run, cancelled, subs, inbox, sent,
                   connVars, panicked>>

\* Variant: the streams are left to themselves.
HubShutdownForgotten ==
    /\ hub = "closing"
    /\ hub' = "closed"
    /\ current' = NoTopic
    /\ UNCHANGED <<eventVars, run, cancelled, subs, inbox, sent, connVars, panicked>>

\* Every context is cancelled and the topic taken from the map is shut down.
HubShutdown ==
    /\ hub = "closing"
    /\ hub' = "closed"
    /\ current' = NoTopic
    /\ cancelled' = [t \in Topics |-> TRUE]
    /\ IF current = NoTopic THEN UNCHANGED <<subs, open>>
       ELSE /\ open' = [c \in Conns |-> open[c] /\ c \notin subs[current]]
            /\ subs' = [subs EXCEPT ![current] = {}]
    /\ UNCHANGED <<eventVars, run, inbox, sent,
                   cpc, topic, queue, dropped, got, panicked>>

-----------------------------------------------------------------------------

RealtimeInit(cast) ==
    /\ media = "none" /\ gallery = TRUE /\ pending = <<>> /\ budget = cast.changes
    /\ hub = "open" /\ current = NoTopic
    /\ run = [t \in Topics |-> "unused"]
    /\ cancelled = [t \in Topics |-> FALSE]
    /\ subs = [t \in Topics |-> {}]
    /\ inbox = [t \in Topics |-> <<>>]
    /\ sent = [t \in Topics |-> [a \in Audiences |-> 0]]
    /\ cpc = [c \in Conns |-> IF c \in cast.who THEN "idle" ELSE "gone"]
    /\ topic = [c \in Conns |-> NoTopic]
    /\ queue = [c \in Conns |-> <<>>]
    /\ open = [c \in Conns |-> FALSE]
    /\ dropped = [c \in Conns |-> FALSE]
    /\ got = [c \in Conns |-> 0]
    /\ panicked = FALSE

ConnStep(c) ==
    \/ Connect(c) \/ SubscribeFind(c) \/ SubscribeRefused(c) \/ Join(c)
    \/ Pump(c) \/ PumpClosed(c) \/ Leave(c) \/ CloseFind(c) \/ CloseRemove(c)

TopicStep(t) == BusSubscribe(t) \/ Deliver(t) \/ Stop(t) \/ Release(t)

RealtimeNext ==
    \/ MediaCreated \/ MediaThumbnail \/ MediaDeleted \/ EventChanged
    \/ \E s \in {"ready", "featured", "hidden"} : MediaModerated(s)
    \/ \E i \in 1..Len(pending) : Publish(i)
    \/ \E c \in Conns : ConnStep(c)
    \/ \E t \in Topics : TopicStep(t)
    \/ HubClose \/ HubShutdown

\* Goroutines that can run do; a select that may return does in the end.
RealtimeFairness ==
    /\ \A t \in Topics : WF_realtimeVars(Stop(t)) /\ WF_realtimeVars(Release(t))
    /\ \A c \in Conns : WF_realtimeVars(Join(c))
    /\ WF_realtimeVars(HubShutdown)

-----------------------------------------------------------------------------
(* Properties *)

\* Outside shutdown no message is sent on a channel that is closed: a stream
\* leaves its topic before its channel is closed (hub.go, Close, shutdown,
\* deliver).  Within Hub.Close the map is empty before the topics are, and a
\* stream that ends then closes a channel its topic may still send on.
SendsAreSafe == panicked => hub # "open"

\* A stream that is open has been written, or holds in its channel, all that
\* its topic delivered to its audience since it joined; one that missed a
\* message is closed and told to resync (hub.go, deliver).
GapsAreTold ==
    \A c \in Conns :
        cpc[c] = "streaming" /\ open[c] =>
            got[c] + Len(queue[c]) = sent[topic[c]][AudienceOf(c)]

\* An open stream no goroutine feeds or will end.
Silent(c) == cpc[c] = "streaming" /\ open[c] /\ run[topic[c]] = "ended"

\* A stream goes silent in one way only: it joins a topic that was shut down
\* since Subscribe found it in the map (hub.go, Subscribe, shutdown).
SilentOnJoinOnly ==
    [][\A c \in Conns : Silent(c)' /\ ~Silent(c) => cpc[c] = "join"]_realtimeVars

\* A topic nobody watches is given up, and its Redis subscription with it:
\* whoever makes it empty cancels it (hub.go, deliver, remove).
IdleCancelled ==
    \A t \in Topics : run[t] \in {"starting", "live"} /\ subs[t] = {} => cancelled[t]

\* Streams that are fed when the hub closes, and those that join while it does,
\* are let go, unless a send panics in the window of SendsAreSafe.  "Close releases
\* every connection" and Shutdown "would otherwise wait on open streams"
\* (hub.go:124-125): not every one, since a stream that has fallen silent, or that
\* joins a topic which has ended by then, is never released.
ShutdownFrees ==
    hub # "open" ~> panicked \/ \A c \in Conns : cpc[c] = "streaming" /\ open[c] => Silent(c)
=============================================================================
