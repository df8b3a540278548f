------------------------------ MODULE Events ------------------------------
(***************************************************************************)
(* A host's events and their guests: creation under the trial limits,      *)
(* retried creates, closing and deletion, and guest sessions that compete  *)
(* for the seats of a plan which may be replaced meanwhile.                *)
(*                                                                         *)
(*   internal/event/service.go, repository.go, handler.go                  *)
(*   internal/guest/service.go, repository.go                              *)
(*                                                                         *)
(* One host.  Each statement or transaction is a step; requests remember   *)
(* what they read in earlier ones.  Plans are ranks: EventPlans models how *)
(* they are granted, here they only change under the guests' feet.         *)
(***************************************************************************)
EXTENDS Integers, FiniteSets, Sequences

CONSTANTS
    EventIds,      \* rows the host's events may take
    Requests,      \* client request ids
    Creates,       \* create requests in flight
    Scans,         \* guests opening a session
    MaxTrials,     \* TRIAL_EVENTS_PER_WINDOW: trials started per window
    MaxActive,     \* active trials of a host
    Seats,         \* max_guests by rank, 0 without a limit
    MaxChanges,    \* bound: changes by the host, an operator or the clock
    MaxSessions,   \* bound: sessions of one event
    NoRequest, NoEvent

ASSUME EventsAssumption ==
    /\ MaxTrials \in Nat \ {0} /\ MaxActive \in Nat \ {0}
    /\ Seats \in Seq(Nat) /\ Len(Seats) > 0
    /\ MaxChanges \in Nat /\ MaxSessions \in Nat
    /\ NoRequest \notin Requests /\ NoEvent \notin EventIds
    /\ IsFiniteSet(Creates) /\ Creates # {}

Ranks == 1..Len(Seats)     \* the first is the free plan

VARIABLES
    status,     \* events.status; "none" without a row
    request,    \* client_request_id
    trial,      \* of trial_started_at and trial_ended_at
    recent,     \* events whose trial started within the window
    held,       \* active grant last, before it those it superseded
    granted,    \* grants made for the event
    sessions,   \* guest_sessions of the event
    cpc, creq,           \* a create request: next step, its id
    answers,             \* events answered, with the id they were asked by
    spc, sevent, sgrant, \* a guest: next step, event, grant seen
    changes

eventVars == <<status, request, trial, recent>>
grantVars == <<held, granted>>
createVars == <<cpc, creq, answers>>
scanVars == <<spc, sevent, sgrant>>
vars == <<eventVars, grantVars, sessions, createVars, scanVars, changes>>

ActiveGrant(e) == held[e][Len(held[e])]
ActiveTrials == {e \in EventIds : status[e] = "active" /\ trial[e] = "running"}

-----------------------------------------------------------------------------
(* Create *)

CreateAt(c, label) ==
    /\ cpc' = [cpc EXCEPT ![c] = label]
    /\ creq' = IF label = "idle" THEN [creq EXCEPT ![c] = NoRequest] ELSE creq

\* The browser submits, again with the same id when it saw no answer.
Create(c, r) ==
    /\ cpc[c] = "idle"
    /\ cpc' = [cpc EXCEPT ![c] = "window"]
    /\ creq' = [creq EXCEPT ![c] = r]
    /\ UNCHANGED <<eventVars, grantVars, sessions, answers, scanVars>>

\* Variant: the limit itself is still let through.
CountTrialsSinceStrict(c) ==
    /\ cpc[c] = "window"
    /\ CreateAt(c, IF Cardinality(recent) > MaxTrials THEN "idle" ELSE "trials")
    /\ UNCHANGED <<eventVars, grantVars, sessions, answers, scanVars>>

\* Deleted events count.
CountTrialsSince(c) ==
    /\ cpc[c] = "window"
    /\ CreateAt(c, IF Cardinality(recent) >= MaxTrials THEN "idle" ELSE "trials")
    /\ UNCHANGED <<eventVars, grantVars, sessions, answers, scanVars>>

CountActiveTrials(c) ==
    /\ cpc[c] = "trials"
    /\ CreateAt(c, IF Cardinality(ActiveTrials) >= MaxActive THEN "idle" ELSE "insert")
    /\ UNCHANGED <<eventVars, grantVars, sessions, answers, scanVars>>

RequestTaken(r) == r # NoRequest /\ \E e \in EventIds : status[e] # "none" /\ request[e] = r

\* Variant: the trial index is missing.
ConflictsRequest(r) == RequestTaken(r)

\* The unique indexes on (host, request id) and on the host's active trial.
Conflicts(r) == RequestTaken(r) \/ ActiveTrials # {}

\* One transaction: the event row and its Free grant (Provision).
InsertEvent(c, e) ==
    /\ cpc[c] = "insert"
    /\ ~Conflicts(creq[c])
    /\ status[e] = "none"
    /\ status' = [status EXCEPT ![e] = "active"]
    /\ request' = [request EXCEPT ![e] = creq[c]]
    /\ trial' = [trial EXCEPT ![e] = "running"]
    /\ recent' = recent \cup {e}
    /\ held' = [held EXCEPT ![e] = <<[no |-> 1, rank |-> 1]>>]
    /\ granted' = [granted EXCEPT ![e] = 1]
    /\ CreateAt(c, "idle")
    /\ answers' = IF creq[c] = NoRequest THEN answers ELSE answers \cup {<<creq[c], e>>}
    /\ UNCHANGED <<sessions, scanVars>>

\* A conflict is taken for a repeated request when there is an id.
InsertRefused(c) ==
    /\ cpc[c] = "insert"
    /\ Conflicts(creq[c])
    /\ CreateAt(c, IF creq[c] = NoRequest THEN "idle" ELSE "lookup")
    /\ UNCHANGED <<eventVars, grantVars, sessions, answers, scanVars>>

\* Variant: the host's running trial is answered.
GetActiveTrial(c) ==
    /\ cpc[c] = "lookup"
    /\ \/ \E e \in ActiveTrials : answers' = answers \cup {<<creq[c], e>>}
       \/ ActiveTrials = {} /\ UNCHANGED answers
    /\ CreateAt(c, "idle")
    /\ UNCHANGED <<eventVars, grantVars, sessions, scanVars>>

\* Any status; without such an event the conflict was about the trial and the
\* request fails.
GetByClientRequest(c) ==
    /\ cpc[c] = "lookup"
    /\ \/ \E e \in EventIds :
            /\ status[e] # "none" /\ request[e] = creq[c]
            /\ answers' = answers \cup {<<creq[c], e>>}
       \/ ~RequestTaken(creq[c]) /\ UNCHANGED answers
    /\ CreateAt(c, "idle")
    /\ UNCHANGED <<eventVars, grantVars, sessions, scanVars>>

\* A statement failed, the transaction was rolled back, or the process stopped.
AbortCreate(c) ==
    /\ cpc[c] # "idle"
    /\ CreateAt(c, "idle")
    /\ UNCHANGED <<eventVars, grantVars, sessions, answers, scanVars>>

-----------------------------------------------------------------------------
(* The host, plans and time *)

CloseOwned(e) ==
    /\ status[e] = "active"
    /\ status' = [status EXCEPT ![e] = "closed"]
    /\ UNCHANGED <<request, trial, recent, grantVars, sessions, createVars, scanVars>>

DeleteOwned(e) ==
    /\ status[e] \in {"active", "closed"}
    /\ status' = [status EXCEPT ![e] = "deleted"]
    /\ UNCHANGED <<request, trial, recent, grantVars, sessions, createVars, scanVars>>

\* A higher plan supersedes the active grant; a purchase ends the trial.
ActivateGrant(e, rank, paid) ==
    /\ status[e] # "none"
    /\ paid => status[e] # "deleted"
    /\ rank > ActiveGrant(e).rank
    /\ granted' = [granted EXCEPT ![e] = @ + 1]
    /\ held' = [held EXCEPT ![e] = Append(@, [no |-> granted[e] + 1, rank |-> rank])]
    /\ trial' = IF paid THEN [trial EXCEPT ![e] = "ended"] ELSE trial
    /\ UNCHANGED <<status, request, recent, sessions, createVars, scanVars>>

\* The grant it superseded is active again, its row the same as before.
RevokeGrant(e) ==
    /\ Len(held[e]) > 1
    /\ held' = [held EXCEPT ![e] = SubSeq(@, 1, Len(@) - 1)]
    /\ UNCHANGED <<eventVars, granted, sessions, createVars, scanVars>>

\* The window passes over an old trial.
LeaveWindow(e) ==
    /\ e \in recent
    /\ recent' = recent \ {e}
    /\ UNCHANGED <<status, request, trial, grantVars, sessions, createVars, scanVars>>

-----------------------------------------------------------------------------
(* A guest opens a session *)

EndScan(s) ==
    /\ spc' = [spc EXCEPT ![s] = "idle"]
    /\ sevent' = [sevent EXCEPT ![s] = NoEvent]
    /\ sgrant' = [sgrant EXCEPT ![s] = 0]

\* GetPublic, and the snapshot the locking SELECT starts from.
FindSeat(s, e) ==
    /\ spc[s] = "idle"
    /\ status[e] = "active"
    /\ spc' = [spc EXCEPT ![s] = "lock"]
    /\ sevent' = [sevent EXCEPT ![s] = e]
    /\ sgrant' = [sgrant EXCEPT ![s] = ActiveGrant(e).no]
    /\ UNCHANGED <<eventVars, grantVars, sessions, createVars>>

SeatFree(e) ==
    LET seats == Seats[ActiveGrant(e).rank]
    IN  seats = 0 \/ sessions[e] < seats

\* Variant: the rows are not looked at again once they are locked.
StillJoinedUnchecked(s) == held[sevent[s]] # << >>

\* Both locked rows still satisfy the condition they were selected by.
StillJoined(s) ==
    /\ status[sevent[s]] = "active"
    /\ ActiveGrant(sevent[s]).no = sgrant[s]

\* Under the locks on the event and its grant: count and insert.
TakeSeat(s) ==
    /\ spc[s] = "lock"
    /\ StillJoined(s) /\ SeatFree(sevent[s])
    /\ sessions[sevent[s]] < MaxSessions
    /\ sessions' = [sessions EXCEPT ![sevent[s]] = @ + 1]
    /\ EndScan(s)
    /\ UNCHANGED <<eventVars, grantVars, createVars>>

\* "Event not available", or the guest limit is reached; or a failure.
NoSeat(s) ==
    /\ spc[s] = "lock"
    /\ EndScan(s)
    /\ UNCHANGED <<eventVars, grantVars, sessions, createVars>>

-----------------------------------------------------------------------------
Init ==
    /\ status = [e \in EventIds |-> "none"]
    /\ request = [e \in EventIds |-> NoRequest]
    /\ trial = [e \in EventIds |-> "none"]
    /\ recent = {}
    /\ held = [e \in EventIds |-> << >>]
    /\ granted = [e \in EventIds |-> 0]
    /\ sessions = [e \in EventIds |-> 0]
    /\ cpc = [c \in Creates |-> "idle"]
    /\ creq = [c \in Creates |-> NoRequest]
    /\ answers = {}
    /\ spc = [s \in Scans |-> "idle"]
    /\ sevent = [s \in Scans |-> NoEvent]
    /\ sgrant = [s \in Scans |-> 0]
    /\ changes = 0

CreateStep(c) ==
    \/ \E r \in Requests \cup {NoRequest} : Create(c, r)
    \/ CountTrialsSince(c) \/ CountActiveTrials(c)
    \/ \E e \in EventIds : InsertEvent(c, e)
    \/ InsertRefused(c) \/ GetByClientRequest(c) \/ AbortCreate(c)

EventStep(e) ==
    /\ \/ CloseOwned(e) \/ DeleteOwned(e) \/ RevokeGrant(e) \/ LeaveWindow(e)
       \/ \E rank \in Ranks, paid \in BOOLEAN : ActivateGrant(e, rank, paid)
    /\ changes < MaxChanges
    /\ changes' = changes + 1

ScanStep(s) == (\E e \in EventIds : FindSeat(s, e)) \/ TakeSeat(s) \/ NoSeat(s)

Next ==
    \/ \E c \in Creates : CreateStep(c) /\ UNCHANGED changes
    \/ \E e \in EventIds : EventStep(e)
    \/ \E s \in Scans : ScanStep(s) /\ UNCHANGED changes

Spec == Init /\ [][Next]_vars

-----------------------------------------------------------------------------
(* Properties *)

Grants == [no : Nat, rank : Ranks]

\* Columns and requests' locals keep their types, and every event has a grant
\* from the transaction that inserted it (provision.go:18-19).
TypeOK ==
    /\ status \in [EventIds -> {"none", "active", "closed", "deleted"}]
    /\ request \in [EventIds -> Requests \cup {NoRequest}]
    /\ trial \in [EventIds -> {"none", "running", "ended"}]
    /\ recent \subseteq {e \in EventIds : trial[e] # "none"}
    /\ held \in [EventIds -> Seq(Grants)]
    /\ \A e \in EventIds : held[e] = << >> <=> status[e] = "none"
    /\ granted \in [EventIds -> Nat] /\ sessions \in [EventIds -> Nat]
    /\ cpc \in [Creates -> {"idle", "window", "trials", "insert", "lookup"}]
    /\ creq \in [Creates -> Requests \cup {NoRequest}]
    /\ \A c \in Creates : cpc[c] = "lookup" => creq[c] \in Requests
    /\ answers \subseteq Requests \X EventIds
    /\ spc \in [Scans -> {"idle", "lock"}]
    /\ sevent \in [Scans -> EventIds \cup {NoEvent}]
    /\ sgrant \in [Scans -> Nat]
    /\ changes \in 0..MaxChanges
    /\ \A s \in Scans : spc[s] = "lock" => sevent[s] \in EventIds /\ status[sevent[s]] # "none"

\* "The trial partial unique index is the final concurrency guard after the
\* service-level pre-check" (repository.go:72-73): creates that passed the
\* pre-check together start one trial.
OneActiveTrial == \A d, e \in ActiveTrials : d = e

\* However a submit is repeated, one event comes of it (the unique index on host
\* and request id).
OneEventPerRequest ==
    \A d, e \in EventIds :
        status[d] # "none" /\ request[d] = request[e] /\ request[d] # NoRequest => d = e

\* A submit that is repeated makes one event, and every event that is answered to
\* it, first or repeated, is that one: not the event of another submit that won
\* the race for the trial.  It does not say that a repetition is answered.  "A
\* retried submit ... answers with the event the first attempt created instead of
\* failing" (service.go:181-182), but one that starts once that event counts
\* against the limits is refused there (service.go:141-160), before its id is
\* looked up.
RetriesAgree ==
    /\ OneEventPerRequest
    /\ \A p, q \in answers : p[1] = q[1] => p = q

\* The trials of a window (service.go:143-150) are counted before the insert,
\* so creates that overlap may overrun the limit, by no more than the others
\* in flight.
TrialWindowHeld == Cardinality(recent) < MaxTrials + Cardinality(Creates)

\* "Lock the event so simultaneous scans cannot both pass the same final seat"
\* (guest/repository.go:30-31): a session is added only to an active event and
\* within the seats of the plan it has at that moment, whatever the scan read
\* before it got the lock.
SeatsHeld ==
    [][\A e \in EventIds : sessions'[e] # sessions[e] =>
          /\ status[e] = "active"
          /\ LET seats == Seats[ActiveGrant(e).rank]
             IN  seats = 0 \/ sessions'[e] <= seats]_vars
=============================================================================
