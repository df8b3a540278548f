--------------------------- MODULE EventsProofs ---------------------------
(***************************************************************************)
(* Theorems about Events, for any number of events, requests, creates and  *)
(* guests: types, the unique indexes against races, what a retried create  *)
(* answers, how far the trial window can be overrun, and the seats.        *)
(***************************************************************************)
EXTENDS Events, FiniteSetTheorems, TLAPS

-----------------------------------------------------------------------------
(* Types *)

EventTypes ==
    /\ status \in [EventIds -> {"none", "active", "closed", "deleted"}]
    /\ request \in [EventIds -> Requests \cup {NoRequest}]
    /\ trial \in [EventIds -> {"none", "running", "ended"}]
    /\ recent \subseteq {e \in EventIds : trial[e] # "none"}
    /\ \A e \in EventIds : held[e] = << >> <=> status[e] = "none"
    /\ held \in [EventIds -> Seq(Grants)]
    /\ granted \in [EventIds -> Nat] /\ sessions \in [EventIds -> Nat]
    /\ changes \in 0..MaxChanges

CreateTypes ==
    /\ cpc \in [Creates -> {"idle", "window", "trials", "insert", "lookup"}]
    /\ creq \in [Creates -> Requests \cup {NoRequest}]
    /\ \A c \in Creates : cpc[c] = "lookup" => creq[c] \in Requests
    /\ answers \subseteq Requests \X EventIds

ScanTypes ==
    /\ spc \in [Scans -> {"idle", "lock"}]
    /\ sevent \in [Scans -> EventIds \cup {NoEvent}]
    /\ sgrant \in [Scans -> Nat]
    /\ \A s \in Scans : spc[s] = "lock" => sevent[s] \in EventIds /\ status[sevent[s]] # "none"

LEMMA TypeParts == TypeOK <=> EventTypes /\ CreateTypes /\ ScanTypes
BY DEF TypeOK, EventTypes, CreateTypes, ScanTypes

LEMMA TypePartsNext == TypeOK' <=> EventTypes' /\ CreateTypes' /\ ScanTypes'
BY DEF TypeOK, EventTypes, CreateTypes, ScanTypes

\* An event that exists has an active grant.
LEMMA HasGrant ==
    ASSUME TypeOK, NEW e \in EventIds, status[e] # "none"
    PROVE  ActiveGrant(e) \in Grants
<1>1. held[e] \in Seq(Grants) /\ held[e] # << >>
  BY DEF TypeOK
<1>2. Len(held[e]) \in 1..Len(held[e])
  BY <1>1
<1>. QED  BY <1>1, <1>2 DEF ActiveGrant

LEMMA TypeInsert ==
    ASSUME TypeOK, NEW c \in Creates, NEW e \in EventIds, InsertEvent(c, e),
           UNCHANGED changes
    PROVE  TypeOK'
<1>. USE TypeParts DEF InsertEvent, CreateAt
<1>1. <<[no |-> 1, rank |-> 1]>> \in Seq(Grants) /\ <<[no |-> 1, rank |-> 1]>> # << >>
  BY EventsAssumption DEF Grants, Ranks
<1>2. EventTypes'
  <2>1. /\ status' = [status EXCEPT ![e] = "active"] /\ status' \in [EventIds -> {"none", "active", "closed", "deleted"}]
        /\ trial' = [trial EXCEPT ![e] = "running"]
        /\ trial' \in [EventIds -> {"none", "running", "ended"}]
        /\ recent' \subseteq {d \in EventIds : trial'[d] # "none"}
    BY DEF EventTypes
  <2>2. /\ held' = [held EXCEPT ![e] = <<[no |-> 1, rank |-> 1]>>]
        /\ held' \in [EventIds -> Seq(Grants)]
        /\ granted' \in [EventIds -> Nat] /\ UNCHANGED <<sessions, changes>>
        /\ request' \in [EventIds -> Requests \cup {NoRequest}]
    BY <1>1 DEF EventTypes, CreateTypes
  <2>3. \A d \in EventIds : held'[d] = << >> <=> status'[d] = "none"
    BY <1>1, <2>1, <2>2 DEF EventTypes
  <2>. QED  BY <2>1, <2>2, <2>3 DEF EventTypes
<1>3. CreateTypes'
  BY DEF CreateTypes
<1>4. ScanTypes'
  BY DEF ScanTypes, EventTypes, scanVars
<1>. QED  BY <1>2, <1>3, <1>4, TypePartsNext

LEMMA TypeCreate ==
    ASSUME TypeOK, NEW c \in Creates, CreateStep(c), UNCHANGED changes
    PROVE  TypeOK'
<1>. USE TypeParts DEF CreateAt, eventVars, grantVars, scanVars
<1>1. ASSUME NEW e \in EventIds, InsertEvent(c, e)
      PROVE  TypeOK'
  BY <1>1, TypeInsert
<1>2. ASSUME NEW r \in Requests \cup {NoRequest}, Create(c, r)
      PROVE  TypeOK'
  <2>1. EventTypes' /\ ScanTypes'
    BY <1>2 DEF Create, EventTypes, ScanTypes
  <2>2. CreateTypes'
    BY <1>2 DEF Create, CreateTypes
  <2>. QED  BY <2>1, <2>2, TypePartsNext
<1>3. CASE GetByClientRequest(c)
  <2>1. EventTypes' /\ ScanTypes'
    BY <1>3 DEF GetByClientRequest, EventTypes, ScanTypes
  <2>2. CreateTypes'
    <3>1. cpc' = [cpc EXCEPT ![c] = "idle"] /\ creq' = [creq EXCEPT ![c] = NoRequest]
      BY <1>3 DEF GetByClientRequest
    <3>2. answers' \subseteq Requests \X EventIds
      BY <1>3 DEF GetByClientRequest, CreateTypes
    <3>. QED  BY <3>1, <3>2 DEF CreateTypes
  <2>. QED  BY <2>1, <2>2, TypePartsNext
<1>4. CASE \/ CountTrialsSince(c) \/ CountActiveTrials(c) \/ InsertRefused(c)
           \/ AbortCreate(c)
  <2>1. EventTypes' /\ ScanTypes'
    BY <1>4 DEF CountTrialsSince, CountActiveTrials, InsertRefused, AbortCreate,
                EventTypes, ScanTypes
  <2>2. CreateTypes'
    BY <1>4 DEF CountTrialsSince, CountActiveTrials, InsertRefused, AbortCreate, CreateTypes
  <2>. QED  BY <2>1, <2>2, TypePartsNext
<1>. QED  BY <1>1, <1>2, <1>3, <1>4 DEF CreateStep

LEMMA TypeEvent ==
    ASSUME TypeOK, NEW e \in EventIds, EventStep(e)
    PROVE  TypeOK'
<1>. USE TypeParts DEF createVars, scanVars, grantVars, eventVars
<1>1. changes' \in 0..MaxChanges
  BY EventsAssumption DEF EventStep, EventTypes
<1>2. CASE CloseOwned(e) \/ DeleteOwned(e)
  <2>1. /\ \E s \in {"closed", "deleted"} : status' = [status EXCEPT ![e] = s]
        /\ status[e] # "none"
        /\ UNCHANGED <<request, trial, recent, held, granted, sessions, cpc, creq, answers,
                       spc, sevent, sgrant>>
    BY <1>2 DEF CloseOwned, DeleteOwned
  <2>2. EventTypes'
    BY <1>1, <2>1 DEF EventTypes
  <2>3. CreateTypes' /\ ScanTypes'
    BY <2>1 DEF CreateTypes, ScanTypes, EventTypes
  <2>. QED  BY <2>2, <2>3, TypePartsNext
<1>3. CASE RevokeGrant(e)
  <2>1. /\ held' = [held EXCEPT ![e] = SubSeq(@, 1, Len(@) - 1)] /\ Len(held[e]) > 1
        /\ UNCHANGED <<status, request, trial, recent, granted, sessions, cpc, creq, answers,
                       spc, sevent, sgrant>>
    BY <1>3 DEF RevokeGrant
  <2>2. /\ held[e] \in Seq(Grants)
        /\ SubSeq(held[e], 1, Len(held[e]) - 1) \in Seq(Grants)
        /\ SubSeq(held[e], 1, Len(held[e]) - 1) # << >> /\ held[e] # << >>
    <3>1. held[e] \in Seq(Grants) /\ Len(held[e]) \in Nat /\ Len(held[e]) - 1 \in 1..Len(held[e])
      BY <2>1 DEF EventTypes
    <3>2. /\ SubSeq(held[e], 1, Len(held[e]) - 1) \in Seq(Grants)
          /\ Len(SubSeq(held[e], 1, Len(held[e]) - 1)) = Len(held[e]) - 1
      BY <3>1
    <3>3. Len(SubSeq(held[e], 1, Len(held[e]) - 1)) # 0 /\ Len(held[e]) # 0
      BY <2>1, <3>1, <3>2
    <3>4. \A s \in Seq(Grants) : Len(s) # 0 => s # << >>
      OBVIOUS
    <3>. QED  BY <3>1, <3>2, <3>3, <3>4
  <2>3. EventTypes'
    BY <1>1, <2>1, <2>2 DEF EventTypes
  <2>4. CreateTypes' /\ ScanTypes'
    BY <2>1 DEF CreateTypes, ScanTypes
  <2>. QED  BY <2>3, <2>4, TypePartsNext
<1>4. CASE LeaveWindow(e)
  <2>1. EventTypes'
    BY <1>1, <1>4 DEF LeaveWindow, EventTypes
  <2>2. CreateTypes' /\ ScanTypes'
    BY <1>4 DEF LeaveWindow, CreateTypes, ScanTypes
  <2>. QED  BY <2>1, <2>2, TypePartsNext
<1>5. ASSUME NEW rank \in Ranks, NEW paid \in BOOLEAN, ActivateGrant(e, rank, paid)
      PROVE  TypeOK'
  <2>1. /\ held' = [held EXCEPT ![e] = Append(@, [no |-> granted[e] + 1, rank |-> rank])]
        /\ granted' = [granted EXCEPT ![e] = @ + 1] /\ status[e] # "none"
        /\ UNCHANGED <<status, request, recent, sessions, cpc, creq, answers,
                       spc, sevent, sgrant>>
    BY <1>5 DEF ActivateGrant
  <2>2. /\ [no |-> granted[e] + 1, rank |-> rank] \in Grants
        /\ held[e] \in Seq(Grants)
    <3>1. granted[e] \in Nat /\ held[e] \in Seq(Grants)
      BY DEF EventTypes
    <3>. QED  BY <3>1 DEF Grants
  <2>3. /\ Append(held[e], [no |-> granted[e] + 1, rank |-> rank]) \in Seq(Grants)
        /\ Append(held[e], [no |-> granted[e] + 1, rank |-> rank]) # << >>
    BY <2>2
  <2>4. /\ held' \in [EventIds -> Seq(Grants)] /\ granted' \in [EventIds -> Nat]
        /\ \A d \in EventIds : held'[d] = << >> <=> status'[d] = "none"
    BY <2>1, <2>3 DEF EventTypes
  <2>5. /\ trial' \in [EventIds -> {"none", "running", "ended"}]
        /\ recent' \subseteq {d \in EventIds : trial'[d] # "none"}
    BY <1>5, <2>1 DEF ActivateGrant, EventTypes
  <2>6. EventTypes'
    BY <1>1, <2>1, <2>4, <2>5 DEF EventTypes
  <2>7. CreateTypes' /\ ScanTypes'
    BY <2>1 DEF CreateTypes, ScanTypes
  <2>. QED  BY <2>6, <2>7, TypePartsNext
<1>. QED  BY <1>2, <1>3, <1>4, <1>5 DEF EventStep

LEMMA TypeScan ==
    ASSUME TypeOK, NEW s \in Scans, ScanStep(s), UNCHANGED changes
    PROVE  TypeOK'
<1>. USE TypeParts DEF createVars, grantVars, eventVars, EndScan
<1>1. ASSUME NEW e \in EventIds, FindSeat(s, e)
      PROVE  TypeOK'
  <2>1. ActiveGrant(e).no \in Nat
    BY <1>1, HasGrant DEF FindSeat, Grants
  <2>2. EventTypes' /\ CreateTypes'
    BY <1>1 DEF FindSeat, EventTypes, CreateTypes
  <2>3. ScanTypes'
    BY <1>1, <2>1 DEF FindSeat, ScanTypes
  <2>. QED  BY <2>2, <2>3, TypePartsNext
<1>2. CASE TakeSeat(s) \/ NoSeat(s)
  <2>1. EventTypes' /\ CreateTypes'
    BY <1>2 DEF TakeSeat, NoSeat, EventTypes, CreateTypes
  <2>2. ScanTypes'
    BY <1>2 DEF TakeSeat, NoSeat, ScanTypes
  <2>. QED  BY <2>1, <2>2, TypePartsNext
<1>. QED  BY <1>1, <1>2 DEF ScanStep

LEMMA TypeInit == Init => TypeOK
BY EventsAssumption DEF Init, TypeOK

LEMMA TypeNext == TypeOK /\ [Next]_vars => TypeOK'
<1>. SUFFICES ASSUME TypeOK, [Next]_vars PROVE TypeOK'
  OBVIOUS
<1>1. CASE UNCHANGED vars
  BY <1>1 DEF TypeOK, vars, eventVars, grantVars, createVars, scanVars
<1>. QED  BY <1>1, TypeCreate, TypeEvent, TypeScan DEF Next

\* Rows and the locals of creates and scans keep their types, and no event is
\* ever without a grant (TypeOK), for any number of requests.
THEOREM EventsTypeCorrect == Spec => []TypeOK
BY TypeInit, TypeNext, PTL DEF Spec

-----------------------------------------------------------------------------
(* The indexes, and what creates answer *)

\* An answer is the event that was made for the request.
AnswersOwn ==
    \A p \in answers : status[p[2]] # "none" /\ request[p[2]] = p[1]

RequestsOfRows == \A e \in EventIds : status[e] = "none" => request[e] = NoRequest

CreateInv == RequestsOfRows /\ OneActiveTrial /\ OneEventPerRequest /\ AnswersOwn

LEMMA CreateInvNext == TypeOK /\ CreateInv /\ [Next]_vars => CreateInv'
<1>. SUFFICES ASSUME TypeOK, CreateInv, [Next]_vars PROVE CreateInv'
  OBVIOUS
<1>. USE DEF eventVars, grantVars, createVars, scanVars
<1>1. /\ status \in [EventIds -> {"none", "active", "closed", "deleted"}]
      /\ request \in [EventIds -> Requests \cup {NoRequest}]
      /\ trial \in [EventIds -> {"none", "running", "ended"}]
      /\ answers \subseteq Requests \X EventIds
  BY DEF TypeOK
<1>2. ASSUME NEW c \in Creates, NEW e \in EventIds, InsertEvent(c, e)
      PROVE  CreateInv'
  <2>1. /\ status' = [status EXCEPT ![e] = "active"] /\ status[e] = "none"
        /\ request' = [request EXCEPT ![e] = creq[c]]
        /\ trial' = [trial EXCEPT ![e] = "running"]
        /\ answers' = IF creq[c] = NoRequest THEN answers ELSE answers \cup {<<creq[c], e>>}
        /\ ~RequestTaken(creq[c]) /\ ActiveTrials = {}
    BY <1>2 DEF InsertEvent, Conflicts
  <2>2. \A d \in EventIds \ {e} : ~(status'[d] = "active" /\ trial'[d] = "running")
    BY <1>1, <2>1 DEF ActiveTrials
  <2>3. OneActiveTrial'
    BY <2>2 DEF OneActiveTrial, ActiveTrials
  <2>4. OneEventPerRequest'
    <3>. SUFFICES ASSUME NEW d \in EventIds, NEW f \in EventIds, status'[d] # "none",
                         request'[d] = request'[f], request'[d] # NoRequest
                  PROVE  d = f
      BY DEF OneEventPerRequest
    <3>. QED  BY <1>1, <2>1 DEF CreateInv, RequestsOfRows, OneEventPerRequest,
                             RequestTaken
  <2>5. AnswersOwn'
    BY <1>1, <2>1 DEF CreateInv, AnswersOwn
  <2>6. RequestsOfRows'
    BY <1>1, <2>1 DEF CreateInv, RequestsOfRows
  <2>. QED  BY <2>3, <2>4, <2>5, <2>6 DEF CreateInv
<1>3. ASSUME UNCHANGED <<status, request, trial>>,
             \A p \in answers' : p \in answers \/ (status[p[2]] # "none" /\ request[p[2]] = p[1])
      PROVE  CreateInv'
  BY <1>3 DEF CreateInv, RequestsOfRows, OneActiveTrial, OneEventPerRequest, AnswersOwn,
              ActiveTrials
<1>4. ASSUME NEW c \in Creates, GetByClientRequest(c)
      PROVE  CreateInv'
  BY <1>3, <1>4 DEF GetByClientRequest
<1>5. ASSUME NEW c \in Creates,
             \/ CountTrialsSince(c) \/ CountActiveTrials(c) \/ InsertRefused(c)
             \/ AbortCreate(c) \/ \E r \in Requests \cup {NoRequest} : Create(c, r)
      PROVE  CreateInv'
  BY <1>3, <1>5 DEF CountTrialsSince, CountActiveTrials, InsertRefused, AbortCreate, Create
<1>6. ASSUME NEW s \in Scans, ScanStep(s)
      PROVE  CreateInv'
  BY <1>3, <1>6 DEF ScanStep, FindSeat, TakeSeat, NoSeat
<1>7. ASSUME NEW e \in EventIds, EventStep(e)
      PROVE  CreateInv'
  <2>1. /\ \A d \in EventIds : /\ status[d] # "none" <=> status'[d] # "none"
                               /\ status'[d] = "active" => status[d] = "active"
                               /\ trial'[d] = "running" => trial[d] = "running"
        /\ UNCHANGED <<request, answers>>
    BY <1>1, <1>7 DEF EventStep, CloseOwned, DeleteOwned, RevokeGrant, LeaveWindow, ActivateGrant
  <2>2. OneActiveTrial'
    BY <2>1 DEF CreateInv, OneActiveTrial, ActiveTrials
  <2>3. OneEventPerRequest'
    BY <2>1 DEF CreateInv, OneEventPerRequest
  <2>4. AnswersOwn'
    BY <1>1, <2>1 DEF CreateInv, AnswersOwn
  <2>5. RequestsOfRows'
    BY <2>1 DEF CreateInv, RequestsOfRows
  <2>. QED  BY <2>2, <2>3, <2>4, <2>5 DEF CreateInv
<1>8. CASE UNCHANGED vars
  BY <1>3, <1>8 DEF vars
<1>. QED  BY <1>2, <1>4, <1>5, <1>6, <1>7, <1>8 DEF Next, CreateStep

\* One active trial (OneActiveTrial), and at most one event for each request,
\* which is every answer to it (RetriesAgree), however many creates race.
THEOREM CreatesSafe == Spec => [](OneActiveTrial /\ RetriesAgree)
<1>1. Init => CreateInv
  BY DEF Init, CreateInv, RequestsOfRows, OneActiveTrial, ActiveTrials, OneEventPerRequest,
         AnswersOwn
<1>2. TypeOK /\ CreateInv => OneActiveTrial /\ RetriesAgree
  <2>. SUFFICES ASSUME TypeOK, CreateInv PROVE RetriesAgree
    BY DEF CreateInv
  <2>1. answers \subseteq Requests \X EventIds
    BY DEF TypeOK
  <2>2. ASSUME NEW p \in answers, NEW q \in answers, p[1] = q[1]
        PROVE  p = q
    <3>1. p[1] \in Requests /\ p[2] \in EventIds /\ q[2] \in EventIds
      BY <2>1
    <3>2. request[p[2]] = request[q[2]] /\ status[p[2]] # "none" /\ request[p[2]] # NoRequest
      BY <2>2, <3>1, EventsAssumption DEF CreateInv, AnswersOwn
    <3>3. p[2] = q[2]
      BY <3>1, <3>2 DEF CreateInv, OneEventPerRequest
    <3>. QED  BY <2>1, <2>2, <3>3
  <2>. QED  BY <2>2 DEF RetriesAgree, CreateInv
<1>. QED  BY <1>1, <1>2, TypeInit, TypeNext, CreateInvNext, PTL DEF Spec

\* A repeated create that is answered names the event of the first
\* (event/service.go, Create, after a conflict).
THEOREM AnswersAgree == Spec => []RetriesAgree
BY CreatesSafe, PTL

-----------------------------------------------------------------------------
(* How far the trial window is overrun *)

\* Creates that were let through by the count and may still insert.
Past == {c \in Creates : cpc[c] \in {"trials", "insert"}}

Overrun ==
    /\ IsFiniteSet(recent)
    /\ Cardinality(recent) + Cardinality(Past) < MaxTrials + Cardinality(Creates)

LEMMA PastFinite ==
    ASSUME TRUE
    PROVE  IsFiniteSet(Past) /\ Cardinality(Past) \in Nat /\ Cardinality(Past) <= Cardinality(Creates)
           /\ Cardinality(Creates) \in Nat
BY EventsAssumption, FS_Subset, FS_CardinalityType DEF Past

LEMMA PastFiniteNext ==
    ASSUME TRUE
    PROVE  IsFiniteSet(Past') /\ Cardinality(Past') \in Nat /\ Cardinality(Past') <= Cardinality(Creates)
BY EventsAssumption, FS_Subset, FS_CardinalityType DEF Past

\* Fewer trials in the window, and fewer creates on their way.
LEMMA OverrunShrinks ==
    ASSUME Overrun, recent' \subseteq recent, Past' \subseteq Past
    PROVE  Overrun'
<1>1. /\ IsFiniteSet(recent') /\ Cardinality(recent') <= Cardinality(recent)
      /\ Cardinality(recent') \in Nat /\ Cardinality(recent) \in Nat
  BY FS_Subset, FS_CardinalityType DEF Overrun
<1>2. Cardinality(Past') <= Cardinality(Past)
  BY PastFinite, FS_Subset
<1>. QED  BY <1>1, <1>2, PastFinite, PastFiniteNext, EventsAssumption DEF Overrun

LEMMA OverrunNext == TypeOK /\ Overrun /\ [Next]_vars => Overrun'
<1>. SUFFICES ASSUME TypeOK, Overrun, [Next]_vars PROVE Overrun'
  OBVIOUS
<1>. USE DEF eventVars, grantVars, createVars, scanVars
<1>1. cpc \in [Creates -> {"idle", "window", "trials", "insert", "lookup"}]
  BY DEF TypeOK
<1>2. ASSUME NEW c \in Creates, CountTrialsSince(c)
      PROVE  Overrun'
  <2>1. CASE Cardinality(recent) >= MaxTrials
    <3>1. recent' = recent /\ Past' \subseteq Past
      BY <1>1, <1>2, <2>1 DEF CountTrialsSince, CreateAt, Past
    <3>. QED  BY <3>1, OverrunShrinks
  <2>2. CASE ~(Cardinality(recent) >= MaxTrials)
    <3>1. recent' = recent
      BY <1>2 DEF CountTrialsSince
    <3>2. IsFiniteSet(recent') /\ Cardinality(recent') \in Nat /\ Cardinality(recent') < MaxTrials
      BY <2>2, <3>1, FS_CardinalityType, EventsAssumption DEF Overrun
    <3>. QED  BY <3>2, PastFiniteNext, PastFinite, EventsAssumption DEF Overrun
  <2>. QED  BY <2>1, <2>2
<1>3. ASSUME NEW c \in Creates, NEW e \in EventIds, InsertEvent(c, e)
      PROVE  Overrun'
  <2>1. recent' = recent \cup {e} /\ c \in Past /\ Past' = Past \ {c}
    BY <1>1, <1>3 DEF InsertEvent, CreateAt, Past
  <2>2. /\ IsFiniteSet(recent') /\ Cardinality(recent') <= Cardinality(recent) + 1
        /\ Cardinality(recent') \in Nat /\ Cardinality(recent) \in Nat
    <3>1. IsFiniteSet(recent) /\ Cardinality(recent) \in Nat
      BY FS_CardinalityType DEF Overrun
    <3>2. /\ IsFiniteSet(recent \cup {e})
          /\ \/ Cardinality(recent \cup {e}) = Cardinality(recent)
             \/ Cardinality(recent \cup {e}) = Cardinality(recent) + 1
      BY <3>1, FS_AddElement
    <3>. QED  BY <2>1, <3>1, <3>2
  <2>3. Cardinality(Past') = Cardinality(Past) - 1
    BY <2>1, PastFinite, FS_RemoveElement
  <2>. QED  BY <2>2, <2>3, PastFinite, PastFiniteNext, EventsAssumption DEF Overrun
<1>4. ASSUME NEW c \in Creates,
             \/ CountActiveTrials(c) \/ InsertRefused(c) \/ GetByClientRequest(c)
             \/ AbortCreate(c) \/ \E r \in Requests \cup {NoRequest} : Create(c, r)
      PROVE  Overrun'
  <2>1. recent' = recent /\ Past' \subseteq Past
    BY <1>1, <1>4 DEF CountActiveTrials, InsertRefused, GetByClientRequest, AbortCreate, Create,
                      CreateAt, Past
  <2>. QED  BY <2>1, OverrunShrinks
<1>5. ASSUME NEW s \in Scans, ScanStep(s)
      PROVE  Overrun'
  BY <1>5, OverrunShrinks DEF ScanStep, FindSeat, TakeSeat, NoSeat, Past
<1>6. ASSUME NEW e \in EventIds, EventStep(e)
      PROVE  Overrun'
  BY <1>6, OverrunShrinks DEF EventStep, CloseOwned, DeleteOwned, RevokeGrant, LeaveWindow,
                              ActivateGrant, Past
<1>7. CASE UNCHANGED vars
  BY <1>7, OverrunShrinks DEF vars, Past
<1>. QED  BY <1>2, <1>3, <1>4, <1>5, <1>6, <1>7 DEF Next, CreateStep

\* Creates that overlap overrun the trials of a window by no more than the
\* others in flight (TrialWindowHeld).
THEOREM WindowOverrun == Spec => []TrialWindowHeld
<1>1. Init => Overrun
  <2>. SUFFICES ASSUME Init PROVE Overrun
    OBVIOUS
  <2>1. recent = {} /\ Past = {}
    BY DEF Init, Past
  <2>2. Cardinality(Creates) \in Nat /\ Cardinality(Creates) # 0
    BY EventsAssumption, FS_CardinalityType, FS_EmptySet
  <2>. QED  BY <2>1, <2>2, FS_EmptySet, EventsAssumption DEF Overrun
<1>2. TypeOK /\ Overrun => TrialWindowHeld
  BY PastFinite, FS_CardinalityType, EventsAssumption DEF Overrun, TrialWindowHeld
<1>. QED  BY <1>1, <1>2, TypeInit, TypeNext, OverrunNext, PTL DEF Spec

-----------------------------------------------------------------------------
(* Seats *)

\* A guest takes a seat only of an active event and within its plan of that
\* moment (SeatsHeld), however scans and plan changes interleave.
THEOREM SeatsAreHeld == Spec => SeatsHeld
<1>1. TypeOK /\ [Next]_vars =>
         \A e \in EventIds : sessions'[e] # sessions[e] =>
            /\ status[e] = "active"
            /\ LET seats == Seats[ActiveGrant(e).rank]
               IN  seats = 0 \/ sessions'[e] <= seats
  <2>. SUFFICES ASSUME TypeOK, [Next]_vars, NEW e \in EventIds, sessions'[e] # sessions[e]
                PROVE  /\ status[e] = "active"
                       /\ \/ Seats[ActiveGrant(e).rank] = 0
                          \/ sessions'[e] <= Seats[ActiveGrant(e).rank]
    OBVIOUS
  <2>. USE DEF eventVars, grantVars, createVars, scanVars
  <2>1. ASSUME NEW c \in Creates, CreateStep(c) PROVE UNCHANGED sessions
    BY <2>1 DEF CreateStep, Create, CountTrialsSince, CountActiveTrials, InsertEvent,
                InsertRefused, GetByClientRequest, AbortCreate
  <2>2. ASSUME NEW d \in EventIds, EventStep(d) PROVE UNCHANGED sessions
    BY <2>2 DEF EventStep, CloseOwned, DeleteOwned, RevokeGrant, LeaveWindow, ActivateGrant
  <2>3. PICK s \in Scans : TakeSeat(s)
    BY <2>1, <2>2 DEF Next, ScanStep, FindSeat, NoSeat, vars
  <2>4. /\ sevent[s] = e /\ sessions'[e] = sessions[e] + 1
        /\ sessions[e] \in Nat
    BY <2>3 DEF TakeSeat, TypeOK
  <2>5. status[e] = "active" /\ SeatFree(e)
    BY <2>3, <2>4 DEF TakeSeat, StillJoined
  <2>6. ActiveGrant(e) \in Grants
    BY <2>5, HasGrant
  <2>7. Seats[ActiveGrant(e).rank] \in Nat
    BY <2>6, EventsAssumption DEF Grants, Ranks
  <2>. QED  BY <2>4, <2>5, <2>7 DEF SeatFree
<1>. QED  BY <1>1, TypeInit, TypeNext, PTL DEF Spec, SeatsHeld
=============================================================================
