------------------------- MODULE MediaLimitProofs --------------------------
(***************************************************************************)
(* What the exact accounting of MediaUploadProofs is good for: no          *)
(* interleaving of reservations, confirmations and plan changes takes an   *)
(* event over its limits, and no retry holds quota twice.                  *)
(***************************************************************************)
EXTENDS MediaUploadProofs

-----------------------------------------------------------------------------
(* The byte cap a handler carries *)

\* A handler about to reserve carries a cap the event has or had: the part of
\* the inductive invariant that speaks of the stale read in CreateUpload.
CapsHeld == \A r \in Requests : pc[r] = "reserve" => cap[r] \in ByteCaps

\* LimitsHeld are never forgotten.
LEMMA GrantedGrows == [Next]_vars => granted \subseteq granted'
<1>1. ASSUME NEW r \in Requests, RequestStep(r)
      PROVE  granted' = granted
  BY <1>1 DEF RequestStep, CreateUpload, ReserveUpload, ReserveRefused, RefindUpload, PresignPut,
     PresignFailed, UndoReservation, Complete, MarkReady, MarkReadyNotFound, MarkReadyDuplicate,
     DropDuplicateObject, DropDuplicateRow, SumDeleted, DeleteForEvent, Abort, eventVars
<1>2. ASSUME CleanerStep \/ WorldStep \/ UNCHANGED vars
      PROVE  granted' = granted
  BY <1>2 DEF CleanerStep, FindStale, ExpireObjects, ExpireRows, AbortExpire,
     WorldStep, PutObject, GrowStale, eventVars, vars
<1>3. ASSUME HostStep
      PROVE  granted \subseteq granted'
  BY <1>3 DEF HostStep, UpdateStatuses, CloseOwned, DeleteOwned, ApplyHotLimits, eventVars
<1>. QED  BY <1>1, <1>2, <1>3 DEF Next

\* Neither are the byte caps they stand for.
LEMMA ByteCapsGrow == [Next]_vars => ByteCaps \subseteq ByteCaps'
BY GrantedGrows DEF ByteCaps

\* A request is either not touched, or leaves "reserve", or arrives there with
\* the cap it has just read.
LEMMA CapKinds ==
    ASSUME TypeOK, [Next]_vars, NEW q \in Requests, pc'[q] = "reserve"
    PROVE  \/ pc[q] = "reserve" /\ cap'[q] = cap[q]
           \/ cap'[q] = MaxEventBytes
<1>0. pc \in [Requests -> Labels] /\ cap \in [Requests -> Nat]
  BY DEF TypeOK, RequestTypeOK
<1>1. ASSUME NEW r \in Requests, NEW u \in ClientUploads, CreateUpload(r, u)
      PROVE  (pc[q] = "reserve" /\ cap'[q] = cap[q]) \/ cap'[q] = MaxEventBytes
  BY <1>0, <1>1 DEF CreateUpload, Goto
<1>2. ASSUME NEW r \in Requests,
             \/ ReserveUpload(r) \/ ReserveRefused(r) \/ RefindUpload(r) \/ PresignPut(r)
             \/ PresignFailed(r) \/ UndoReservation(r) \/ (\E m \in MediaIDs : Complete(r, m))
             \/ MarkReady(r) \/ MarkReadyNotFound(r) \/ MarkReadyDuplicate(r)
             \/ DropDuplicateObject(r) \/ DropDuplicateRow(r) \/ Abort(r)
             \/ (\E ids \in SUBSET (1..created) : SumDeleted(r, ids)) \/ DeleteForEvent(r)
      PROVE  pc[q] = "reserve" /\ cap'[q] = cap[q]
  <2>1. \/ Finish(r)
        \/ \E l \in {"signNew", "refind", "sign", "undo", "mark", "dropObject", "dropRow", "delete"} :
              Goto(r, l) /\ cap' = cap
    BY <1>2 DEF ReserveUpload, ReserveRefused, RefindUpload, PresignPut, PresignFailed,
       UndoReservation, Complete, MarkReady, MarkReadyNotFound, MarkReadyDuplicate,
       DropDuplicateObject, DropDuplicateRow, SumDeleted, DeleteForEvent, Abort
  <2>. QED  BY <1>0, <2>1 DEF Finish, Goto
<1>3. ASSUME CleanerStep \/ HostStep \/ WorldStep \/ UNCHANGED vars
      PROVE  pc' = pc /\ cap' = cap
  BY <1>3 DEF CleanerStep, FindStale, ExpireObjects, ExpireRows, AbortExpire, HostStep, UpdateStatuses,
     CloseOwned, DeleteOwned, ApplyHotLimits, WorldStep, PutObject, GrowStale, reqVars, vars
<1>. QED  BY <1>1, <1>2, <1>3 DEF Next, RequestStep

\* Every step keeps the caps that handlers carry among those of the event.
LEMMA CapsStep == TypeOK /\ CapsHeld /\ [Next]_vars => CapsHeld'
<1> SUFFICES ASSUME TypeOK, CapsHeld, [Next]_vars, NEW q \in Requests, pc'[q] = "reserve"
             PROVE  cap'[q] \in ByteCaps'
  BY DEF CapsHeld
<1>1. MaxEventBytes \in ByteCaps
  BY DEF MaxEventBytes, ByteCaps, TypeOK, DataTypeOK
<1>. QED  BY <1>1, CapKinds, ByteCapsGrow DEF CapsHeld

-----------------------------------------------------------------------------
(* LimitsHeld *)

\* What a pending row weighs is part of the reserved counters.
LEMMA PendingIsReserved ==
    ASSUME TypeOK, Accounting, NEW m \in MediaIDs, status[m] = "pending"
    PROVE  /\ SizeOf(m) \in Nat /\ SizeOf(m) <= reserved
           /\ \A x \in Resources : Weight(owner[m], x) <= reservedItems[x]
<1> DEFINE P == With(status, {"pending"})
           Q == P \ {m}
<1>1. RowTypes(status, owner, unreturned, lost)
  BY RowTypesHold
<1>2. P = Q \cup {m} /\ m \notin Q /\ Q \subseteq MediaIDs
  BY DEF With
<1>3. owner[m] \in ClientUploads /\ \A k \in Q : owner[k] \in ClientUploads
  BY <1>1 DEF RowTypes, With
<1>4. reserved = Held(P, owner) /\ \A x \in Resources : reservedItems[x] = Items(P, x, owner)
  BY AccountingDef DEF Accounts
<1> HIDE DEF P, Q
<1>5. Held(P, owner) = Held(Q, owner) + File[owner[m]].size /\ Held(Q, owner) \in Nat
  BY <1>2, <1>3, HeldAdd, HeldFinite
<1>6. File[owner[m]].size \in Nat
  BY <1>3, ConstantsAssumption
<1>7. ASSUME NEW x \in Resources
      PROVE  Weight(owner[m], x) <= reservedItems[x]
  <2>1. Items(P, x, owner) = Items(Q, x, owner) + Weight(owner[m], x) /\ Items(Q, x, owner) \in Nat
    BY <1>2, ItemsAdd
  <2>. QED  BY <1>4, <2>1, WeightType
<1>. QED  BY <1>4, <1>5, <1>6, <1>7 DEF SizeOf

\* What the event holds, in bytes and in one resource.
TotalBytes == used + reserved
TotalItems(x) == uploaded[x] + reservedItems[x]

\* The counters are natural numbers.
LEMMA CounterTypes ==
    TypeOK => /\ used \in Nat /\ reserved \in Nat
              /\ \A x \in Resources : uploaded[x] \in Nat /\ reservedItems[x] \in Nat
BY DEF TypeOK, DataTypeOK

\* GREATEST(n - k, 0) is at most n.
LEMMA AtLeastZeroBound ==
    \A n, k \in Nat : AtLeastZero(n - k) \in Nat /\ AtLeastZero(n - k) <= n
BY DEF AtLeastZero

\* Only a reservation raises the totals.
LEMMA TotalsFall ==
    ASSUME TypeOK, Accounting, [Next]_vars, ~\E r \in Requests : ReserveUpload(r)
    PROVE  /\ TotalBytes' <= TotalBytes
           /\ \A x \in Resources : TotalItems(x)' <= TotalItems(x)
<1> USE DEF TotalBytes, TotalItems
<1>1. CASE RequestBookkeeping \/ OtherBookkeeping
  BY <1>1, CounterTypes, BookkeepingUnchanged DEF countVars
<1>2. ASSUME NEW r \in Requests, MarkReady(r)
      PROVE  /\ TotalBytes' <= TotalBytes
             /\ \A x \in Resources : TotalItems(x)' <= TotalItems(x)
  <2> DEFINE m == md[r]
  <2>1. m \in MediaIDs /\ status[m] = "pending"
    <3>1. md[r] \in 1..created /\ status[md[r]] = "pending"
      BY <1>2 DEF MarkReady, TypeOK, RequestTypeOK
    <3>. QED  BY <3>1, CreatedAreIDs
  <2>2. /\ reserved' = AtLeastZero(reserved - SizeOf(m))
        /\ used' = used + SizeOf(m)
        /\ \A x \in Resources : /\ uploaded'[x] = uploaded[x] + Weight(owner[m], x)
                                /\ reservedItems'[x] = AtLeastZero(reservedItems[x] - Weight(owner[m], x))
    BY <1>2 DEF MarkReady
  <2> HIDE DEF m
  <2>3. /\ SizeOf(m) \in Nat /\ SizeOf(m) <= reserved
        /\ \A x \in Resources : Weight(owner[m], x) <= reservedItems[x]
    BY <2>1, PendingIsReserved
  <2>4. TotalBytes' <= TotalBytes
    BY <2>2, <2>3, CounterTypes DEF AtLeastZero
  <2>5. ASSUME NEW x \in Resources
        PROVE  TotalItems(x)' <= TotalItems(x)
    BY <2>2, <2>3, CounterTypes, WeightType DEF AtLeastZero
  <2>. QED  BY <2>4, <2>5
<1>3. ASSUME NEW ids, RemovesRows(ids)
      PROVE  /\ TotalBytes' <= TotalBytes
             /\ \A x \in Resources : TotalItems(x)' <= TotalItems(x)
  <2> DEFINE T == ids \cap RowsIn({"pending"})
  <2>1. /\ reserved' = AtLeastZero(reserved - BytesOf(T)) /\ used' = used /\ uploaded' = uploaded
        /\ \A x \in Resources : reservedItems'[x] = AtLeastZero(reservedItems[x] - CountOf(T, x))
    BY <1>3 DEF RemovesRows, DeleteManyUploads
  <2>2. T \subseteq MediaIDs /\ \A k \in T : owner[k] \in ClientUploads
    BY RowTypesHold DEF RowTypes, RowsIn
  <2> HIDE DEF T
  <2>3. BytesOf(T) \in Nat
    BY <2>2, HeldFinite, BytesOfHeld
  <2>4. \A x : CountOf(T, x) \in Nat
    BY <2>2, ItemsRemove, CountOfItems
  <2>5. reserved' \in Nat /\ reserved' <= reserved
    BY <2>1, <2>3, CounterTypes, AtLeastZeroBound
  <2>6. \A x \in Resources : reservedItems'[x] \in Nat /\ reservedItems'[x] <= reservedItems[x]
    BY <2>1, <2>4, CounterTypes, AtLeastZeroBound
  <2>. QED  BY <2>1, <2>5, <2>6, CounterTypes
<1>4. ASSUME NEW ids \in SUBSET (1..created), NEW s \in Curated, UpdateStatuses(ids, s)
      PROVE  UNCHANGED countVars
  BY <1>4 DEF UpdateStatuses
<1>5. ASSUME NEW r \in Requests, DeleteForEvent(r)
      PROVE  /\ TotalBytes' <= TotalBytes
             /\ \A x \in Resources : TotalItems(x)' <= TotalItems(x)
  <2> DEFINE seen == summed[r]
  <2>1. /\ used' = AtLeastZero(used - BytesOf(seen))
        /\ UNCHANGED <<reserved, uploaded, reservedItems>>
    BY <1>5 DEF DeleteForEvent
  <2>2. seen \subseteq 1..created
    BY DEF TypeOK, RequestTypeOK
  <2> HIDE DEF seen
  <2>3. seen \subseteq MediaIDs /\ \A k \in seen : owner[k] \in ClientUploads
    BY <2>2, CreatedAreIDs DEF TypeOK, DataTypeOK
  <2>4. BytesOf(seen) \in Nat
    BY <2>3, HeldFinite, BytesOfHeld
  <2>. QED  BY <2>1, <2>4, CounterTypes, AtLeastZeroBound
<1>6. UNCHANGED countVars =>
        /\ TotalBytes' <= TotalBytes
        /\ \A x \in Resources : TotalItems(x)' <= TotalItems(x)
  BY CounterTypes DEF countVars
<1>. QED  BY <1>1, <1>2, <1>3, <1>4, <1>5, <1>6, StepKinds

\* The limits hold at the start, when nothing is held.
LEMMA LimitsInit == Init => LimitsHeld /\ CapsHeld
<1> SUFFICES ASSUME Init
             PROVE  LimitsHeld /\ CapsHeld
  OBVIOUS
<1>1. limit \in granted /\ limit.bytes \in Nat /\ limit.items \in [Resources -> Nat]
  BY ConstantsAssumption DEF Init, LimitRecord
<1>2. ItemLimitsHeld
  BY <1>1 DEF Init, ItemLimitsHeld
<1>3. ByteLimitHeld
  BY <1>1, ConstantsAssumption DEF Init, ByteLimitHeld, ByteCaps
<1>. QED  BY <1>2, <1>3 DEF LimitsHeld, CapsHeld, Init

\* A reservation succeeds only under a limit that the event has or had.
LEMMA ReserveWithinLimits ==
    ASSUME TypeOK, CapsHeld, NEW r \in Requests, ReserveUpload(r), granted \subseteq granted',
           ByteCaps \subseteq ByteCaps', ItemLimitsHeld
    PROVE  LimitsHeld'
<1> DEFINE u == up[r]
<1>1. /\ reserved' = reserved + File[u].size /\ used' = used /\ uploaded' = uploaded
      /\ \A x \in Resources : reservedItems'[x] = reservedItems[x] + Weight(u, x)
      /\ ReservationFits(u, cap[r])
      /\ pc[r] = "reserve"
  BY DEF ReserveUpload
<1>2. u \in ClientUploads
  BY <1>1 DEF TypeOK, RequestTypeOK
<1> HIDE DEF u
<1>3. File[u].size \in Nat
  BY <1>2, ConstantsAssumption
<1>4. limit \in granted /\ limit \in LimitRecord
  BY DEF TypeOK, DataTypeOK
<1>5. ByteLimitHeld'
  <2>1. cap[r] \in ByteCaps
    BY <1>1 DEF CapsHeld
  <2>2. PICK c \in ByteCaps : used + reserved + File[u].size <= c
    <3>1. CASE cap[r] # 0
      BY <1>1, <2>1, <3>1 DEF ReservationFits
    <3>2. CASE cap[r] = 0
      <4>1. limit.bytes \in ByteCaps
        BY <1>4, <2>1, <3>2, ConstantsAssumption DEF ByteCaps
      <4>. QED  BY <1>1, <3>2, <4>1 DEF ReservationFits
    <3>. QED  BY <3>1, <3>2
  <2>3. used' + reserved' <= c
    BY <1>1, <1>3, <2>2, CounterTypes
  <2>. QED  BY <2>2, <2>3 DEF ByteLimitHeld
<1>6. ItemLimitsHeld'
  <2> SUFFICES ASSUME EnforceItems, NEW x \in Resources
               PROVE  \E p \in granted' : \/ p.items[x] = 0
                                          \/ uploaded'[x] + reservedItems'[x] <= p.items[x]
    BY DEF ItemLimitsHeld
  <2>1. CASE Weight(u, x) = 0
    <3>1. uploaded'[x] + reservedItems'[x] = uploaded[x] + reservedItems[x]
      BY <1>1, <2>1, CounterTypes
    <3>. QED  BY <3>1 DEF ItemLimitsHeld
  <2>2. CASE Weight(u, x) = 1
    <3>1. limit.items[x] = 0 \/ uploaded[x] + reservedItems[x] + 1 <= limit.items[x]
      BY <1>1, <2>2 DEF ReservationFits
    <3>2. uploaded'[x] + reservedItems'[x] = uploaded[x] + reservedItems[x] + 1
      BY <1>1, <2>2, CounterTypes
    <3>. QED  BY <1>4, <3>1, <3>2
  <2>. QED  BY <2>1, <2>2, WeightType
<1>. QED  BY <1>5, <1>6 DEF LimitsHeld

\* Every step keeps the limits.
LEMMA LimitsStep == TypeOK /\ Accounting /\ CapsHeld /\ LimitsHeld /\ [Next]_vars => LimitsHeld'
<1> SUFFICES ASSUME TypeOK, Accounting, CapsHeld, LimitsHeld, [Next]_vars
             PROVE  LimitsHeld'
  OBVIOUS
<1>1. granted \subseteq granted' /\ ByteCaps \subseteq ByteCaps'
  BY GrantedGrows, ByteCapsGrow
<1>2. CASE \E r \in Requests : ReserveUpload(r)
  BY <1>1, <1>2, ReserveWithinLimits DEF LimitsHeld
<1>3. CASE ~\E r \in Requests : ReserveUpload(r)
  <2>1. /\ TotalBytes' <= TotalBytes
        /\ \A x \in Resources : TotalItems(x)' <= TotalItems(x)
    BY <1>3, TotalsFall
  <2>2. TypeOK'
    BY DataTypeStep, RequestTypeStep DEF TypeOK
  <2>3. /\ used' \in Nat /\ reserved' \in Nat
        /\ \A x \in Resources : uploaded'[x] \in Nat /\ reservedItems'[x] \in Nat
    BY <2>2 DEF TypeOK, DataTypeOK
  <2>4. \A c \in ByteCaps : c \in Nat
    BY ConstantsAssumption DEF ByteCaps, TypeOK, DataTypeOK, LimitRecord
  <2>5. ByteLimitHeld'
    <3>1. PICK c \in ByteCaps : used + reserved <= c
      BY DEF LimitsHeld, ByteLimitHeld
    <3>2. used' + reserved' <= c
      BY <2>1, <2>3, <2>4, <3>1, CounterTypes DEF TotalBytes
    <3>. QED  BY <1>1, <3>1, <3>2 DEF ByteLimitHeld
  <2>6. ItemLimitsHeld'
    <3> SUFFICES ASSUME EnforceItems, NEW x \in Resources
                 PROVE  \E p \in granted' : \/ p.items[x] = 0
                                            \/ uploaded'[x] + reservedItems'[x] <= p.items[x]
      BY DEF ItemLimitsHeld
    <3>1. PICK p \in granted : p.items[x] = 0 \/ uploaded[x] + reservedItems[x] <= p.items[x]
      BY DEF LimitsHeld, ItemLimitsHeld
    <3>2. p.items[x] \in Nat
      BY DEF TypeOK, DataTypeOK, LimitRecord
    <3>3. p.items[x] = 0 \/ uploaded'[x] + reservedItems'[x] <= p.items[x]
      BY <2>1, <2>3, <3>1, <3>2, CounterTypes DEF TotalItems
    <3>. QED  BY <1>1, <3>3
  <2>. QED  BY <2>5, <2>6 DEF LimitsHeld
<1>. QED  BY <1>2, <1>3

\* "Concurrent uploads near a limit can never overshoot it": for any number of
\* concurrent requests and plan changes, bytes and items stay within a limit
\* that the event has or had when the upload was admitted.
THEOREM LimitsHold == Spec => []LimitsHeld
<1>1. Init => TypeOK /\ Accounting /\ CapsHeld /\ LimitsHeld
  BY TypeInit, AccountingInit, LimitsInit
<1>2. TypeOK /\ Accounting /\ CapsHeld /\ LimitsHeld /\ [Next]_vars
        => TypeOK' /\ Accounting' /\ CapsHeld' /\ LimitsHeld'
  BY DataTypeStep, RequestTypeStep, AccountingStep, CapsStep, LimitsStep DEF TypeOK
<1>. QED  BY <1>1, <1>2, PTL DEF Spec

-----------------------------------------------------------------------------
(* Rows *)

\* Every step keeps one row for each client upload, and a deleted row deleted.
LEMMA RowsStep ==
    ASSUME TypeOK, OneRowPerClientUpload, [Next]_vars
    PROVE  /\ OneRowPerClientUpload'
           /\ \A m \in MediaIDs : status[m] = "deleted" => status'[m] \in {"deleted", "none"}
<1>1. status \in [MediaIDs -> Statuses] /\ owner \in [MediaIDs -> ClientUploads \cup {NoUpload}]
  BY DEF TypeOK, DataTypeOK
<1>2. \A m, n \in MediaIDs : status[m] # "none" /\ status[n] # "none" /\ owner[m] = owner[n] => m = n
  BY <1>1 DEF OneRowPerClientUpload, RowsIn
<1>3. TypeOK'
  BY DataTypeStep, RequestTypeStep DEF TypeOK
<1>4. status' \in [MediaIDs -> Statuses]
  BY <1>3 DEF TypeOK, DataTypeOK
<1>5. SUFFICES
        /\ \A m, n \in MediaIDs :
              status'[m] # "none" /\ status'[n] # "none" /\ owner'[m] = owner'[n] => m = n
        /\ \A m \in MediaIDs : status[m] = "deleted" => status'[m] \in {"deleted", "none"}
  BY <1>4 DEF OneRowPerClientUpload, RowsIn
<1>6. CASE /\ owner' = owner
           /\ \A m \in MediaIDs : status[m] = "none" => status'[m] = "none"
           /\ \A m \in MediaIDs : status[m] = "deleted" => status'[m] \in {"deleted", "none"}
  BY <1>2, <1>6
<1>7. ASSUME RequestBookkeeping \/ OtherBookkeeping
      PROVE  owner' = owner /\ status' = status
  BY <1>7, BookkeepingUnchanged DEF rowVars
<1>8. ASSUME NEW r \in Requests, ReserveUpload(r)
      PROVE  /\ \A m, n \in MediaIDs :
                   status'[m] # "none" /\ status'[n] # "none" /\ owner'[m] = owner'[n] => m = n
             /\ \A m \in MediaIDs : status[m] = "deleted" => status'[m] \in {"deleted", "none"}
  <2> DEFINE k == created + 1
  <2>1. k \in MediaIDs /\ status[k] = "none"
    BY <1>8, ConstantsAssumption DEF ReserveUpload, TypeOK, DataTypeOK, MediaIDs
  <2>2. /\ status' = [status EXCEPT ![k] = "pending"]
        /\ owner' = [owner EXCEPT ![k] = up[r]]
        /\ \A m \in MediaIDs : status[m] # "none" => owner[m] # up[r]
    BY <1>8 DEF ReserveUpload, ClientUploadFree, RowsOf
  <2> HIDE DEF k
  <2>. QED  BY <1>1, <1>2, <2>1, <2>2
<1>9. ASSUME NEW r \in Requests, MarkReady(r)
      PROVE  /\ owner' = owner
             /\ \A m \in MediaIDs : status[m] = "none" => status'[m] = "none"
             /\ \A m \in MediaIDs : status[m] = "deleted" => status'[m] \in {"deleted", "none"}
  BY <1>1, <1>9 DEF MarkReady
<1>10. ASSUME NEW ids, RemovesRows(ids)
       PROVE  /\ owner' = owner
              /\ \A m \in MediaIDs : status[m] = "none" => status'[m] = "none"
              /\ \A m \in MediaIDs : status[m] = "deleted" => status'[m] \in {"deleted", "none"}
  BY <1>10 DEF RemovesRows, DeleteManyUploads
<1>11. ASSUME NEW ids \in SUBSET (1..created), NEW s \in Curated, UpdateStatuses(ids, s)
       PROVE  /\ owner' = owner
              /\ \A m \in MediaIDs : status[m] = "none" => status'[m] = "none"
              /\ \A m \in MediaIDs : status[m] = "deleted" => status'[m] \in {"deleted", "none"}
  BY <1>11 DEF UpdateStatuses, Curated
<1>12. ASSUME NEW r \in Requests, DeleteForEvent(r)
       PROVE  /\ owner' = owner
              /\ \A m \in MediaIDs : status[m] = "none" => status'[m] = "none"
              /\ \A m \in MediaIDs : status[m] = "deleted" => status'[m] \in {"deleted", "none"}
  BY <1>12 DEF DeleteForEvent, RowsIn, Curated
<1>. QED  BY <1>6, <1>7, <1>8, <1>9, <1>10, <1>11, <1>12, StepKinds

\* There is no row at the start.
LEMMA RowsInit == Init => OneRowPerClientUpload
BY DEF Init, OneRowPerClientUpload, RowsIn

\* A client upload has at most one row, however often its request is retried
\* or raced: no retry holds quota twice.
THEOREM OneRow == Spec => []OneRowPerClientUpload
<1>1. Init => TypeOK /\ OneRowPerClientUpload
  BY TypeInit, RowsInit
<1>2. TypeOK /\ OneRowPerClientUpload /\ [Next]_vars => TypeOK' /\ OneRowPerClientUpload'
  BY DataTypeStep, RequestTypeStep, RowsStep DEF TypeOK
<1>. QED  BY <1>1, <1>2, PTL DEF Spec

\* No confirmation and no curation brings back media the host has deleted.
THEOREM DeletionIsFinal == Spec => DeletedIsFinal
<1>1. TypeOK /\ OneRowPerClientUpload /\ [Next]_vars =>
        [\A m \in MediaIDs : status[m] = "deleted" => status'[m] \in {"deleted", "none"}]_vars
  BY RowsStep
<1>. QED  BY <1>1, TypeCorrect, OneRow, PTL DEF Spec, DeletedIsFinal
=============================================================================
