------------------------- MODULE MediaUploadProofs -------------------------
(***************************************************************************)
(* The quota accounting of MediaUpload, proved for any number of rows,     *)
(* client uploads, concurrent requests, plans and file sizes.              *)
(***************************************************************************)
EXTENDS MediaUpload, FiniteSetTheorems, TLAPS

-----------------------------------------------------------------------------
(* Counting *)

\* Any set of media ids is finite.
LEMMA IdsFinite ==
    ASSUME NEW S, S \subseteq MediaIDs
    PROVE  IsFiniteSet(S) /\ Cardinality(S) \in Nat
<1>1. IsFiniteSet(1..MaxMedia)
  BY ConstantsAssumption, FS_Interval
<1>2. IsFiniteSet(S)
  BY <1>1, FS_Subset DEF MediaIDs
<1>. QED  BY <1>2, FS_CardinalityType

\* GREATEST(n, 0) is never negative.
LEMMA AtLeastZeroType == \A n \in Int : AtLeastZero(n) \in Nat
BY DEF AtLeastZero

(***************************************************************************)
(* The sums of the model as functions of a set of rows S and their owners  *)
(* ow, so that one lemma serves the current and the next state.            *)
(***************************************************************************)
Cells(S, ow) == UNION {{m} \X (1..File[ow[m]].size) : m \in S}
Held(S, ow) == Cardinality(Cells(S, ow))
Pick(S, x, ow) == {m \in S : Weight(ow[m], x) = 1}
Items(S, x, ow) == Cardinality(Pick(S, x, ow))

\* Rows that were inserted hold a finite number of bytes.
LEMMA HeldFinite ==
    ASSUME NEW ow, NEW S, S \subseteq MediaIDs, \A m \in S : ow[m] \in ClientUploads
    PROVE  IsFiniteSet(Cells(S, ow)) /\ Held(S, ow) \in Nat
<1>1. \A m \in S : File[ow[m]].size \in 1..MaxFileBytes
  BY ConstantsAssumption
<1>2. Cells(S, ow) \subseteq MediaIDs \X (1..MaxFileBytes)
  BY <1>1, ConstantsAssumption DEF Cells
<1>3. IsFiniteSet(MediaIDs) /\ IsFiniteSet(1..MaxFileBytes)
  BY IdsFinite, ConstantsAssumption, FS_Interval
<1>4. IsFiniteSet(MediaIDs \X (1..MaxFileBytes))
  BY <1>3, FS_Product
<1>5. IsFiniteSet(Cells(S, ow))
  BY <1>2, <1>4, FS_Subset
<1>. QED  BY <1>5, FS_CardinalityType DEF Held

\* Adding a row adds its size.
LEMMA HeldAdd ==
    ASSUME NEW ow, NEW S, S \subseteq MediaIDs, \A k \in S : ow[k] \in ClientUploads,
           NEW m \in MediaIDs, m \notin S, ow[m] \in ClientUploads
    PROVE  Held(S \cup {m}, ow) = Held(S, ow) + File[ow[m]].size
<1> DEFINE n == File[ow[m]].size
           B == Cells(S, ow)
           C == {m} \X (1..n)
<1>1. n \in Nat
  BY ConstantsAssumption
<1>2. Cells(S \cup {m}, ow) = B \cup C
  BY DEF Cells
<1>3. B \cap C = {}
  BY DEF Cells
<1>4. IsFiniteSet(B) /\ Cardinality(B) \in Nat
  BY HeldFinite DEF Held
<1> HIDE DEF n
<1>5. IsFiniteSet(1..n) /\ Cardinality(1..n) = n
  BY <1>1, FS_Interval
<1>6. IsFiniteSet({m}) /\ Cardinality({m}) = 1
  BY FS_Singleton
<1>7. IsFiniteSet(C) /\ Cardinality(C) = n
  <2>1. IsFiniteSet(C) /\ Cardinality(C) = Cardinality({m}) * Cardinality(1..n)
    BY <1>5, <1>6, FS_Product
  <2>. QED  BY <1>1, <1>5, <1>6, <2>1
<1>8. Cardinality(B \cap C) = 0
  BY <1>3, FS_EmptySet
<1> HIDE DEF B, C
<1>9. Cardinality(B \cup C) = Cardinality(B) + Cardinality(C) - Cardinality(B \cap C)
  BY <1>4, <1>7, FS_Union
<1>10. Cardinality(B \cup C) = Cardinality(B) + n
  BY <1>1, <1>4, <1>7, <1>8, <1>9
<1>. QED  BY <1>2, <1>10 DEF Held, B, n

\* Removing some of the rows removes what they hold.
LEMMA HeldRemove ==
    ASSUME NEW ow, NEW S, S \subseteq MediaIDs, \A m \in S : ow[m] \in ClientUploads,
           NEW T, T \subseteq S
    PROVE  /\ Held(S \ T, ow) = Held(S, ow) - Held(T, ow)
           /\ Held(T, ow) <= Held(S, ow)
<1>1. Cells(S \ T, ow) = Cells(S, ow) \ Cells(T, ow)
  BY DEF Cells
<1>2. Cells(S, ow) \cap Cells(T, ow) = Cells(T, ow)
  BY DEF Cells
<1>3. IsFiniteSet(Cells(S, ow)) /\ Held(S, ow) \in Nat /\ Held(T, ow) \in Nat
  BY HeldFinite
<1>4. Cardinality(Cells(S, ow) \ Cells(T, ow))
        = Cardinality(Cells(S, ow)) - Cardinality(Cells(S, ow) \cap Cells(T, ow))
  BY <1>3, FS_Difference
<1>5. Cardinality(Cells(S, ow) \cap Cells(T, ow)) <= Cardinality(Cells(S, ow))
  BY <1>3, FS_Intersection
<1>. QED  BY <1>1, <1>2, <1>3, <1>4, <1>5 DEF Held

\* What rows hold depends on their own files only.
LEMMA HeldAgree ==
    ASSUME NEW ow, NEW ow2, NEW S, \A m \in S : ow[m] = ow2[m]
    PROVE  Held(S, ow) = Held(S, ow2)
<1>1. Cells(S, ow) = Cells(S, ow2)
  BY DEF Cells
<1>. QED  BY <1>1 DEF Held

\* A file weighs 0 or 1 in each resource.
LEMMA WeightType ==
    \A u, x : Weight(u, x) \in {0, 1}
BY DEF Weight

\* Adding a row adds its weight.
LEMMA ItemsAdd ==
    ASSUME NEW ow, NEW S, S \subseteq MediaIDs, NEW m \in MediaIDs, m \notin S, NEW x
    PROVE  /\ Items(S, x, ow) \in Nat
           /\ Items(S \cup {m}, x, ow) = Items(S, x, ow) + Weight(ow[m], x)
<1> DEFINE P == Pick(S, x, ow)
<1>1. IsFiniteSet(P) /\ Cardinality(P) \in Nat /\ m \notin P
  BY IdsFinite DEF Pick
<1>2. CASE Weight(ow[m], x) = 1
  <2>1. Pick(S \cup {m}, x, ow) = P \cup {m}
    BY <1>2 DEF Pick
  <2>2. Cardinality(P \cup {m}) = Cardinality(P) + 1
    BY <1>1, FS_AddElement
  <2>. QED  BY <1>1, <1>2, <2>1, <2>2 DEF Items
<1>3. CASE Weight(ow[m], x) = 0
  <2>1. Pick(S \cup {m}, x, ow) = P
    BY <1>3 DEF Pick
  <2>. QED  BY <1>1, <1>3, <2>1 DEF Items
<1>. QED  BY <1>2, <1>3, WeightType

\* Removing some of the rows removes their weight.
LEMMA ItemsRemove ==
    ASSUME NEW ow, NEW S, S \subseteq MediaIDs, NEW T, T \subseteq S, NEW x
    PROVE  /\ Items(S, x, ow) \in Nat /\ Items(T, x, ow) \in Nat
           /\ Items(S \ T, x, ow) = Items(S, x, ow) - Items(T, x, ow)
           /\ Items(T, x, ow) <= Items(S, x, ow)
<1> DEFINE P == Pick(S, x, ow)
           Q == Pick(T, x, ow)
<1>1. Pick(S \ T, x, ow) = P \ Q /\ P \cap Q = Q /\ P \subseteq MediaIDs /\ Q \subseteq MediaIDs
  BY DEF Pick
<1>2. IsFiniteSet(P) /\ Cardinality(P) \in Nat /\ Cardinality(Q) \in Nat
  BY <1>1, IdsFinite
<1>3. Cardinality(P \ Q) = Cardinality(P) - Cardinality(P \cap Q)
  BY <1>2, FS_Difference
<1>4. Cardinality(P \cap Q) <= Cardinality(P)
  BY <1>2, FS_Intersection
<1>. QED  BY <1>1, <1>2, <1>3, <1>4 DEF Items

\* What rows weigh depends on their own files only.
LEMMA ItemsAgree ==
    ASSUME NEW ow, NEW ow2, NEW S, \A m \in S : ow[m] = ow2[m], NEW x
    PROVE  Items(S, x, ow) = Items(S, x, ow2)
<1>1. Pick(S, x, ow) = Pick(S, x, ow2)
  BY DEF Pick
<1>. QED  BY <1>1 DEF Items

-----------------------------------------------------------------------------
(* Type correctness *)

\* The model's own sums are these.
LEMMA BytesOfHeld == \A S : BytesOf(S) = Held(S, owner)
BY DEF BytesOf, Bytes, SizeOf, Held, Cells

\* And its item count.
LEMMA CountOfItems == \A S, x : CountOf(S, x) = Items(S, x, owner)
BY DEF CountOf, OfResource, Items, Pick

\* Removing inserted rows keeps the columns' types.
LEMMA DeleteManyUploadsType ==
    ASSUME DataTypeOK, NEW ids, ids \subseteq 1..created, DeleteManyUploads(ids)
    PROVE  /\ reserved' \in Nat
           /\ reservedItems' \in [Resources -> Nat]
           /\ status' \in [MediaIDs -> Statuses]
           /\ \A m \in MediaIDs : m > created => status'[m] = "none"
           /\ jobs' \subseteq MediaIDs
           /\ unreturned' \subseteq 1..created /\ lost' \subseteq 1..created
           /\ UNCHANGED <<used, uploaded, created, owner>>
<1> DEFINE held == ids \cap RowsIn({"pending"})
<1>1. held \subseteq MediaIDs /\ \A m \in held : owner[m] \in ClientUploads
  BY DEF DataTypeOK, MediaIDs, RowsIn
<1>2. BytesOf(held) \in Nat
  BY <1>1, HeldFinite, BytesOfHeld
<1>3. \A x \in Resources : CountOf(held, x) \in Nat
  <2> HIDE DEF held
  <2>. QED  BY <1>1, ItemsRemove, CountOfItems
<1>4. reserved' \in Nat
  BY <1>2 DEF DeleteManyUploads, AtLeastZero, DataTypeOK
<1>5. reservedItems' \in [Resources -> Nat]
  <2>1. \A x \in Resources : AtLeastZero(reservedItems[x] - CountOf(held, x)) \in Nat
    <3> HIDE DEF held
    <3>1. reservedItems \in [Resources -> Nat]
      BY DEF DataTypeOK
    <3>. QED  BY <1>3, <3>1, AtLeastZeroType
  <2>. QED  BY <2>1 DEF DeleteManyUploads
<1>6. status' \in [MediaIDs -> Statuses] /\ jobs' \subseteq MediaIDs
  BY DEF DeleteManyUploads, DataTypeOK, Statuses
<1>7. \A m \in MediaIDs : m > created => status'[m] = "none"
  BY DEF DeleteManyUploads, DataTypeOK, MediaIDs
<1>8. unreturned' \subseteq 1..created /\ lost' \subseteq 1..created
  BY DEF DeleteManyUploads, DataTypeOK
<1>. QED  BY <1>4, <1>5, <1>6, <1>7, <1>8 DEF DeleteManyUploads

\* A request that ends leaves well-typed locals.
LEMMA FinishType ==
    ASSUME RequestTypeOK, NEW r \in Requests, Finish(r), created' = created
    PROVE  RequestTypeOK'
<1>1. /\ pc' = [pc EXCEPT ![r] = "idle"]
      /\ up' = [up EXCEPT ![r] = NoUpload]
      /\ md' = [md EXCEPT ![r] = 0]
      /\ cap' = [cap EXCEPT ![r] = 0]
      /\ doomed' = [doomed EXCEPT ![r] = {}]
      /\ summed' = [summed EXCEPT ![r] = {}]
  BY DEF Finish, Goto
<1>2. pc' \in [Requests -> Labels] /\ up' \in [Requests -> ClientUploads \cup {NoUpload}]
  BY <1>1 DEF RequestTypeOK, Labels
<1>3. md' \in [Requests -> 0..MaxMedia] /\ cap' \in [Requests -> Nat]
  BY <1>1, ConstantsAssumption DEF RequestTypeOK
<1>4. \A q \in Requests : q # r => pc'[q] = pc[q] /\ up'[q] = up[q] /\ md'[q] = md[q]
  BY <1>1 DEF RequestTypeOK
<1>5. pc'[r] = "idle"
  BY <1>1 DEF RequestTypeOK
<1>6. /\ doomed' \in [Requests -> SUBSET (1..created)]
      /\ summed' \in [Requests -> SUBSET (1..created)]
      /\ \A q \in Requests : summed'[q] \subseteq doomed'[q]
  BY <1>1 DEF RequestTypeOK
<1>. QED  BY <1>2, <1>3, <1>4, <1>5, <1>6 DEF RequestTypeOK

\* So does one that moves on with an inserted row in hand.
LEMMA GotoType ==
    ASSUME RequestTypeOK, NEW r \in Requests, NEW l \in Labels \ {"reserve", "refind", "delete"},
           NEW m \in 1..created, m \in 0..MaxMedia, Goto(r, l),
           md' = [md EXCEPT ![r] = m], UNCHANGED <<up, cap, delVars>>,
           created' = created
    PROVE  RequestTypeOK'
BY DEF RequestTypeOK, Goto, delVars

\* Every step keeps the types of the columns.
LEMMA DataTypeStep == TypeOK /\ [Next]_vars => DataTypeOK'
<1> SUFFICES ASSUME DataTypeOK, RequestTypeOK, [Next]_vars
             PROVE  DataTypeOK'
  BY DEF TypeOK
<1> USE ConstantsAssumption DEF MediaIDs
<1>1. ASSUME NEW r \in Requests,
             \/ \E u \in ClientUploads : CreateUpload(r, u)
             \/ ReserveRefused(r)
             \/ RefindUpload(r)
             \/ PresignFailed(r)
             \/ \E m \in MediaIDs : Complete(r, m)
             \/ MarkReadyNotFound(r)
             \/ MarkReadyDuplicate(r)
             \/ \E ids \in SUBSET (1..created) : SumDeleted(r, ids)
             \/ Abort(r)
      PROVE  DataTypeOK'
  <2>1. UNCHANGED <<eventVars, countVars, rowVars, storeVars, horizon, cleanVars>>
    BY <1>1 DEF CreateUpload, ReserveRefused, RefindUpload, PresignFailed, Complete,
                MarkReadyNotFound, MarkReadyDuplicate, SumDeleted, Abort
  <2>. QED
    BY <2>1 DEF DataTypeOK, eventVars, countVars, driftVars, rowVars, storeVars, cleanVars
<1>2. ASSUME NEW r \in Requests, ReserveUpload(r)
      PROVE  DataTypeOK'
  <2> DEFINE u == up[r]
             m == created + 1
  <2>1. u \in ClientUploads /\ m \in MediaIDs /\ created' = m
    BY <1>2 DEF ReserveUpload, RequestTypeOK, DataTypeOK
  <2>2. reserved' \in Nat
    BY <1>2, <2>1 DEF ReserveUpload, DataTypeOK
  <2>3. reservedItems' \in [Resources -> Nat]
    BY <1>2, <2>1 DEF ReserveUpload, DataTypeOK, Weight
  <2>4. /\ status' \in [MediaIDs -> Statuses]
        /\ owner' \in [MediaIDs -> ClientUploads \cup {NoUpload}]
        /\ \A k \in MediaIDs : IF k <= created' THEN owner'[k] \in ClientUploads
                                                ELSE status'[k] = "none"
    BY <1>2, <2>1 DEF ReserveUpload, DataTypeOK, Statuses
  <2>. QED
    BY <1>2, <2>1, <2>2, <2>3, <2>4 DEF ReserveUpload, DataTypeOK, eventVars, driftVars, storeVars, cleanVars
<1>3. ASSUME NEW r \in Requests, PresignPut(r) \/ DropDuplicateObject(r)
      PROVE  DataTypeOK'
  <2>1. md[r] \in 1..created
    BY <1>3 DEF PresignPut, DropDuplicateObject, RequestTypeOK
  <2>. QED
    BY <1>3, <2>1 DEF PresignPut, DropDuplicateObject, DataTypeOK,
       eventVars, countVars, driftVars, rowVars, storeVars, cleanVars
<1>4. ASSUME NEW r \in Requests, UndoReservation(r) \/ DropDuplicateRow(r)
      PROVE  DataTypeOK'
  <2>1. {md[r]} \subseteq 1..created /\ DeleteManyUploads({md[r]})
    BY <1>4 DEF UndoReservation, DropDuplicateRow, RequestTypeOK
  <2>2. UNCHANGED <<eventVars, storeVars, horizon, cleanVars>>
    BY <1>4 DEF UndoReservation, DropDuplicateRow
  <2>. QED
    BY <2>1, <2>2, DeleteManyUploadsType DEF DataTypeOK, eventVars, storeVars, cleanVars
<1>5. ASSUME NEW r \in Requests, MarkReady(r)
      PROVE  DataTypeOK'
  <2> DEFINE m == md[r]
  <2>1. m \in 1..created
    BY <1>5 DEF MarkReady, RequestTypeOK
  <2>2. m \in MediaIDs /\ owner[m] \in ClientUploads
    BY <2>1 DEF DataTypeOK
  <2>3. SizeOf(m) \in Nat
    BY <2>2 DEF SizeOf
  <2>4. used' = used + SizeOf(m) /\ reserved' = AtLeastZero(reserved - SizeOf(m))
    BY <1>5 DEF MarkReady
  <2>5. used' \in Nat /\ reserved' \in Nat
    <3>1. used \in Nat /\ reserved \in Nat
      BY DEF DataTypeOK
    <3> HIDE DEF m
    <3>2. used + SizeOf(m) \in Nat /\ reserved - SizeOf(m) \in Int
      BY <2>3, <3>1
    <3>. QED  BY <2>4, <3>2, AtLeastZeroType
  <2>6. uploaded' \in [Resources -> Nat] /\ reservedItems' \in [Resources -> Nat]
    BY <1>5, <2>2 DEF MarkReady, DataTypeOK, Weight, AtLeastZero
  <2>7. /\ status' \in [MediaIDs -> Statuses]
        /\ jobs' \subseteq MediaIDs
        /\ \A k \in MediaIDs : k > created => status'[k] = "none"
    <3>1. status' = [status EXCEPT ![m] = "ready"] /\ jobs' = jobs \cup {m}
      BY <1>5 DEF MarkReady
    <3>2. /\ status \in [MediaIDs -> Statuses] /\ jobs \subseteq MediaIDs /\ created \in Nat
          /\ \A k \in MediaIDs : k > created => status[k] = "none"
      BY DEF DataTypeOK
    <3> HIDE DEF m
    <3>3. status' \in [MediaIDs -> Statuses] /\ jobs' \subseteq MediaIDs
      BY <2>2, <3>1, <3>2 DEF Statuses, Completed, Curated
    <3>4. \A k \in MediaIDs : k > created => k # m
      BY <2>1, <3>2
    <3>. QED  BY <3>1, <3>2, <3>3, <3>4
  <2>. QED
    BY <1>5, <2>5, <2>6, <2>7 DEF MarkReady, DataTypeOK, eventVars, driftVars, storeVars, cleanVars
<1>6. ASSUME FindStale \/ AbortExpire
      PROVE  DataTypeOK'
  <2>1. StaleRows \subseteq 1..created
    BY DEF StaleRows, RowsIn, DataTypeOK
  <2>2. batch' \subseteq 1..created /\ cleaner' \in {"idle", "objects", "rows"}
    BY <1>6, <2>1 DEF FindStale, AbortExpire
  <2>3. UNCHANGED <<eventVars, countVars, rowVars, storeVars, horizon>>
    BY <1>6 DEF FindStale, AbortExpire
  <2>. QED
    BY <2>2, <2>3 DEF DataTypeOK, eventVars, countVars, driftVars, rowVars, storeVars
<1>7. ASSUME NEW unremoved \in SUBSET batch, ExpireObjects(unremoved)
      PROVE  DataTypeOK'
  BY <1>7 DEF ExpireObjects, DataTypeOK, eventVars, countVars, driftVars, rowVars
<1>8. ASSUME ExpireRows
      PROVE  DataTypeOK'
  <2>1. batch \subseteq 1..created /\ DeleteManyUploads(batch)
    BY <1>8 DEF ExpireRows, DataTypeOK
  <2>2. UNCHANGED <<eventVars, storeVars, horizon>> /\ cleaner' = "idle" /\ batch' = {}
    BY <1>8 DEF ExpireRows
  <2>3. /\ reserved' \in Nat
        /\ reservedItems' \in [Resources -> Nat]
        /\ status' \in [MediaIDs -> Statuses]
        /\ \A m \in MediaIDs : m > created => status'[m] = "none"
        /\ jobs' \subseteq MediaIDs
        /\ unreturned' \subseteq 1..created /\ lost' \subseteq 1..created
        /\ UNCHANGED <<used, uploaded, created, owner>>
    BY <2>1, DeleteManyUploadsType
  <2>. QED
    BY <2>2, <2>3 DEF DataTypeOK, eventVars, storeVars
<1>9. ASSUME NEW ids \in SUBSET (1..created), NEW s \in Curated, UpdateStatuses(ids, s)
      PROVE  DataTypeOK'
  BY <1>9 DEF UpdateStatuses, DataTypeOK, Statuses, Completed, Curated,
              eventVars, countVars, driftVars, storeVars, cleanVars
<1>10. ASSUME NEW r \in Requests, DeleteForEvent(r)
       PROVE  DataTypeOK'
  <2> DEFINE ids == doomed[r]
             seen == summed[r]
  <2>1. ids \subseteq 1..created /\ seen \subseteq 1..created
    BY DEF RequestTypeOK
  <2>2. /\ status' = [m \in MediaIDs |-> IF m \in ids THEN "deleted" ELSE status[m]]
        /\ used' = AtLeastZero(used - BytesOf(seen))
        /\ unreturned' = unreturned \cup (ids \ seen)
    BY <1>10 DEF DeleteForEvent
  <2> HIDE DEF ids, seen
  <2>3. BytesOf(seen) \in Nat
    <3>1. seen \subseteq MediaIDs /\ \A m \in seen : owner[m] \in ClientUploads
      BY <2>1 DEF DataTypeOK
    <3>. QED  BY <3>1, HeldFinite, BytesOfHeld
  <2>4. used' \in Nat /\ unreturned' \subseteq 1..created
    BY <2>1, <2>2, <2>3 DEF DataTypeOK, AtLeastZero
  <2>5. status' \in [MediaIDs -> Statuses] /\ \A m \in MediaIDs : m > created => status'[m] = "none"
    BY <2>1, <2>2 DEF DataTypeOK, Statuses, Completed
  <2>. QED
    BY <1>10, <2>4, <2>5 DEF DeleteForEvent, DataTypeOK, eventVars, storeVars, cleanVars
<1>11. ASSUME CloseOwned \/ DeleteOwned
       PROVE  DataTypeOK'
  BY <1>11 DEF CloseOwned, DeleteOwned, DataTypeOK, countVars, driftVars, rowVars, storeVars, cleanVars
<1>12. ASSUME NEW p \in Plans, ApplyHotLimits(p)
       PROVE  DataTypeOK'
  BY <1>12 DEF ApplyHotLimits, DataTypeOK, LimitRecord, countVars, driftVars, rowVars, storeVars, cleanVars
<1>13. ASSUME NEW m \in MediaIDs, NEW o \in {"match", "other"}, PutObject(m, o)
       PROVE  DataTypeOK'
  BY <1>13 DEF PutObject, DataTypeOK, eventVars, countVars, driftVars, rowVars, cleanVars
<1>14. ASSUME GrowStale
       PROVE  DataTypeOK'
  BY <1>14 DEF GrowStale, DataTypeOK, eventVars, countVars, driftVars, rowVars, storeVars, cleanVars
<1>15. ASSUME UNCHANGED vars
       PROVE  DataTypeOK'
  BY <1>15 DEF DataTypeOK, vars, eventVars, countVars, driftVars, rowVars, storeVars, cleanVars
<1>. QED
  BY <1>1, <1>2, <1>3, <1>4, <1>5, <1>6, <1>7, <1>8, <1>9, <1>10, <1>11, <1>12, <1>13, <1>14,
     <1>15 DEF Next, RequestStep, CleanerStep, HostStep, WorldStep

\* Every step keeps the types of the handlers' locals.
LEMMA RequestTypeStep == TypeOK /\ [Next]_vars => RequestTypeOK'
<1> SUFFICES ASSUME DataTypeOK, RequestTypeOK, [Next]_vars
             PROVE  RequestTypeOK'
  BY DEF TypeOK
<1> USE ConstantsAssumption DEF MediaIDs
<1>1. ASSUME NEW r \in Requests,
             \/ PresignPut(r)
             \/ UndoReservation(r)
             \/ MarkReady(r)
             \/ MarkReadyNotFound(r)
             \/ DropDuplicateRow(r)
             \/ DeleteForEvent(r)
             \/ Abort(r)
      PROVE  RequestTypeOK'
  <2>1. Finish(r) /\ created' = created
    BY <1>1 DEF PresignPut, UndoReservation, MarkReady, MarkReadyNotFound, DropDuplicateRow,
                DeleteForEvent, Abort, DeleteManyUploads, rowVars
  <2>. QED  BY <2>1, FinishType
<1>2. ASSUME NEW r \in Requests, NEW u \in ClientUploads, CreateUpload(r, u)
      PROVE  RequestTypeOK'
  <2>1. created' = created /\ up' = [up EXCEPT ![r] = u] /\ doomed' = doomed /\ summed' = summed
    BY <1>2 DEF CreateUpload, rowVars, delVars
  <2>2. CASE pc' = [pc EXCEPT ![r] = "reserve"]
    <3>1. md' = md /\ cap' = [cap EXCEPT ![r] = MaxEventBytes]
      BY <1>2, <2>2 DEF CreateUpload, Goto, RequestTypeOK
    <3>2. MaxEventBytes \in Nat
      BY DEF MaxEventBytes, DataTypeOK, LimitRecord
    <3>. QED  BY <2>1, <2>2, <3>1, <3>2 DEF RequestTypeOK, Labels
  <2>3. CASE pc' = [pc EXCEPT ![r] = "sign"]
    <3>1. PICK m \in RowsOf(u) : md' = [md EXCEPT ![r] = m] /\ cap' = cap
      BY <1>2, <2>3 DEF CreateUpload, Goto, RequestTypeOK
    <3>2. m \in 1..created /\ m \in 0..MaxMedia
      BY DEF RowsOf, DataTypeOK
    <3>. QED  BY <2>1, <2>3, <3>1, <3>2 DEF RequestTypeOK, Labels
  <2>. QED  BY <1>2, <2>2, <2>3 DEF CreateUpload, Goto
<1>3. ASSUME NEW r \in Requests, ReserveUpload(r)
      PROVE  RequestTypeOK'
  <2>1. /\ created' = created + 1 /\ created' \in 1..MaxMedia
        /\ md' = [md EXCEPT ![r] = created + 1]
        /\ up' = up /\ cap' = cap /\ doomed' = doomed /\ summed' = summed
        /\ pc' = [pc EXCEPT ![r] = "signNew"]
    BY <1>3 DEF ReserveUpload, Goto, DataTypeOK, delVars
  <2>. QED  BY <2>1 DEF RequestTypeOK, DataTypeOK, Labels
<1>4. ASSUME NEW r \in Requests, ReserveRefused(r)
      PROVE  RequestTypeOK'
  BY <1>4 DEF ReserveRefused, Goto, RequestTypeOK, Labels, rowVars, delVars
<1>5. ASSUME NEW r \in Requests, RefindUpload(r)
      PROVE  RequestTypeOK'
  <2>1. created' = created
    BY <1>5 DEF RefindUpload, rowVars
  <2>2. CASE Finish(r)
    BY <2>1, <2>2, FinishType
  <2>3. CASE \E m \in RowsOf(up[r]) : /\ md' = [md EXCEPT ![r] = m]
                                      /\ Goto(r, "sign")
                                      /\ UNCHANGED <<up, cap, delVars>>
    <3>1. PICK m \in RowsOf(up[r]) : /\ md' = [md EXCEPT ![r] = m]
                                     /\ Goto(r, "sign")
                                     /\ UNCHANGED <<up, cap, delVars>>
      BY <2>3
    <3>2. m \in 1..created /\ m \in 0..MaxMedia
      BY DEF RowsOf, DataTypeOK
    <3>. QED  BY <2>1, <3>1, <3>2, GotoType DEF Labels
  <2>. QED  BY <1>5, <2>2, <2>3 DEF RefindUpload
<1>6. ASSUME NEW r \in Requests,
             PresignFailed(r) \/ MarkReadyDuplicate(r) \/ DropDuplicateObject(r)
      PROVE  RequestTypeOK'
  <2>1. PICK l \in Labels \ {"reserve", "refind", "delete"} : Goto(r, l)
    BY <1>6 DEF PresignFailed, MarkReadyDuplicate, DropDuplicateObject, Labels
  <2>2. /\ created' = created /\ UNCHANGED <<up, cap, delVars>> /\ md' = md
        /\ pc[r] \in {"signNew", "mark", "dropObject"}
    BY <1>6 DEF PresignFailed, MarkReadyDuplicate, DropDuplicateObject, rowVars
  <2>3. md[r] \in 1..created /\ md[r] \in 0..MaxMedia /\ md' = [md EXCEPT ![r] = md[r]]
    BY <2>2 DEF RequestTypeOK
  <2>. QED  BY <2>1, <2>2, <2>3, GotoType
<1>7. ASSUME NEW r \in Requests, NEW m \in MediaIDs, Complete(r, m)
      PROVE  RequestTypeOK'
  <2>1. m \in 1..created /\ m \in 0..MaxMedia
    BY <1>7 DEF Complete, DataTypeOK
  <2>2. /\ created' = created /\ UNCHANGED <<up, cap, delVars>>
        /\ md' = [md EXCEPT ![r] = m] /\ Goto(r, "mark")
    BY <1>7 DEF Complete, rowVars
  <2>. QED  BY <2>1, <2>2, GotoType DEF Labels
<1>8. ASSUME NEW r \in Requests, NEW ids \in SUBSET (1..created), SumDeleted(r, ids)
      PROVE  RequestTypeOK'
  <2>1. /\ pc' = [pc EXCEPT ![r] = "delete"] /\ UNCHANGED <<up, md, cap, created>>
        /\ doomed' = [doomed EXCEPT ![r] = ids]
        /\ summed' = [summed EXCEPT ![r] = ids \cap RowsIn(Curated)]
    BY <1>8 DEF SumDeleted, Goto, rowVars
  <2>2. ids \cap RowsIn(Curated) \subseteq ids
    OBVIOUS
  <2>. QED  BY <2>1, <2>2 DEF RequestTypeOK, Labels
<1>9. ASSUME UNCHANGED <<reqVars, created>>
      PROVE  RequestTypeOK'
  BY <1>9 DEF RequestTypeOK, reqVars, delVars
<1>10. CleanerStep \/ HostStep \/ WorldStep \/ UNCHANGED vars => UNCHANGED <<reqVars, created>>
  BY DEF CleanerStep, HostStep, WorldStep, FindStale, ExpireObjects, ExpireRows, AbortExpire,
         UpdateStatuses, CloseOwned, DeleteOwned, ApplyHotLimits, PutObject,
         GrowStale, DeleteManyUploads, vars, rowVars
<1>. QED
  BY <1>1, <1>2, <1>3, <1>4, <1>5, <1>6, <1>7, <1>8, <1>9, <1>10 DEF Next, RequestStep

\* The types hold initially.
LEMMA TypeInit == Init => TypeOK
BY ConstantsAssumption
   DEF Init, TypeOK, DataTypeOK, RequestTypeOK, MediaIDs, Statuses, Completed, Curated, Labels, LimitRecord, Resources

\* Every behaviour of uploads, clean-up, curation and plan changes keeps the
\* columns and the handlers' locals in their types.
THEOREM TypeCorrect == Spec => []TypeOK
<1>1. Init => TypeOK
  BY TypeInit
<1>2. TypeOK /\ [Next]_vars => TypeOK'
  BY DataTypeStep, RequestTypeStep DEF TypeOK
<1>. QED  BY <1>1, <1>2, PTL DEF Spec

-----------------------------------------------------------------------------
(* Accounting: counters against rows *)

With(st, S) == {m \in MediaIDs : st[m] \in S}

\* Reserved counters are exact, usage is the rows and the drift un and ls, jobs
\* match; no row of the drift still takes part in usage.
Accounts(res, resItems, use, upl, jb, st, ow, un, ls) ==
    /\ res = Held(With(st, {"pending"}), ow)
    /\ \A x \in Resources : resItems[x] = Items(With(st, {"pending"}), x, ow)
    /\ use = Held(With(st, Curated) \cup un, ow)
    /\ \A x \in Resources : upl[x] = Items(With(st, Completed) \cup ls, x, ow)
    /\ jb = With(st, Completed)
    /\ \A m \in un : st[m] \in {"none", "deleted"}
    /\ \A m \in ls : st[m] = "none"

\* Statuses, owners and drift as TypeOK has them.
RowTypes(st, ow, un, ls) ==
    /\ st \in [MediaIDs -> Statuses]
    /\ \A m \in MediaIDs : st[m] # "none" => ow[m] \in ClientUploads
    /\ un \subseteq MediaIDs /\ ls \subseteq MediaIDs
    /\ \A m \in un \cup ls : ow[m] \in ClientUploads

\* A row that left the counters' rows does not come back: the part of the
\* inductive invariant that keeps usage from counting a row twice.
DriftApart ==
    /\ \A m \in unreturned : status[m] \in {"none", "deleted"}
    /\ \A m \in lost : status[m] = "none"

Accounting ==
    ReservedItemsExact /\ ReservedBytesExact /\ UsageExplained /\ ThumbnailOwed /\ DriftApart

\* The accounting of the model in terms of those functions.
LEMMA AccountingDef ==
    Accounting <=> Accounts(reserved, reservedItems, used, uploaded, jobs, status, owner,
                            unreturned, lost)
<1>1. \A S : RowsIn(S) = With(status, S)
  BY DEF RowsIn, With
<1>. QED
  BY <1>1, BytesOfHeld, CountOfItems
     DEF Accounting, ReservedItemsExact, ReservedBytesExact, UsageExplained, ThumbnailOwed,
         DriftApart, Accounts

\* The same in the next state.
LEMMA AccountingDefNext ==
    Accounting' <=> Accounts(reserved', reservedItems', used', uploaded', jobs', status', owner',
                             unreturned', lost')
<1>1. ReservedBytesExact' <=> reserved' = Held(With(status', {"pending"}), owner')
  BY DEF ReservedBytesExact, RowsIn, With, BytesOf, Bytes, SizeOf, Held, Cells
<1>2. ReservedItemsExact' <=>
        \A x \in Resources : reservedItems'[x] = Items(With(status', {"pending"}), x, owner')
  BY DEF ReservedItemsExact, RowsIn, With, CountOf, OfResource, Items, Pick
<1>3. UsageExplained' <=>
        /\ used' = Held(With(status', Curated) \cup unreturned', owner')
        /\ \A x \in Resources : uploaded'[x] = Items(With(status', Completed) \cup lost', x, owner')
  BY DEF UsageExplained, RowsIn, With, BytesOf, Bytes, SizeOf, Held, Cells,
         CountOf, OfResource, Items, Pick
<1>4. ThumbnailOwed' <=> jobs' = With(status', Completed)
  BY DEF ThumbnailOwed, RowsIn, With
<1>5. DriftApart' <=> /\ \A m \in unreturned' : status'[m] \in {"none", "deleted"}
                      /\ \A m \in lost' : status'[m] = "none"
  BY DEF DriftApart
<1>. QED
  BY <1>1, <1>2, <1>3, <1>4, <1>5 DEF Accounting, Accounts

\* A reservation inserts row m for its new owner.
InsertsRow(res, resItems, st, ow, res2, resItems2, st2, ow2, m) ==
    /\ m \in MediaIDs
    /\ st[m] = "none" /\ st2 = [st EXCEPT ![m] = "pending"]
    /\ ow2[m] \in ClientUploads
    /\ \A k \in MediaIDs : k # m => ow2[k] = ow[k]
    /\ res2 = res + File[ow2[m]].size
    /\ \A x \in Resources : resItems2[x] = resItems[x] + Weight(ow2[m], x)

\* ReserveUpload: the row's size and weight are added to what is reserved.
LEMMA AccountsReserve ==
    ASSUME NEW res, NEW resItems, NEW use, NEW upl, NEW jb, NEW st, NEW ow, NEW un, NEW ls,
           NEW res2, NEW resItems2, NEW st2, NEW ow2, NEW m,
           Accounts(res, resItems, use, upl, jb, st, ow, un, ls), RowTypes(st, ow, un, ls),
           InsertsRow(res, resItems, st, ow, res2, resItems2, st2, ow2, m),
           m \notin un \cup ls
    PROVE  Accounts(res2, resItems2, use, upl, jb, st2, ow2, un, ls)
<1> DEFINE P == With(st, {"pending"})
           C == With(st, Curated) \cup un
           D == With(st, Completed) \cup ls
<1> USE DEF RowTypes, InsertsRow
<1>1. /\ With(st2, {"pending"}) = P \cup {m} /\ m \notin P
      /\ With(st2, Curated) = With(st, Curated) /\ With(st2, Completed) = With(st, Completed)
      /\ m \notin C /\ m \notin D
  BY DEF With, Curated, Completed
<1>2. P \subseteq MediaIDs /\ C \subseteq MediaIDs /\ D \subseteq MediaIDs
  BY DEF With
<1>3. \A k \in P : ow[k] \in ClientUploads /\ ow2[k] \in ClientUploads /\ ow2[k] = ow[k]
  BY <1>1, <1>2 DEF With
<1>4. (\A k \in C : ow2[k] = ow[k]) /\ (\A k \in D : ow2[k] = ow[k])
  BY <1>1, <1>2
<1>9. /\ \A k \in un : st2[k] \in {"none", "deleted"}
      /\ \A k \in ls : st2[k] = "none"
  BY <1>2 DEF Accounts
<1>10. /\ With(st2, Curated) \cup un = C /\ With(st2, Completed) \cup ls = D
       /\ jb = With(st2, Completed)
  BY <1>1 DEF Accounts
<1>11. /\ res2 = Held(P, ow) + File[ow2[m]].size
       /\ \A x \in Resources : resItems2[x] = Items(P, x, ow) + Weight(ow2[m], x)
       /\ use = Held(C, ow)
       /\ \A x \in Resources : upl[x] = Items(D, x, ow)
  BY DEF Accounts
<1>13. m \in MediaIDs /\ ow2[m] \in ClientUploads
  OBVIOUS
<1> HIDE DEF P, C, D, RowTypes, InsertsRow
<1>5. Held(P \cup {m}, ow2) = Held(P, ow) + File[ow2[m]].size
  <2>1. Held(P \cup {m}, ow2) = Held(P, ow2) + File[ow2[m]].size
    BY <1>1, <1>2, <1>3, <1>13, HeldAdd
  <2>2. Held(P, ow2) = Held(P, ow)
    BY <1>3, HeldAgree
  <2>. QED  BY <2>1, <2>2
<1>6. \A x : Items(P \cup {m}, x, ow2) = Items(P, x, ow) + Weight(ow2[m], x)
  <2> TAKE x
  <2>1. Items(P \cup {m}, x, ow2) = Items(P, x, ow2) + Weight(ow2[m], x)
    BY <1>1, <1>2, <1>13, ItemsAdd
  <2>2. Items(P, x, ow2) = Items(P, x, ow)
    BY <1>3, ItemsAgree
  <2>. QED  BY <2>1, <2>2
<1>7. Held(C, ow2) = Held(C, ow)
  BY <1>4, HeldAgree
<1>8. \A x : Items(D, x, ow2) = Items(D, x, ow)
  BY <1>4, ItemsAgree
<1>12. With(st2, {"pending"}) = P \cup {m}
  BY <1>1
<1>. QED  BY <1>5, <1>6, <1>7, <1>8, <1>9, <1>10, <1>11, <1>12 DEF Accounts

\* Rows ids are removed: what the pending ones among them held is given back,
\* and the others become drift.
TakesRows(res, resItems, st, ow, un, ls, res2, resItems2, st2, un2, ls2, ids) ==
    /\ ids \subseteq MediaIDs
    /\ st2 = [m \in MediaIDs |-> IF m \in ids THEN "none" ELSE st[m]]
    /\ un2 = un \cup (ids \cap With(st, Curated))
    /\ ls2 = ls \cup (ids \cap With(st, Completed))
    /\ res2 = AtLeastZero(res - Held(ids \cap With(st, {"pending"}), ow))
    /\ \A x \in Resources :
         resItems2[x] = AtLeastZero(resItems[x] - Items(ids \cap With(st, {"pending"}), x, ow))

\* DeleteManyUploads keeps the accounts, whatever the statuses of the rows.
LEMMA AccountsRemove ==
    ASSUME NEW res, NEW resItems, NEW use, NEW upl, NEW jb, NEW st, NEW ow, NEW un, NEW ls,
           NEW res2, NEW resItems2, NEW st2, NEW un2, NEW ls2, NEW ids,
           Accounts(res, resItems, use, upl, jb, st, ow, un, ls), RowTypes(st, ow, un, ls),
           TakesRows(res, resItems, st, ow, un, ls, res2, resItems2, st2, un2, ls2, ids)
    PROVE  Accounts(res2, resItems2, use, upl, jb \ ids, st2, ow, un2, ls2)
<1> DEFINE P == With(st, {"pending"})
           C == With(st, Curated) \cup un
           D == With(st, Completed) \cup ls
           T == ids \cap P
<1> USE DEF TakesRows
<1>1. /\ With(st2, {"pending"}) = P \ T
      /\ With(st2, Completed) = With(st, Completed) \ ids
  BY DEF With, Completed, Curated
<1>2. With(st2, Curated) \cup un2 = C
  BY DEF With, Curated
<1>3. With(st2, Completed) \cup ls2 = D
  BY DEF With, Completed, Curated
<1>4. /\ \A m \in un2 : st2[m] \in {"none", "deleted"}
      /\ \A m \in ls2 : st2[m] = "none"
  BY DEF Accounts, RowTypes, With
<1>5. /\ res = Held(P, ow)
      /\ \A x \in Resources : resItems[x] = Items(P, x, ow)
      /\ use = Held(C, ow)
      /\ \A x \in Resources : upl[x] = Items(D, x, ow)
      /\ jb \ ids = With(st2, Completed)
  BY <1>1 DEF Accounts
<1>6. P \subseteq MediaIDs /\ T \subseteq P /\ \A k \in P : ow[k] \in ClientUploads
  BY DEF With, RowTypes
<1>10. /\ res2 = AtLeastZero(res - Held(T, ow))
       /\ \A x \in Resources : resItems2[x] = AtLeastZero(resItems[x] - Items(T, x, ow))
  OBVIOUS
<1> HIDE DEF P, C, D, T, TakesRows
<1>7. AtLeastZero(res - Held(T, ow)) = Held(P \ T, ow)
  <2>1. /\ Held(P \ T, ow) = Held(P, ow) - Held(T, ow) /\ Held(T, ow) <= Held(P, ow)
        /\ Held(P, ow) \in Nat /\ Held(T, ow) \in Nat
    BY <1>6, HeldRemove, HeldFinite
  <2>. QED  BY <1>5, <2>1 DEF AtLeastZero
<1>8. \A x \in Resources : AtLeastZero(resItems[x] - Items(T, x, ow)) = Items(P \ T, x, ow)
  <2> TAKE x \in Resources
  <2>1. /\ Items(P \ T, x, ow) = Items(P, x, ow) - Items(T, x, ow)
        /\ Items(T, x, ow) <= Items(P, x, ow)
        /\ Items(P, x, ow) \in Nat /\ Items(T, x, ow) \in Nat
    BY <1>6, ItemsRemove
  <2>. QED  BY <1>5, <2>1 DEF AtLeastZero
<1>. QED  BY <1>1, <1>2, <1>3, <1>4, <1>5, <1>7, <1>8, <1>10 DEF Accounts

\* Pending row m is confirmed: its reservation becomes usage.
LEMMA AccountsReady ==
    ASSUME NEW res, NEW resItems, NEW use, NEW upl, NEW jb, NEW st, NEW ow, NEW un, NEW ls,
           NEW st2,
           Accounts(res, resItems, use, upl, jb, st, ow, un, ls), RowTypes(st, ow, un, ls),
           NEW m \in MediaIDs, st[m] = "pending", st2 = [st EXCEPT ![m] = "ready"],
           NEW res2, NEW resItems2, NEW use2, NEW upl2,
           res2 = AtLeastZero(res - File[ow[m]].size), use2 = use + File[ow[m]].size,
           \A x \in Resources :
               /\ resItems2[x] = AtLeastZero(resItems[x] - Weight(ow[m], x))
               /\ upl2[x] = upl[x] + Weight(ow[m], x)
    PROVE  Accounts(res2, resItems2, use2, upl2, jb \cup {m}, st2, ow, un, ls)
<1> DEFINE P == With(st, {"pending"})
           C == With(st, Curated) \cup un
           D == With(st, Completed) \cup ls
           n == File[ow[m]].size
           Q == P \ {m}
<1>0. m \notin un /\ m \notin ls
  BY DEF Accounts
<1>1. /\ With(st2, {"pending"}) = Q /\ m \in P /\ m \notin Q /\ P = Q \cup {m}
      /\ With(st2, Curated) = With(st, Curated) \cup {m} /\ m \notin C
      /\ With(st2, Completed) = With(st, Completed) \cup {m} /\ m \notin D
  BY <1>0 DEF With, Curated, Completed, RowTypes
<1>2. P \subseteq MediaIDs /\ Q \subseteq MediaIDs /\ C \subseteq MediaIDs /\ D \subseteq MediaIDs
  BY DEF With, RowTypes
<1>3. /\ \A k \in Q : ow[k] \in ClientUploads
      /\ \A k \in C : ow[k] \in ClientUploads
      /\ ow[m] \in ClientUploads
  BY DEF With, RowTypes, Curated
<1>4. /\ res = Held(P, ow)
      /\ \A x \in Resources : resItems[x] = Items(P, x, ow)
      /\ use = Held(C, ow)
      /\ \A x \in Resources : upl[x] = Items(D, x, ow)
      /\ jb = With(st, Completed)
  BY DEF Accounts
<1>9. /\ \A k \in un : st2[k] \in {"none", "deleted"}
      /\ \A k \in ls : st2[k] = "none"
  BY <1>0 DEF Accounts, RowTypes
<1>10. With(st2, Curated) \cup un = C \cup {m} /\ With(st2, Completed) \cup ls = D \cup {m}
  BY <1>1
<1>n. n \in Nat
  BY <1>3, ConstantsAssumption
<1>11. m \notin D /\ m \notin C
  BY <1>1
<1> HIDE DEF P, C, D, Q
<1>5. Held(P, ow) = Held(Q, ow) + n /\ Held(Q, ow) \in Nat
  BY <1>1, <1>2, <1>3, HeldAdd, HeldFinite
<1>6. Held(C \cup {m}, ow) = Held(C, ow) + n /\ Held(C, ow) \in Nat
  BY <1>1, <1>2, <1>3, HeldAdd, HeldFinite
<1> HIDE DEF n
<1>7. AtLeastZero(res - n) = Held(Q, ow) /\ use + n = Held(C \cup {m}, ow)
  BY <1>4, <1>5, <1>6, <1>n DEF AtLeastZero
<1>8. \A x \in Resources :
         /\ AtLeastZero(resItems[x] - Weight(ow[m], x)) = Items(Q, x, ow)
         /\ upl[x] + Weight(ow[m], x) = Items(D \cup {m}, x, ow)
  <2> TAKE x \in Resources
  <2>1. Items(P, x, ow) = Items(Q, x, ow) + Weight(ow[m], x) /\ Items(Q, x, ow) \in Nat
    BY <1>1, <1>2, ItemsAdd
  <2>2. Items(D \cup {m}, x, ow) = Items(D, x, ow) + Weight(ow[m], x) /\ Items(D, x, ow) \in Nat
    BY <1>2, <1>11, ItemsAdd
  <2>3. Weight(ow[m], x) \in Nat
    BY WeightType
  <2>4. upl[x] = Items(D, x, ow) /\ resItems[x] = Items(P, x, ow)
    BY <1>4
  <2>. QED  BY <2>1, <2>2, <2>3, <2>4 DEF AtLeastZero
<1>. QED  BY <1>1, <1>4, <1>7, <1>8, <1>9, <1>10 DEF Accounts, n

\* The host deletes rows ids, all of them curated; what an earlier SUM saw of
\* them is given back, and the others become drift.
LEMMA AccountsDelete ==
    ASSUME NEW res, NEW resItems, NEW use, NEW upl, NEW jb, NEW st, NEW ow, NEW un, NEW ls,
           NEW st2, NEW un2, NEW ids, NEW seen,
           Accounts(res, resItems, use, upl, jb, st, ow, un, ls), RowTypes(st, ow, un, ls),
           ids \subseteq With(st, Curated), seen \subseteq ids,
           st2 = [m \in MediaIDs |-> IF m \in ids THEN "deleted" ELSE st[m]],
           un2 = un \cup (ids \ seen)
    PROVE  Accounts(res, resItems, AtLeastZero(use - Held(seen, ow)), upl, jb, st2, ow, un2, ls)
<1> DEFINE C == With(st, Curated) \cup un
<1>1. ids \cap un = {} /\ ids \cap ls = {} /\ ids \subseteq MediaIDs
  BY DEF Accounts, With, Curated
<1>2. /\ With(st2, {"pending"}) = With(st, {"pending"})
      /\ With(st2, Completed) = With(st, Completed)
      /\ With(st2, Curated) = With(st, Curated) \ ids
  BY DEF With, Curated, Completed
<1>3. With(st2, Curated) \cup un2 = C \ seen /\ seen \subseteq C
  BY <1>1, <1>2
<1>4. C \subseteq MediaIDs /\ \A k \in C : ow[k] \in ClientUploads
  BY DEF With, RowTypes, Curated
<1>5. /\ \A m \in un2 : st2[m] \in {"none", "deleted"}
      /\ \A m \in ls : st2[m] = "none"
  BY <1>1 DEF Accounts, RowTypes
<1>6. use = Held(C, ow)
  BY DEF Accounts
<1> HIDE DEF C
<1>7. /\ Held(C \ seen, ow) = Held(C, ow) - Held(seen, ow) /\ Held(seen, ow) <= Held(C, ow)
      /\ Held(C, ow) \in Nat /\ Held(seen, ow) \in Nat
  <2>1. seen \subseteq MediaIDs /\ \A k \in seen : ow[k] \in ClientUploads
    BY <1>3, <1>4
  <2>. QED  BY <1>3, <1>4, <2>1, HeldRemove, HeldFinite
<1>8. AtLeastZero(use - Held(seen, ow)) = Held(C \ seen, ow)
  BY <1>6, <1>7 DEF AtLeastZero
<1>. QED  BY <1>2, <1>3, <1>5, <1>8 DEF Accounts

\* Curation moves rows between ready, featured and hidden.
LEMMA AccountsCurate ==
    ASSUME NEW res, NEW resItems, NEW use, NEW upl, NEW jb, NEW st, NEW ow, NEW un, NEW ls,
           NEW st2,
           Accounts(res, resItems, use, upl, jb, st, ow, un, ls), RowTypes(st, ow, un, ls),
           NEW changed, \A m \in changed : st[m] \in Curated, NEW s \in Curated,
           st2 = [m \in MediaIDs |-> IF m \in changed THEN s ELSE st[m]]
    PROVE  Accounts(res, resItems, use, upl, jb, st2, ow, un, ls)
<1>1. /\ With(st2, {"pending"}) = With(st, {"pending"})
      /\ With(st2, Completed) = With(st, Completed)
      /\ With(st2, Curated) = With(st, Curated)
  BY DEF With, Curated, Completed
<1>2. /\ \A m \in un : st2[m] \in {"none", "deleted"}
      /\ \A m \in ls : st2[m] = "none"
  BY DEF Accounts, RowTypes, Curated
<1>. QED  BY <1>1, <1>2 DEF Accounts

\* The type invariant gives what the lemmas above ask of the rows.
LEMMA RowTypesHold == TypeOK => RowTypes(status, owner, unreturned, lost)
<1> SUFFICES ASSUME TypeOK
             PROVE  RowTypes(status, owner, unreturned, lost)
  OBVIOUS
<1>1. 1..created \subseteq MediaIDs
  BY ConstantsAssumption DEF TypeOK, DataTypeOK, MediaIDs
<1>2. \A m \in 1..created : owner[m] \in ClientUploads
  BY <1>1 DEF TypeOK, DataTypeOK
<1>. QED  BY <1>1, <1>2 DEF TypeOK, DataTypeOK, RowTypes, MediaIDs

\* An id in use is a row id.
LEMMA CreatedAreIDs == TypeOK => 1..created \subseteq MediaIDs
<1>1. TypeOK => created \in 0..MaxMedia
  BY DEF TypeOK, DataTypeOK
<1>. QED  BY <1>1, ConstantsAssumption DEF MediaIDs

\* Steps that touch no row, counter or job.
RequestBookkeeping ==
    \E r \in Requests :
        \/ \E u \in ClientUploads : CreateUpload(r, u)
        \/ ReserveRefused(r)
        \/ RefindUpload(r)
        \/ PresignPut(r)
        \/ PresignFailed(r)
        \/ \E m \in MediaIDs : Complete(r, m)
        \/ MarkReadyNotFound(r)
        \/ MarkReadyDuplicate(r)
        \/ DropDuplicateObject(r)
        \/ \E ids \in SUBSET (1..created) : SumDeleted(r, ids)
        \/ Abort(r)

OtherBookkeeping ==
    \/ FindStale
    \/ \E unremoved \in SUBSET batch : ExpireObjects(unremoved)
    \/ AbortExpire
    \/ CloseOwned
    \/ DeleteOwned
    \/ \E p \in Plans : ApplyHotLimits(p)
    \/ WorldStep
    \/ UNCHANGED vars

\* Such steps leave the counters, the rows and the jobs alone.
LEMMA BookkeepingUnchanged ==
    RequestBookkeeping \/ OtherBookkeeping => UNCHANGED <<countVars, rowVars>>
<1>1. RequestBookkeeping => UNCHANGED <<countVars, rowVars>>
  BY DEF RequestBookkeeping, CreateUpload, ReserveRefused, RefindUpload, PresignPut, PresignFailed,
         Complete, MarkReadyNotFound, MarkReadyDuplicate, DropDuplicateObject, SumDeleted, Abort
<1>2. OtherBookkeeping => UNCHANGED <<countVars, rowVars>>
  BY DEF OtherBookkeeping, FindStale, ExpireObjects, AbortExpire, CloseOwned, DeleteOwned,
         ApplyHotLimits, WorldStep, PutObject, GrowStale, vars
<1>. QED  BY <1>1, <1>2

\* Steps that remove rows.
RemovesRows(ids) == ids \subseteq 1..created /\ DeleteManyUploads(ids)

\* Every step is one of seven kinds.
LEMMA StepKinds ==
    ASSUME TypeOK, [Next]_vars
    PROVE  \/ RequestBookkeeping \/ OtherBookkeeping
           \/ \E r \in Requests : ReserveUpload(r)
           \/ \E r \in Requests : MarkReady(r)
           \/ (\E ids : RemovesRows(ids)) /\ UNCHANGED eventVars
           \/ \E ids \in SUBSET (1..created), s \in Curated : UpdateStatuses(ids, s)
           \/ \E r \in Requests : DeleteForEvent(r)
<1>1. ASSUME NEW r \in Requests, UndoReservation(r) \/ DropDuplicateRow(r)
      PROVE  RemovesRows({md[r]}) /\ UNCHANGED eventVars
  BY <1>1 DEF UndoReservation, DropDuplicateRow, RemovesRows, TypeOK, RequestTypeOK
<1>2. ASSUME ExpireRows
      PROVE  RemovesRows(batch) /\ UNCHANGED eventVars
  BY <1>2 DEF ExpireRows, RemovesRows, TypeOK, DataTypeOK
<1>. QED
  BY <1>1, <1>2 DEF Next, RequestStep, CleanerStep, HostStep, RequestBookkeeping, OtherBookkeeping

\* Every step keeps the accounts.
LEMMA AccountingStep == TypeOK /\ Accounting /\ [Next]_vars => Accounting'
<1> SUFFICES ASSUME TypeOK, Accounting, [Next]_vars
             PROVE  Accounting'
  OBVIOUS
<1>1. Accounts(reserved, reservedItems, used, uploaded, jobs, status, owner, unreturned, lost)
  BY AccountingDef
<1>2. SUFFICES Accounts(reserved', reservedItems', used', uploaded', jobs', status', owner',
                      unreturned', lost')
  BY AccountingDefNext
<1>3. RowTypes(status, owner, unreturned, lost)
  BY RowTypesHold
<1>4. CASE RequestBookkeeping \/ OtherBookkeeping
  BY <1>1, <1>4, BookkeepingUnchanged DEF countVars, driftVars, rowVars
<1>5. ASSUME NEW r \in Requests, ReserveUpload(r)
      PROVE  Accounts(reserved', reservedItems', used', uploaded', jobs', status', owner',
                      unreturned', lost')
  <2> DEFINE u == up[r]
             m == created + 1
  <2>1. u \in ClientUploads /\ m \in MediaIDs /\ status[m] = "none" /\ owner \in [MediaIDs -> ClientUploads \cup {NoUpload}]
    BY <1>5, ConstantsAssumption DEF ReserveUpload, TypeOK, RequestTypeOK, DataTypeOK, MediaIDs
  <2>2. /\ reserved' = reserved + File[u].size
        /\ reservedItems' = [x \in Resources |-> reservedItems[x] + Weight(u, x)]
        /\ status' = [status EXCEPT ![m] = "pending"]
        /\ owner' = [owner EXCEPT ![m] = u]
        /\ used' = used /\ uploaded' = uploaded /\ jobs' = jobs
        /\ unreturned' = unreturned /\ lost' = lost
    BY <1>5 DEF ReserveUpload, driftVars
  <2>5. m \notin unreturned \cup lost
    BY DEF TypeOK, DataTypeOK
  <2> HIDE DEF u, m
  <2>3. owner'[m] = u /\ \A k \in MediaIDs : k # m => owner'[k] = owner[k]
    BY <2>1, <2>2
  <2>4. InsertsRow(reserved, reservedItems, status, owner, reserved', reservedItems', status', owner', m)
    BY <2>1, <2>2, <2>3 DEF InsertsRow
  <2>. QED  BY <1>1, <1>3, <2>2, <2>4, <2>5, AccountsReserve
<1>6. ASSUME NEW r \in Requests, MarkReady(r)
      PROVE  Accounts(reserved', reservedItems', used', uploaded', jobs', status', owner',
                      unreturned', lost')
  <2> DEFINE m == md[r]
  <2>1. m \in MediaIDs /\ status[m] = "pending"
    <3>1. md[r] \in 1..created /\ status[md[r]] = "pending"
      BY <1>6 DEF MarkReady, TypeOK, RequestTypeOK
    <3>. QED  BY <3>1, CreatedAreIDs
  <2>2. /\ reserved' = AtLeastZero(reserved - File[owner[m]].size)
        /\ reservedItems' = [x \in Resources |-> AtLeastZero(reservedItems[x] - Weight(owner[m], x))]
        /\ used' = used + File[owner[m]].size
        /\ uploaded' = [x \in Resources |-> uploaded[x] + Weight(owner[m], x)]
        /\ jobs' = jobs \cup {m}
        /\ status' = [status EXCEPT ![m] = "ready"]
        /\ owner' = owner /\ unreturned' = unreturned /\ lost' = lost
    BY <1>6 DEF MarkReady, SizeOf, driftVars
  <2> HIDE DEF m
  <2>3. \A x \in Resources :
           /\ reservedItems'[x] = AtLeastZero(reservedItems[x] - Weight(owner[m], x))
           /\ uploaded'[x] = uploaded[x] + Weight(owner[m], x)
    BY <2>2
  <2>. QED  BY <1>1, <1>3, <2>1, <2>2, <2>3, AccountsReady
<1>7. ASSUME NEW ids, RemovesRows(ids)
      PROVE  Accounts(reserved', reservedItems', used', uploaded', jobs', status', owner',
                      unreturned', lost')
  <2>1. ids \subseteq MediaIDs
    BY <1>7, CreatedAreIDs DEF RemovesRows
  <2>2. \A S : RowsIn(S) = With(status, S)
    BY DEF RowsIn, With
  <2>3. /\ reserved' = AtLeastZero(reserved - Held(ids \cap With(status, {"pending"}), owner))
        /\ \A x \in Resources : reservedItems'[x]
             = AtLeastZero(reservedItems[x] - Items(ids \cap With(status, {"pending"}), x, owner))
    BY <1>7, <2>2, BytesOfHeld, CountOfItems DEF RemovesRows, DeleteManyUploads
  <2>4. /\ status' = [m \in MediaIDs |-> IF m \in ids THEN "none" ELSE status[m]]
        /\ unreturned' = unreturned \cup (ids \cap With(status, Curated))
        /\ lost' = lost \cup (ids \cap With(status, Completed))
        /\ jobs' = jobs \ ids /\ used' = used /\ uploaded' = uploaded /\ owner' = owner
    BY <1>7, <2>2 DEF RemovesRows, DeleteManyUploads
  <2>5. TakesRows(reserved, reservedItems, status, owner, unreturned, lost,
                  reserved', reservedItems', status', unreturned', lost', ids)
    BY <2>1, <2>3, <2>4 DEF TakesRows
  <2>. QED  BY <1>1, <1>3, <2>4, <2>5, AccountsRemove
<1>8. ASSUME NEW ids \in SUBSET (1..created), NEW s \in Curated, UpdateStatuses(ids, s)
      PROVE  Accounts(reserved', reservedItems', used', uploaded', jobs', status', owner',
                      unreturned', lost')
  <2> DEFINE changed == {m \in ids : status[m] \in Curated}
  <2>1. /\ status' = [m \in MediaIDs |-> IF m \in changed THEN s ELSE status[m]]
        /\ UNCHANGED <<countVars, owner, jobs>>
    BY <1>8 DEF UpdateStatuses
  <2>2. \A m \in changed : status[m] \in Curated
    OBVIOUS
  <2> HIDE DEF changed
  <2>. QED  BY <1>1, <1>3, <2>1, <2>2, AccountsCurate DEF countVars, driftVars
<1>9. ASSUME NEW r \in Requests, DeleteForEvent(r)
      PROVE  Accounts(reserved', reservedItems', used', uploaded', jobs', status', owner',
                      unreturned', lost')
  <2> DEFINE ids == doomed[r]
             seen == summed[r]
  <2>1. seen \subseteq ids
    BY DEF TypeOK, RequestTypeOK
  <2>2. /\ ids \subseteq With(status, Curated)
        /\ status' = [m \in MediaIDs |-> IF m \in ids THEN "deleted" ELSE status[m]]
        /\ used' = AtLeastZero(used - Held(seen, owner))
        /\ unreturned' = unreturned \cup (ids \ seen)
        /\ UNCHANGED <<reserved, uploaded, reservedItems, owner, jobs, lost>>
    BY <1>9, BytesOfHeld DEF DeleteForEvent, With, RowsIn
  <2> HIDE DEF ids, seen
  <2>. QED  BY <1>1, <1>3, <2>1, <2>2, AccountsDelete
<1>. QED  BY <1>4, <1>5, <1>6, <1>7, <1>8, <1>9, StepKinds

\* The counters start at zero, without rows.
LEMMA AccountingInit == Init => Accounting
<1> SUFFICES ASSUME Init
             PROVE  Accounting
  OBVIOUS
<1>1. /\ RowsIn({"pending"}) = {} /\ RowsIn(Curated) = {} /\ RowsIn(Completed) = {}
  BY DEF Init, RowsIn, Curated, Completed
<1>2. BytesOf({}) = 0 /\ \A x : CountOf({}, x) = 0
  BY FS_EmptySet DEF BytesOf, Bytes, CountOf, OfResource
<1>. QED
  BY <1>1, <1>2 DEF Init, Accounting, ReservedItemsExact, ReservedBytesExact, UsageExplained, ThumbnailOwed, DriftApart

\* However requests race, retry, fail half way or are cleaned up, the reserved
\* counters equal the pending rows in bytes, items, photos and videos, usage is
\* exactly the rows and the two kinds of drift, counted once, and each completed
\* row has its job.
THEOREM AccountingHolds ==
    Spec => [](CountersMatchRows /\ ThumbnailOwed)
<1>1. Init => TypeOK /\ Accounting
  BY TypeInit, AccountingInit
<1>2. TypeOK /\ Accounting /\ [Next]_vars => TypeOK' /\ Accounting'
  BY DataTypeStep, RequestTypeStep, AccountingStep DEF TypeOK
<1>3. Accounting => CountersMatchRows /\ ThumbnailOwed
  BY DEF Accounting, CountersMatchRows
<1>. QED  BY <1>1, <1>2, <1>3, PTL DEF Spec

\* A photo or video that was confirmed has its job, whatever stopped since
\* (media_repository.go, the confirmation and the job are one transaction).
THEOREM ThumbnailsFollow == Spec => []ThumbnailOwed
BY AccountingHolds, PTL
=============================================================================
