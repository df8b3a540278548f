-------------------------- MODULE MediaJobProofs ---------------------------
(***************************************************************************)
(* The claim protocol of MediaJob, proved for any number of workers, jobs, *)
(* attempts and process stops.                                             *)
(***************************************************************************)
EXTENDS MediaJob, TLAPS

-----------------------------------------------------------------------------
(* Goroutines, pointwise *)

StepType == step \in [Workers -> [Media -> Steps]]
TryType == try \in [Workers -> [Media -> Nat]]

\* One goroutine moves, the others do not.
LEMMA SetStepPointwise ==
    ASSUME StepType, NEW w \in Workers, NEW m \in Media, NEW s \in Steps, SetStep(w, m, s)
    PROVE  /\ StepType'
           /\ \A v \in Workers, n \in Media :
                 step'[v][n] = IF v = w /\ n = m THEN s ELSE step[v][n]
BY DEF StepType, SetStep

\* A settled goroutine ends and its job's row, if any, gets the outcome.
LEMMA SettlePointwise ==
    ASSUME TypeOK, NEW w \in Workers, NEW m \in Media, NEW s, Settle(w, m, s)
    PROVE  /\ StepType' /\ TryType'
           /\ \A v \in Workers, n \in Media :
                 /\ step'[v][n] = IF v = w /\ n = m THEN "none" ELSE step[v][n]
                 /\ step'[v][n] # "none" => try'[v][n] = try[v][n]
           /\ \A n \in Media :
                 job'[n] = IF n = m THEN (IF job[m] = "none" THEN "none" ELSE s) ELSE job[n]
           /\ UNCHANGED <<row, ready, stored, attempts, lost>>
<1>1. SetStep(w, m, "none") /\ StepType /\ "none" \in Steps
  BY DEF Settle, TypeOK, StepType, Steps
<1>2. /\ StepType'
      /\ \A v \in Workers, n \in Media :
            step'[v][n] = IF v = w /\ n = m THEN "none" ELSE step[v][n]
  BY <1>1, SetStepPointwise
<1>3. /\ TryType'
      /\ \A v \in Workers, n \in Media : ~(v = w /\ n = m) => try'[v][n] = try[v][n]
  BY DEF Settle, TypeOK, TryType
<1>4. \A n \in Media :
         job'[n] = IF n = m THEN (IF job[m] = "none" THEN "none" ELSE s) ELSE job[n]
  BY DEF Settle, TypeOK
<1>. QED  BY <1>2, <1>3, <1>4 DEF Settle, mediaVars

\* A claim starts a goroutine for each job of the batch.
LEMMA ClaimPointwise ==
    ASSUME TypeOK, NEW w \in Workers, NEW batch \in SUBSET Media, ClaimBatch(w, batch)
    PROVE  /\ StepType' /\ TryType'
           /\ \A n \in Media : step[w][n] = "none"
           /\ \A n \in batch : job[n] = "queued"
           /\ \A v \in Workers, n \in Media :
                 /\ step'[v][n] = IF v = w /\ n \in batch THEN "run" ELSE step[v][n]
                 /\ try'[v][n] = IF v # w THEN try[v][n]
                                 ELSE IF n \in batch THEN attempts[n] + 1 ELSE 0
           /\ \A n \in Media :
                 /\ job'[n] = IF n \in batch THEN "processing" ELSE job[n]
                 /\ attempts'[n] = IF n \in batch THEN attempts[n] + 1 ELSE attempts[n]
           /\ job' \in [Media -> {"none", "queued", "processing", "done", "failed"}]
           /\ attempts' \in [Media -> Nat]
           /\ UNCHANGED <<row, ready, stored, due, lost>>
<1>1. \A n \in Media : step[w][n] = "none"
  BY DEF ClaimBatch, Running
<1>2. \A n \in batch : job[n] = "queued"
  BY DEF ClaimBatch, Claimable
<1>3. /\ StepType'
      /\ \A v \in Workers, n \in Media :
            step'[v][n] = IF v = w /\ n \in batch THEN "run" ELSE step[v][n]
  BY <1>1 DEF ClaimBatch, TypeOK, StepType, Steps
<1>4. /\ TryType'
      /\ \A v \in Workers, n \in Media :
            try'[v][n] = IF v # w THEN try[v][n]
                         ELSE IF n \in batch THEN attempts[n] + 1 ELSE 0
  BY DEF ClaimBatch, TypeOK, TryType
<1>5. /\ \A n \in Media :
            /\ job'[n] = IF n \in batch THEN "processing" ELSE job[n]
            /\ attempts'[n] = IF n \in batch THEN attempts[n] + 1 ELSE attempts[n]
      /\ job' \in [Media -> {"none", "queued", "processing", "done", "failed"}]
      /\ attempts' \in [Media -> Nat]
  BY DEF ClaimBatch, TypeOK
<1>. QED  BY <1>1, <1>2, <1>3, <1>4, <1>5 DEF ClaimBatch, mediaVars

\* A goroutine that is not settled yet moves on within its job.
Moves(w, m) ==
    \/ GenerateThumbnail(w, m)
    \/ PutThumbnail(w, m)
    \/ UpdateProcessingResult(w, m)

\* Goroutines end without an outcome: one, or all of a process.
LEMMA LossPointwise ==
    ASSUME TypeOK, NEW w \in Workers,
           (\E m \in Media : OutcomeNotRecorded(w, m)) \/ StopProcess(w)
    PROVE  /\ StepType' /\ TryType' /\ lost' \subseteq Media
           /\ \A v \in Workers, n \in Media :
                 \/ step'[v][n] = "none"
                 \/ step'[v][n] = step[v][n] /\ try'[v][n] = try[v][n]
           /\ UNCHANGED <<mediaVars, jobVars>>
<1>1. ASSUME NEW m \in Media, OutcomeNotRecorded(w, m)
      PROVE  /\ StepType' /\ TryType' /\ lost' \subseteq Media
             /\ \A v \in Workers, n \in Media :
                   \/ step'[v][n] = "none"
                   \/ step'[v][n] = step[v][n] /\ try'[v][n] = try[v][n]
             /\ UNCHANGED <<mediaVars, jobVars>>
  <2>1. SetStep(w, m, "none") /\ StepType /\ "none" \in Steps
    BY <1>1 DEF OutcomeNotRecorded, TypeOK, StepType, Steps
  <2>2. /\ StepType'
        /\ \A v \in Workers, n \in Media :
              step'[v][n] = IF v = w /\ n = m THEN "none" ELSE step[v][n]
    BY <2>1, SetStepPointwise
  <2>3. /\ TryType'
        /\ \A v \in Workers, n \in Media : ~(v = w /\ n = m) => try'[v][n] = try[v][n]
    BY <1>1 DEF OutcomeNotRecorded, TypeOK, TryType
  <2>4. lost' \subseteq Media
    BY <1>1 DEF OutcomeNotRecorded, TypeOK
  <2>. QED  BY <1>1, <2>2, <2>3, <2>4 DEF OutcomeNotRecorded
<1>2. ASSUME StopProcess(w)
      PROVE  /\ StepType' /\ TryType' /\ lost' \subseteq Media
             /\ \A v \in Workers, n \in Media :
                   \/ step'[v][n] = "none"
                   \/ step'[v][n] = step[v][n] /\ try'[v][n] = try[v][n]
             /\ UNCHANGED <<mediaVars, jobVars>>
  <2>1. lost' \subseteq Media
    BY <1>2 DEF StopProcess, Running, TypeOK
  <2>. QED  BY <1>2, <2>1 DEF StopProcess, TypeOK, StepType, TryType, Steps
<1>. QED  BY <1>1, <1>2

\* What a moving goroutine can do to the row, the object and itself.
LEMMA MovePointwise ==
    ASSUME TypeOK, NEW w \in Workers, NEW m \in Media, Moves(w, m)
    PROVE  /\ StepType' /\ step[w][m] # "none" /\ step'[w][m] \in {"put", "persist", "done", "fail"}
           /\ \A v \in Workers, n \in Media : ~(v = w /\ n = m) => step'[v][n] = step[v][n]
           /\ ready' \in [Media -> BOOLEAN] /\ stored' \in [Media -> BOOLEAN]
           /\ \A n \in Media : stored[n] => stored'[n]
           /\ \A n \in Media : n # m => ready'[n] = ready[n]
           /\ ready[m] => ready'[m]
           /\ step'[w][m] = "persist" => stored'[m]
           /\ ready'[m] => ready[m] \/ step[w][m] = "persist"
           /\ step'[w][m] = "done" =>
                 ready'[m] \/ m \in Undecodable \/ row[m] # "curated" \/ StreamFails
           /\ UNCHANGED <<row, jobVars, try, lost>>
<1>0. StepType /\ {"put", "persist", "done", "fail"} \subseteq Steps
  BY DEF TypeOK, StepType, Steps
<1>1. ASSUME GenerateThumbnail(w, m)
      PROVE  /\ step[w][m] = "run"
             /\ UNCHANGED <<mediaVars, jobVars, try, lost>>
             /\ \/ SetStep(w, m, "fail")
                \/ SetStep(w, m, "put")
                \/ /\ SetStep(w, m, "done")
                   /\ row[m] = "none" \/ ready[m] \/ m \in Undecodable \/ StreamFails
  BY <1>1 DEF GenerateThumbnail
<1>2. ASSUME PutThumbnail(w, m)
      PROVE  /\ step[w][m] = "put"
             /\ UNCHANGED <<row, ready, jobVars, try, lost>>
             /\ stored' = stored \/ stored' = [stored EXCEPT ![m] = TRUE]
             /\ \/ SetStep(w, m, "fail")
                \/ SetStep(w, m, "persist") /\ stored' = [stored EXCEPT ![m] = TRUE]
  BY <1>2 DEF PutThumbnail
<1>3. ASSUME UpdateProcessingResult(w, m)
      PROVE  /\ step[w][m] = "persist"
             /\ UNCHANGED <<row, stored, jobVars, try, lost>>
             /\ \/ SetStep(w, m, "fail") /\ ready' = ready
                \/ /\ SetStep(w, m, "done")
                   /\ ready' = [ready EXCEPT ![m] = ready[m] \/ row[m] = "curated"]
  BY <1>3 DEF UpdateProcessingResult
<1>4. CASE GenerateThumbnail(w, m)
  BY <1>0, <1>1, <1>4, SetStepPointwise DEF TypeOK, mediaVars
<1>5. CASE PutThumbnail(w, m)
  <2>1. /\ stored' \in [Media -> BOOLEAN]
        /\ \A n \in Media : stored[n] => stored'[n]
    BY <1>2, <1>5 DEF TypeOK
  <2>2. CASE SetStep(w, m, "fail")
    BY <1>0, <1>2, <1>5, <2>1, <2>2, SetStepPointwise DEF TypeOK
  <2>3. CASE SetStep(w, m, "persist") /\ stored' = [stored EXCEPT ![m] = TRUE]
    <3>1. stored'[m]
      BY <2>3 DEF TypeOK
    <3>. QED  BY <1>0, <1>2, <1>5, <2>1, <2>3, <3>1, SetStepPointwise DEF TypeOK
  <2>. QED  BY <1>2, <1>5, <2>2, <2>3
<1>6. CASE UpdateProcessingResult(w, m)
  <2>1. CASE SetStep(w, m, "fail") /\ ready' = ready
    BY <1>0, <1>3, <1>6, <2>1, SetStepPointwise DEF TypeOK
  <2>2. CASE /\ SetStep(w, m, "done")
             /\ ready' = [ready EXCEPT ![m] = ready[m] \/ row[m] = "curated"]
    <3>1. /\ ready' \in [Media -> BOOLEAN]
          /\ \A n \in Media : n # m => ready'[n] = ready[n]
          /\ ready'[m] = (ready[m] \/ row[m] = "curated")
      BY <2>2 DEF TypeOK
    <3>2. (ready[m] => ready'[m]) /\ (ready'[m] \/ row[m] # "curated")
      BY <3>1
    <3>. QED  BY <1>0, <1>3, <1>6, <2>2, <3>1, <3>2, SetStepPointwise DEF TypeOK
  <2>. QED  BY <1>3, <1>6, <2>1, <2>2
<1>. QED  BY <1>4, <1>5, <1>6 DEF Moves

-----------------------------------------------------------------------------
(* The inductive invariant *)

\* The claim counts the attempts, the goroutine carries the count it saw, and
\* no job that may be claimed has used up its attempts.
AttemptsKept ==
    /\ AttemptsSpent
    /\ \A m \in Media : job[m] = "queued" => attempts[m] < MaxAttempts
    /\ \A m \in Media : row[m] = "pending" => attempts[m] = 0
    /\ \A w \in Workers, m \in Media :
          step[w][m] # "none" => try[w][m] = attempts[m] /\ row[m] # "pending"

\* The row is marked after the object is stored.
StoredFirst ==
    /\ ReadyMeansStored
    /\ \A w \in Workers, m \in Media : step[w][m] = "persist" => stored[m]

\* Success is reported for a thumbnail that is recorded or not to be had.
RenderedFirst ==
    ~StreamFails =>
        /\ DoneMeansRendered
        /\ \A w \in Workers, m \in Media :
              step[w][m] = "done" => ready[m] \/ m \in Undecodable \/ row[m] # "curated"

JobInv == TypeOK /\ OneRunner /\ AttemptsKept /\ StoredFirst /\ RenderedFirst

\* The invariant holds at the start.
LEMMA JobInit == Init => JobInv
BY JobAssumption
   DEF Init, JobInv, TypeOK, Steps, OneRunner, AttemptsKept, AttemptsSpent,
       StoredFirst, ReadyMeansStored, RenderedFirst, DoneMeansRendered

\* Steps of the row and the clock.
LEMMA RowKeepsInv ==
    ASSUME JobInv, NEW m \in Media, RowStep(m)
    PROVE  JobInv'
<1> USE DEF JobInv
<1>1. UNCHANGED <<ready, stored, attempts, step, try, lost>>
  BY DEF RowStep, MarkReady, DeleteForEvent, DeleteRow, BecomeDue, mediaVars, jobVars, workVars
<1>2. TypeOK'
  BY DEF RowStep, MarkReady, DeleteForEvent, DeleteRow, BecomeDue, mediaVars, jobVars, workVars, TypeOK
<1>3. \A n \in Media : /\ job'[n] = job[n] \/ job'[n] = "none" \/ (job'[n] = "queued" /\ row[n] = "pending")
                       /\ row'[n] = "pending" => row[n] = "pending"
                       /\ row'[n] = "curated" => row[n] = "curated" \/ row[n] = "pending"
  BY DEF RowStep, MarkReady, DeleteForEvent, DeleteRow, BecomeDue, mediaVars, jobVars, workVars, TypeOK
<1>4. \A n \in Media : row[n] = "pending" => job[n] = "none"
  BY DEF TypeOK
<1>5. OneRunner'
  BY <1>1, <1>3 DEF OneRunner, AttemptsKept
<1>6. AttemptsKept'
  BY <1>1, <1>3, JobAssumption DEF AttemptsKept, AttemptsSpent
<1>7. StoredFirst'
  BY <1>1 DEF StoredFirst, ReadyMeansStored
<1>8. RenderedFirst'
  BY <1>1, <1>3, <1>4 DEF RenderedFirst, DoneMeansRendered, AttemptsKept
<1>. QED  BY <1>2, <1>5, <1>6, <1>7, <1>8

\* A claim.
LEMMA ClaimKeepsInv ==
    ASSUME JobInv, NEW w \in Workers, NEW batch \in SUBSET Media, ClaimBatch(w, batch)
    PROVE  JobInv'
<1> USE DEF JobInv
<1>1. TypeOK'
  BY ClaimPointwise DEF TypeOK, StepType, TryType
<1>2. \A v \in Workers, n \in batch : step[v][n] = "none"
  BY ClaimPointwise DEF OneRunner
<1>3. OneRunner'
  BY <1>2, ClaimPointwise DEF OneRunner
<1>4. AttemptsKept'
  <2>1. \A n \in batch : /\ attempts'[n] = attempts[n] + 1 /\ attempts[n] < MaxAttempts
                         /\ job'[n] = "processing" /\ row[n] # "pending" /\ attempts[n] \in Nat
    BY ClaimPointwise DEF AttemptsKept, TypeOK
  <2>2. \A n \in Media \ batch : attempts'[n] = attempts[n] /\ job'[n] = job[n]
    BY ClaimPointwise
  <2>3. \A v \in Workers, n \in Media :
           step'[v][n] # "none" => try'[v][n] = attempts'[n] /\ row[n] # "pending"
    BY <1>2, <2>1, <2>2, ClaimPointwise DEF AttemptsKept
  <2>4. row' = row
    BY ClaimPointwise
  <2>5. \A n \in Media : attempts'[n] <= MaxAttempts
    BY <2>1, <2>2, JobAssumption DEF AttemptsKept, AttemptsSpent
  <2>6. \A n \in Media : /\ job'[n] = "failed" => attempts'[n] = MaxAttempts
                         /\ job'[n] = "queued" => attempts'[n] < MaxAttempts
                         /\ row'[n] = "pending" => attempts'[n] = 0
    BY <2>1, <2>2, <2>4 DEF AttemptsKept, AttemptsSpent
  <2>. QED  BY <2>3, <2>4, <2>5, <2>6 DEF AttemptsKept, AttemptsSpent
<1>5. StoredFirst' /\ RenderedFirst'
  BY ClaimPointwise DEF StoredFirst, ReadyMeansStored, RenderedFirst, DoneMeansRendered
<1>. QED  BY <1>1, <1>3, <1>4, <1>5

\* A goroutine moves within its job.
LEMMA MoveKeepsInv ==
    ASSUME JobInv, NEW w \in Workers, NEW m \in Media, Moves(w, m)
    PROVE  JobInv'
<1> USE DEF JobInv
<1>1. TypeOK'
  BY MovePointwise DEF TypeOK, StepType, jobVars
<1>2. UNCHANGED <<row, job, attempts, try>>
  BY MovePointwise DEF jobVars
<1>3. \A v \in Workers, n \in Media : step'[v][n] # "none" => step[v][n] # "none"
  BY MovePointwise
<1>4. OneRunner' /\ AttemptsKept'
  BY <1>2, <1>3 DEF OneRunner, AttemptsKept, AttemptsSpent
<1>5. \A n \in Media : stored[n] => stored'[n]
  BY MovePointwise
<1>6. \A v \in Workers, n \in Media : step'[v][n] = "persist" => stored'[n]
  BY <1>5, MovePointwise DEF StoredFirst
<1>7. \A n \in Media : ready'[n] => stored'[n]
  <2>1. \A n \in Media : ready'[n] => ready[n] \/ (n = m /\ step[w][m] = "persist")
    BY MovePointwise
  <2>. QED  BY <1>5, <2>1 DEF StoredFirst, ReadyMeansStored
<1>8. StoredFirst'
  BY <1>6, <1>7 DEF StoredFirst, ReadyMeansStored
<1>9. RenderedFirst'
  <2> SUFFICES ASSUME ~StreamFails
               PROVE  /\ \A n \in Media : job[n] = "done" =>
                            ready'[n] \/ n \in Undecodable \/ row[n] # "curated"
                      /\ \A v \in Workers, n \in Media : step'[v][n] = "done" =>
                            ready'[n] \/ n \in Undecodable \/ row[n] # "curated"
    BY <1>2 DEF RenderedFirst, DoneMeansRendered
  <2>1. \A n \in Media : ready[n] => ready'[n]
    BY MovePointwise
  <2>2. \A v \in Workers, n \in Media : step'[v][n] = "done" =>
           step[v][n] = "done" \/ ready'[n] \/ n \in Undecodable \/ row[n] # "curated"
    BY MovePointwise
  <2>. QED  BY <2>1, <2>2 DEF RenderedFirst, DoneMeansRendered
<1>. QED  BY <1>1, <1>4, <1>8, <1>9

\* The outcome is recorded.
LEMMA SettleKeepsInv ==
    ASSUME JobInv, NEW w \in Workers, NEW m \in Media, MarkDone(w, m) \/ Fail(w, m)
    PROVE  JobInv'
<1> USE DEF JobInv
<1>1. step[w][m] \in {"done", "fail"} /\ due' \in [Media -> BOOLEAN]
  BY DEF MarkDone, Fail, TypeOK
<1>2. PICK s \in {"done", "failed", "queued"} :
        /\ Settle(w, m, s)
        /\ s = "done" => step[w][m] = "done"
        /\ s = "failed" => try[w][m] >= MaxAttempts
        /\ s = "queued" => try[w][m] < MaxAttempts
  BY DEF MarkDone, Fail
<1>3. /\ StepType' /\ TryType'
      /\ \A v \in Workers, n \in Media :
            /\ step'[v][n] = IF v = w /\ n = m THEN "none" ELSE step[v][n]
            /\ step'[v][n] # "none" => try'[v][n] = try[v][n]
      /\ \A n \in Media :
            job'[n] = IF n = m THEN (IF job[m] = "none" THEN "none" ELSE s) ELSE job[n]
      /\ UNCHANGED <<row, ready, stored, attempts, lost>>
  BY <1>2, SettlePointwise
<1>4. job' \in [Media -> {"none", "queued", "processing", "done", "failed"}]
  BY <1>2 DEF Settle, TypeOK
<1>5. TypeOK'
  BY <1>1, <1>3, <1>4 DEF TypeOK, StepType, TryType
<1>6. OneRunner'
  BY <1>1, <1>3 DEF OneRunner
<1>7. try[w][m] = attempts[m] /\ attempts[m] <= MaxAttempts /\ attempts[m] \in Nat
  BY <1>1 DEF AttemptsKept, AttemptsSpent, TypeOK
<1>8. /\ job'[m] = "failed" => attempts[m] = MaxAttempts
      /\ job'[m] = "queued" => attempts[m] < MaxAttempts
  BY <1>2, <1>3, <1>7, JobAssumption
<1>9. AttemptsKept'
  BY <1>3, <1>8 DEF AttemptsKept, AttemptsSpent
<1>10. StoredFirst'
  BY <1>3 DEF StoredFirst, ReadyMeansStored
<1>11. RenderedFirst'
  BY <1>2, <1>3 DEF RenderedFirst, DoneMeansRendered
<1>. QED  BY <1>5, <1>6, <1>9, <1>10, <1>11

\* A goroutine or its process is lost.
LEMMA LossKeepsInv ==
    ASSUME JobInv, NEW w \in Workers,
           (\E m \in Media : OutcomeNotRecorded(w, m)) \/ StopProcess(w)
    PROVE  JobInv'
<1> USE DEF JobInv
<1>1. /\ StepType' /\ TryType' /\ lost' \subseteq Media
      /\ \A v \in Workers, n \in Media :
            \/ step'[v][n] = "none"
            \/ step'[v][n] = step[v][n] /\ try'[v][n] = try[v][n]
      /\ UNCHANGED <<row, ready, stored, job, attempts, due>>
  BY LossPointwise DEF mediaVars, jobVars
<1>2. TypeOK'
  BY <1>1 DEF TypeOK, StepType, TryType
<1>3. OneRunner' /\ AttemptsKept'
  BY <1>1 DEF OneRunner, AttemptsKept, AttemptsSpent
<1>4. StoredFirst' /\ RenderedFirst'
  BY <1>1 DEF StoredFirst, ReadyMeansStored, RenderedFirst, DoneMeansRendered
<1>. QED  BY <1>2, <1>3, <1>4

\* Every step keeps the invariant.
LEMMA JobStep == JobInv /\ [Next]_vars => JobInv'
<1> SUFFICES ASSUME JobInv, [Next]_vars
             PROVE  JobInv'
  OBVIOUS
<1>1. CASE UNCHANGED vars
  BY <1>1 DEF vars, mediaVars, jobVars, workVars, JobInv, TypeOK, OneRunner, AttemptsKept,
     AttemptsSpent, StoredFirst, ReadyMeansStored, RenderedFirst, DoneMeansRendered
<1>2. CASE Next
  BY <1>2, RowKeepsInv, ClaimKeepsInv, MoveKeepsInv, SettleKeepsInv, LossKeepsInv
     DEF Next, Process, Moves
<1>. QED  BY <1>1, <1>2

\* Rows, jobs and goroutines keep their types.
THEOREM JobTypeCorrect == Spec => []TypeOK
BY JobInit, JobStep, PTL DEF Spec, JobInv

\* Any number of replicas: no job runs in two places, whoever stops when.
THEOREM JobExclusive == Spec => []OneRunner
BY JobInit, JobStep, PTL DEF Spec, JobInv

\* A job is attempted MaxAttempts times before it is retired, never more.
THEOREM JobAttempts == Spec => []AttemptsSpent
BY JobInit, JobStep, PTL DEF Spec, JobInv, AttemptsKept

\* A row never claims a thumbnail that is not stored; and, where reads that
\* have begun do not break off, a job is done only when nothing is owed.
THEOREM ThumbnailOrder == Spec => []ReadyMeansStored /\ (~StreamFails => []DoneMeansRendered)
<1>1. Spec => []JobInv
  BY JobInit, JobStep, PTL DEF Spec
<1>2. JobInv => ReadyMeansStored
  BY DEF JobInv, StoredFirst
<1>3. ASSUME ~StreamFails
      PROVE  JobInv => DoneMeansRendered
  BY <1>3 DEF JobInv, RenderedFirst
<1>4. CASE StreamFails
  BY <1>1, <1>2, <1>4, PTL
<1>5. CASE ~StreamFails
  <2>1. JobInv => DoneMeansRendered
    BY <1>3, <1>5
  <2>. QED  BY <1>1, <1>2, <2>1, PTL
<1>. QED  BY <1>4, <1>5
=============================================================================
