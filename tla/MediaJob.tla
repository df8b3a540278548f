----------------------------- MODULE MediaJob ------------------------------
(***************************************************************************)
(* The durable thumbnail queue: media_jobs rows and the workers that claim *)
(* and run them.                                                           *)
(*                                                                         *)
(*   internal/mediajob/worker.go, repository.go   the claim protocol       *)
(*   internal/media/service.go                    GenerateThumbnail        *)
(*                                                                         *)
(* A worker is a process with RUN_WORKER=true.  It claims a batch, runs    *)
(* each job in a goroutine of its own and waits for all of them before it  *)
(* claims again.  A transaction or a storage call is one step; what        *)
(* GenerateThumbnail reads is read in its first step.                      *)
(***************************************************************************)
EXTENDS Naturals, FiniteSets

CONSTANTS
    Media,         \* media rows, one thumbnail job each
    Undecodable,   \* files no decoder accepts, or too large to decode
    Workers,       \* processes that run a worker
    Concurrency,   \* Config.Concurrency
    MaxAttempts,   \* Config.MaxAttempts
    StreamFails    \* a read that has begun may break off (storage, time-out)

ASSUME JobAssumption ==
    /\ IsFiniteSet(Media) /\ Undecodable \subseteq Media
    /\ Concurrency \in Nat \ {0} /\ MaxAttempts \in Nat \ {0}
    /\ StreamFails \in BOOLEAN

VARIABLES
    row,        \* the media row: pending, curated, deleted by the host, none
    ready,      \* media.thumbnail_ready
    stored,     \* R2: the thumbnail object
    job,        \* media_jobs.status; "none" without a row
    attempts,   \* media_jobs.attempts
    due,        \* run_after has passed
    step,       \* the goroutine a worker runs for a job; "none" without one
    try,        \* the attempts it saw when it claimed the job
    lost        \* history: jobs whose goroutine ended without an outcome

mediaVars == <<row, ready, stored>>
jobVars == <<job, attempts, due>>
workVars == <<step, try>>
vars == <<mediaVars, jobVars, workVars, lost>>

Running(w) == {m \in Media : step[w][m] # "none"}
SetStep(w, m, s) == step' = [step EXCEPT ![w][m] = s]

-----------------------------------------------------------------------------
(* The media row: MediaUpload has the details.                              *)

\* MarkReady inserts the job in the transaction that confirms the upload.
MarkReady(m) ==
    /\ row[m] = "pending"
    /\ row' = [row EXCEPT ![m] = "curated"]
    /\ job' = [job EXCEPT ![m] = "queued"]
    /\ due' = [due EXCEPT ![m] = TRUE]
    /\ UNCHANGED <<ready, stored, attempts, workVars, lost>>

DeleteForEvent(m) ==
    /\ row[m] = "curated"
    /\ row' = [row EXCEPT ![m] = "deleted"]
    /\ UNCHANGED <<ready, stored, jobVars, workVars, lost>>

\* A row that goes takes its job with it (ON DELETE CASCADE).
DeleteRow(m) ==
    /\ row[m] # "none"
    /\ row' = [row EXCEPT ![m] = "none"]
    /\ job' = [job EXCEPT ![m] = "none"]
    /\ UNCHANGED <<ready, stored, attempts, due, workVars, lost>>

-----------------------------------------------------------------------------
(* The worker *)

BecomeDue(m) ==
    /\ job[m] = "queued" /\ ~due[m]
    /\ due' = [due EXCEPT ![m] = TRUE]
    /\ UNCHANGED <<mediaVars, job, attempts, workVars, lost>>

Claimable == {m \in Media : job[m] = "queued" /\ due[m]}

\* Variant: claims jobs that are still marked as processing.
ClaimBatchAnyStatus(w, batch) ==
    /\ Running(w) = {}
    /\ batch # {} /\ batch \subseteq {m \in Media : job[m] \in {"queued", "processing"} /\ due[m]}
    /\ Cardinality(batch) <= Concurrency
    /\ job' = [m \in Media |-> IF m \in batch THEN "processing" ELSE job[m]]
    /\ attempts' = [m \in Media |-> IF m \in batch THEN attempts[m] + 1 ELSE attempts[m]]
    /\ step' = [step EXCEPT ![w] = [m \in Media |-> IF m \in batch THEN "run" ELSE "none"]]
    /\ try' = [try EXCEPT ![w] = [m \in Media |-> IF m \in batch THEN attempts[m] + 1 ELSE 0]]
    /\ UNCHANGED <<mediaVars, due, lost>>

\* ClaimBatch and drainOnce: as many due jobs as the limit allows.  Rows that a
\* concurrent claim has locked are skipped, as if it had committed before.
ClaimBatch(w, batch) ==
    /\ Running(w) = {}
    /\ batch # {} /\ batch \subseteq Claimable
    /\ Cardinality(batch) <= Concurrency
    /\ Cardinality(batch) = Concurrency \/ batch = Claimable
    /\ job' = [m \in Media |-> IF m \in batch THEN "processing" ELSE job[m]]
    /\ attempts' = [m \in Media |-> IF m \in batch THEN attempts[m] + 1 ELSE attempts[m]]
    /\ step' = [step EXCEPT ![w] = [m \in Media |-> IF m \in batch THEN "run" ELSE "none"]]
    /\ try' = [try EXCEPT ![w] = [m \in Media |-> IF m \in batch THEN attempts[m] + 1 ELSE 0]]
    /\ UNCHANGED <<mediaVars, due, lost>>

\* GenerateThumbnail up to the encoded image.  A missing row and a thumbnail
\* that is there already need nothing; a file that cannot be decoded is given
\* up; a failed query or open, or a panic, is worth another attempt.
GenerateThumbnail(w, m) ==
    /\ step[w][m] = "run"
    /\ \/ SetStep(w, m, "fail")
       \/ /\ \/ row[m] = "none"
             \/ ready[m]
             \/ m \in Undecodable
             \/ StreamFails
          /\ SetStep(w, m, "done")
       \/ /\ row[m] # "none" /\ ~ready[m] /\ m \notin Undecodable
          /\ SetStep(w, m, "put")
    /\ UNCHANGED <<mediaVars, jobVars, try, lost>>

\* Variant: the row is updated before the object is stored.
PutThumbnailLate(w, m) ==
    /\ step[w][m] = "put"
    /\ SetStep(w, m, "persist")
    /\ UNCHANGED <<mediaVars, jobVars, try, lost>>

\* A call that fails may have stored the object all the same.
PutThumbnail(w, m) ==
    /\ step[w][m] = "put"
    /\ \/ /\ stored' = [stored EXCEPT ![m] = TRUE]
          /\ SetStep(w, m, "persist") \/ SetStep(w, m, "fail")
       \/ /\ UNCHANGED stored
          /\ SetStep(w, m, "fail")
    /\ UNCHANGED <<row, ready, jobVars, try, lost>>

\* Only a curated row is updated; for another one nothing is owed.
UpdateProcessingResult(w, m) ==
    /\ step[w][m] = "persist"
    /\ \/ /\ ready' = [ready EXCEPT ![m] = ready[m] \/ row[m] = "curated"]
          /\ SetStep(w, m, "done")
       \/ /\ UNCHANGED ready
          /\ SetStep(w, m, "fail")
    /\ UNCHANGED <<row, stored, jobVars, try, lost>>

-----------------------------------------------------------------------------
(* The outcome: an UPDATE by id, without effect when the row is gone.       *)

Settle(w, m, s) ==
    /\ job' = [job EXCEPT ![m] = IF job[m] = "none" THEN "none" ELSE s]
    /\ SetStep(w, m, "none")
    /\ try' = [try EXCEPT ![w][m] = 0]
    /\ UNCHANGED <<mediaVars, attempts, lost>>

MarkDone(w, m) ==
    /\ step[w][m] = "done"
    /\ Settle(w, m, "done")
    /\ UNCHANGED due

\* Variants: one attempt too many; a failed attempt that does not put the job
\* back.
FailLate(w, m) ==
    /\ step[w][m] = "fail"
    /\ \/ try[w][m] > MaxAttempts /\ Settle(w, m, "failed") /\ UNCHANGED due
       \/ try[w][m] <= MaxAttempts /\ Settle(w, m, "queued") /\ due' = [due EXCEPT ![m] = FALSE]
FailUnscheduled(w, m) ==
    /\ step[w][m] = "fail"
    /\ \/ try[w][m] >= MaxAttempts /\ Settle(w, m, "failed") /\ UNCHANGED due
       \/ try[w][m] < MaxAttempts /\ Settle(w, m, "processing") /\ due' = [due EXCEPT ![m] = FALSE]

\* The last attempt retires the job, an earlier one puts it back for later.
Fail(w, m) ==
    /\ step[w][m] = "fail"
    /\ \/ /\ try[w][m] >= MaxAttempts
          /\ Settle(w, m, "failed")
          /\ UNCHANGED due
       \/ /\ try[w][m] < MaxAttempts
          /\ Settle(w, m, "queued")
          /\ due' = [due EXCEPT ![m] = FALSE]

\* The UPDATE fails: the error is logged and the goroutine ends.
OutcomeNotRecorded(w, m) ==
    /\ step[w][m] \in {"done", "fail"}
    /\ lost' = lost \cup {m}
    /\ SetStep(w, m, "none")
    /\ try' = [try EXCEPT ![w][m] = 0]
    /\ UNCHANGED <<mediaVars, jobVars>>

\* A crash, or a deploy: main does not wait for the worker.
StopProcess(w) ==
    /\ Running(w) # {}
    /\ lost' = lost \cup Running(w)
    /\ step' = [step EXCEPT ![w] = [m \in Media |-> "none"]]
    /\ try' = [try EXCEPT ![w] = [m \in Media |-> 0]]
    /\ UNCHANGED <<mediaVars, jobVars>>

-----------------------------------------------------------------------------
Init ==
    /\ row = [m \in Media |-> "pending"]
    /\ ready = [m \in Media |-> FALSE]
    /\ stored = [m \in Media |-> FALSE]
    /\ job = [m \in Media |-> "none"]
    /\ attempts = [m \in Media |-> 0]
    /\ due = [m \in Media |-> FALSE]
    /\ step = [w \in Workers |-> [m \in Media |-> "none"]]
    /\ try = [w \in Workers |-> [m \in Media |-> 0]]
    /\ lost = {}

RowStep(m) == MarkReady(m) \/ DeleteForEvent(m) \/ DeleteRow(m) \/ BecomeDue(m)

\* process: the goroutine of one job.
Process(w, m) ==
    \/ GenerateThumbnail(w, m)
    \/ PutThumbnail(w, m)
    \/ UpdateProcessingResult(w, m)
    \/ MarkDone(w, m)
    \/ Fail(w, m)

Next ==
    \/ \E m \in Media : RowStep(m)
    \/ \E w \in Workers, batch \in SUBSET Media : ClaimBatch(w, batch)
    \/ \E w \in Workers, m \in Media : Process(w, m) \/ OutcomeNotRecorded(w, m)
    \/ \E w \in Workers : StopProcess(w)

Spec == Init /\ [][Next]_vars

(***************************************************************************)
(* Fairness: a worker that is idle looks at the queue again and again, a   *)
(* goroutine that runs goes on to its end, and time passes.                *)
(***************************************************************************)
Fairness ==
    /\ \A m \in Media : WF_vars(BecomeDue(m))
    /\ \A w \in Workers : WF_vars(\E batch \in SUBSET Media : ClaimBatch(w, batch))
    /\ \A w \in Workers, m \in Media : WF_vars(Process(w, m))

FairSpec == Spec /\ Fairness

-----------------------------------------------------------------------------
(* Properties *)

Steps == {"none", "run", "put", "persist", "done", "fail"}

\* Rows, jobs and goroutines keep their types; only a row can have a job.
TypeOK ==
    /\ row \in [Media -> {"pending", "curated", "deleted", "none"}]
    /\ ready \in [Media -> BOOLEAN] /\ stored \in [Media -> BOOLEAN]
    /\ job \in [Media -> {"none", "queued", "processing", "done", "failed"}]
    /\ \A m \in Media : row[m] \in {"pending", "none"} => job[m] = "none"
    /\ attempts \in [Media -> Nat] /\ due \in [Media -> BOOLEAN]
    /\ step \in [Workers -> [Media -> Steps]]
    /\ try \in [Workers -> [Media -> Nat]]
    /\ lost \subseteq Media

\* "any number of replicas may run a worker without coordinating"
\* (mediajob.go:11-13): a job runs in one place at a time, and it is marked as
\* processing there unless its row is gone.
OneRunner ==
    \A w \in Workers, m \in Media :
        step[w][m] # "none" =>
            /\ job[m] \in {"processing", "none"}
            /\ \A v \in Workers : step[v][m] # "none" => v = w

\* "Concurrency is the hard ceiling on jobs running at once in this process"
\* (worker.go:14), which is what keeps it from running out of memory.

\* A job is retired after MaxAttempts attempts, no more and no fewer, however
\* the attempts are spread over workers and restarts (worker.go:20-22).
AttemptsSpent ==
    \A m \in Media :
        /\ attempts[m] <= MaxAttempts
        /\ job[m] = "failed" => attempts[m] = MaxAttempts

\* A gallery never points at a thumbnail that is not there: the row is marked
\* only after the object is stored (service.go:382-387), whatever stops when.
ReadyMeansStored == \A m \in Media : ready[m] => stored[m]

\* "nil means the record needs nothing further" (service.go:304-306): a job is
\* done only when the thumbnail is recorded or can never be had.
DoneMeansRendered ==
    \A m \in Media :
        job[m] = "done" => ready[m] \/ m \in Undecodable \/ row[m] # "curated"

\* "a worker owns it from now on: it survives a restart, it retries"
\* (service.go:231-232): a job that is owed is done or retired in the end,
\* whatever becomes of the others, unless its own goroutine is cut off or its own
\* outcome is not recorded.  It does not survive that: nothing takes up a job
\* that was left 'processing' (repository.go:25).
JobSettled ==
    \A m \in Media : job[m] = "queued" ~> m \in lost \/ job[m] \in {"done", "failed", "none"}
=============================================================================
