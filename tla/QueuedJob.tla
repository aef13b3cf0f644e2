------------------------------ MODULE QueuedJob ------------------------------
(***************************************************************************)
(* The job record that every driver stores, and what the drivers do to     *)
(* one record: creation (utils/create-queued-job.util.ts), reservation,    *)
(* release and failure, and the retry delay (utils/compute-backoff.util.ts)*)
(*                                                                         *)
(* Time.  A job's availableAt is an absolute time that the code only ever  *)
(* compares with Date.now(), so a record keeps the distance between the    *)
(* two, `dueIn`: availableAt <= now is dueIn = 0, and time passing is a    *)
(* decrement.  One unit of time stands for the default backoff of 1000 ms. *)
(* The job's id numbers the jobs in the order of their creation; it stands *)
(* for createdAt, which the code takes from Date.now() (assumed not to     *)
(* step back between two dispatches).                                      *)
(*                                                                         *)
(* Fields no property tells apart are left out: name, data, connection,    *)
(* tags, timeoutMs, updatedAt, lastError, driverMeta.                      *)
(***************************************************************************)
EXTENDS Integers, FiniteSets

CONSTANTS
  Queues,      \* queue tube names
  UniqueIds,   \* deduplication ids, given by the caller or hashed from the payload
  Undefined,   \* JavaScript's undefined
  Options      \* the IJobOptions a caller may dispatch with

(* Options as QueueHandle passes them on: the queue is always filled in.   *)
(* uniqueId stands for the caller's own or, without one, for the hash of   *)
(* the payload that createQueuedJob takes instead; it counts only if       *)
(* uniqueFor is given.                                                     *)
OptionRecord ==
  [queue: Queues, delayMs: Nat, tries: Int \cup {Undefined},
   backoffMs: Nat \cup {Undefined}, uniqueFor: Nat \cup {Undefined},
   uniqueId: UniqueIds]

ASSUME OptionsAssumption ==
  /\ Options \subseteq OptionRecord
  /\ Undefined \notin Int \cup UniqueIds

JobStatus == {"pending", "delayed", "reserved", "processing", "completed", "failed"}

Job == [queue: Queues, status: JobStatus, attempts: Nat, maxAttempts: Int,
        backoffMs: Nat, dueIn: Nat, uniqueId: UniqueIds \cup {Undefined}]

DefaultBackoffMs == 1

\* Mutant of CreateQueuedJob: no fallback for tries.
CreateWithoutTries(options) ==
  [queue       |-> options.queue,
   status      |-> IF options.delayMs > 0 THEN "delayed" ELSE "pending",
   attempts    |-> 0,
   maxAttempts |-> options.tries,
   backoffMs   |-> DefaultBackoffMs,
   dueIn       |-> options.delayMs,
   uniqueId    |-> IF options.uniqueFor # Undefined THEN options.uniqueId ELSE Undefined]

CreateQueuedJob(options) ==
  [queue       |-> options.queue,
   status      |-> IF options.delayMs > 0 THEN "delayed" ELSE "pending",
   attempts    |-> 0,
   maxAttempts |-> IF options.tries # Undefined THEN options.tries ELSE 1,
   backoffMs   |-> IF options.backoffMs # Undefined THEN options.backoffMs
                                                    ELSE DefaultBackoffMs,
   dueIn       |-> options.delayMs,
   uniqueId    |-> IF options.uniqueFor # Undefined THEN options.uniqueId ELSE Undefined]

ComputeBackoff(attempt, baseMs, maxMs) ==
  LET exp == baseMs * 2^(attempt - 1)
  IN  IF attempt <= 1 THEN baseMs
      ELSE IF exp <= maxMs THEN exp ELSE maxMs

-----------------------------------------------------------------------------
InFlight(job) == job.status \notin {"completed", "failed"}

\* Mutants of CanBePopped: one that also takes failed jobs, one that forgets
\* the delayed jobs whose delay has elapsed.
PopsFailedJobs(job, queue) ==
  job.queue = queue /\ job.status \in {"pending", "delayed", "failed"} /\ job.dueIn = 0
PopsPendingJobsOnly(job, queue) ==
  job.queue = queue /\ job.status = "pending" /\ job.dueIn = 0

CanBePopped(job, queue) ==
  /\ job.queue = queue
  /\ job.status \in {"pending", "delayed"}
  /\ job.dueIn = 0

\* Mutant of Reserve: the status is not written.
ReserveUnmarked(job) == [job EXCEPT !.attempts = @ + 1]

Reserve(job) == [job EXCEPT !.status = "reserved", !.attempts = @ + 1]

\* Mutant of PutBack: a delayed release is stored as pending.
PutBackPending(job, delayMs) == [job EXCEPT !.status = "pending", !.dueIn = delayMs]

PutBack(job, delayMs) ==
  [job EXCEPT !.status = IF delayMs > 0 THEN "delayed" ELSE "pending",
              !.dueIn  = delayMs]

GiveUp(job) == [job EXCEPT !.status = "failed"]

(* How many of the given jobs are on a queue with one of some statuses.    *)
CountBy(jobs, queue, statuses) ==
  Cardinality({id \in DOMAIN jobs : jobs[id].queue = queue /\ jobs[id].status \in statuses})

Later(job) == [job EXCEPT !.dueIn = IF @ > 0 THEN @ - 1 ELSE 0]
=============================================================================
