--------------------------- MODULE QueuedJobProofs ---------------------------
(***************************************************************************)
(* Lemmas about the job record, which the proofs of all drivers rest on:   *)
(* what creation and the operations on one record return, how large a      *)
(* retry delay gets, and how the counters of a driver add up.              *)
(***************************************************************************)
EXTENDS QueuedJob, FiniteSetTheorems, TLAPS

(* Dispatching builds a well-formed job that waits for its first attempt;  *)
(* it is pending only if it can be popped at once.                         *)
LEMMA CreateQueuedJobType ==
  ASSUME NEW options \in Options
  PROVE  CreateQueuedJob(options) \in Job
  BY OptionsAssumption DEF OptionRecord, CreateQueuedJob, Job, JobStatus, DefaultBackoffMs

LEMMA CreatedJob ==
  ASSUME NEW options \in Options
  PROVE  /\ CreateQueuedJob(options).status \in {"pending", "delayed"}
         /\ CreateQueuedJob(options).attempts = 0
         /\ CreateQueuedJob(options).queue = options.queue
         /\ CreateQueuedJob(options).status = "pending" => CreateQueuedJob(options).dueIn = 0
  BY OptionsAssumption DEF OptionRecord, CreateQueuedJob

(* The operations on one job keep it well-formed ...                       *)
LEMMA JobOperationsType ==
  ASSUME NEW job \in Job, NEW delayMs \in Nat
  PROVE  /\ Reserve(job) \in Job
         /\ PutBack(job, delayMs) \in Job
         /\ GiveUp(job) \in Job
         /\ Later(job) \in Job
<1> USE DEF Job, JobStatus
<1>1. Reserve(job) \in Job
  <2>1. job.attempts + 1 \in Nat
    OBVIOUS
  <2>2. ASSUME NEW n \in Nat PROVE [job EXCEPT !.status = "reserved", !.attempts = n] \in Job
    OBVIOUS
  <2> QED BY <2>1, <2>2 DEF Reserve
<1>2. PutBack(job, delayMs) \in Job
  BY DEF PutBack
<1>3. GiveUp(job) \in Job
  BY DEF GiveUp
<1>4. Later(job) \in Job
  BY DEF Later
<1> QED BY <1>1, <1>2, <1>3, <1>4

(* ... and write the fields they are named for, and no others.             *)
LEMMA ReserveWrites ==
  ASSUME NEW job \in Job
  PROVE  /\ Reserve(job).status = "reserved"
         /\ Reserve(job).attempts = job.attempts + 1
         /\ Reserve(job).attempts > 0
         /\ Reserve(job).dueIn = job.dueIn
         /\ Reserve(job).maxAttempts = job.maxAttempts
         /\ Reserve(job).queue = job.queue
         /\ Reserve(job).uniqueId = job.uniqueId
<1>1. job.attempts + 1 \in Nat /\ job.attempts + 1 > 0
  BY DEF Job
<1>2. ASSUME NEW n
      PROVE  LET other == [job EXCEPT !.status = "reserved", !.attempts = n]
             IN  /\ other.status = "reserved" /\ other.attempts = n
                 /\ other.dueIn = job.dueIn /\ other.maxAttempts = job.maxAttempts
                 /\ other.queue = job.queue /\ other.uniqueId = job.uniqueId
  BY DEF Job
<1> QED BY <1>1, <1>2 DEF Reserve

LEMMA PutBackWrites ==
  ASSUME NEW job \in Job, NEW delayMs \in Nat
  PROVE  /\ PutBack(job, delayMs).status \in {"pending", "delayed"}
         /\ PutBack(job, delayMs).status = "pending" => PutBack(job, delayMs).dueIn = 0
         /\ PutBack(job, delayMs).attempts = job.attempts
         /\ PutBack(job, delayMs).maxAttempts = job.maxAttempts
         /\ PutBack(job, delayMs).queue = job.queue
         /\ PutBack(job, delayMs).uniqueId = job.uniqueId
  BY DEF PutBack, Job

LEMMA GiveUpWrites ==
  ASSUME NEW job \in Job
  PROVE  /\ GiveUp(job).status = "failed"
         /\ GiveUp(job).attempts = job.attempts
         /\ GiveUp(job).maxAttempts = job.maxAttempts
         /\ GiveUp(job).queue = job.queue
         /\ GiveUp(job).uniqueId = job.uniqueId
  BY DEF GiveUp, Job

LEMMA LaterWrites ==
  ASSUME NEW job \in Job
  PROVE  /\ Later(job).status = job.status
         /\ Later(job).attempts = job.attempts
         /\ Later(job).maxAttempts = job.maxAttempts
         /\ Later(job).queue = job.queue
         /\ Later(job).uniqueId = job.uniqueId
         /\ job.dueIn = 0 => Later(job) = job
<1>1. job.dueIn = 0 => [job EXCEPT !.dueIn = 0] = job
  BY DEF Job
<1>2. job.dueIn = 0 => Later(job) = [job EXCEPT !.dueIn = 0]
  BY DEF Later
<1> QED BY <1>1, <1>2 DEF Later, Job

-----------------------------------------------------------------------------
(* The provers know nothing of exponentiation; that it stays within the    *)
(* natural numbers follows from what the library says of power sets.       *)
LEMMA PowerType == ASSUME NEW n \in Nat PROVE 2^n \in Nat
<1>1. IsFiniteSet(1..n) /\ Cardinality(1..n) = n
  BY FS_Interval
<1>2. IsFiniteSet(SUBSET (1..n)) /\ Cardinality(SUBSET (1..n)) = 2^n
  BY <1>1, FS_SUBSET
<1> QED BY <1>2, FS_CardinalityType

(* After a first attempt, the delay before the next one is within the      *)
(* bound.                                                                  *)
LEMMA BackoffBounded ==
  ASSUME NEW attempt \in Nat, attempt > 1, NEW baseMs \in Nat, NEW maxMs \in Nat
  PROVE  ComputeBackoff(attempt, baseMs, maxMs) \in 0..maxMs
<1>1. PICK power \in Nat : power = 2^(attempt - 1)
  BY PowerType
<1>2. baseMs * power \in Nat
  OBVIOUS
<1> QED BY <1>1, <1>2 DEF ComputeBackoff

-----------------------------------------------------------------------------
(* The counters of a driver.  A stored job waits, is reserved or failed:   *)
(* no driver ever stores the other statuses; and a pending job is due.     *)
StoredProperly(job) ==
  /\ job.status \in {"pending", "delayed", "reserved", "failed"}
  /\ job.status = "pending" => job.dueIn = 0

LEMMA FiniteIds == ASSUME NEW n \in Int, NEW ids \in SUBSET (1..n) PROVE IsFiniteSet(ids)
<1>1. IsFiniteSet(1..n)
  BY FS_Interval
<1> QED BY <1>1, FS_Subset

LEMMA DisjointUnion ==
  ASSUME NEW S, NEW T, IsFiniteSet(S), IsFiniteSet(T), S \cap T = {}
  PROVE  IsFiniteSet(S \cup T) /\ Cardinality(S \cup T) = Cardinality(S) + Cardinality(T)
<1>1. Cardinality(S \cup T) = Cardinality(S) + Cardinality(T) - Cardinality(S \cap T)
  BY FS_Union
<1>2. Cardinality(S \cap T) = 0
  BY FS_EmptySet
<1>3. Cardinality(S) \in Nat /\ Cardinality(T) \in Nat
  BY FS_CardinalityType
<1> QED BY <1>1, <1>2, <1>3, FS_Union

(* Then the counters agree with each other and with what can be popped.    *)
LEMMA CountersAgree ==
  ASSUME NEW stored, IsFiniteSet(DOMAIN stored), NEW queue,
         \A id \in DOMAIN stored : StoredProperly(stored[id])
  PROVE  LET size == CountBy(stored, queue, JobStatus \ {"completed", "failed"})
             poppable == {id \in DOMAIN stored : CanBePopped(stored[id], queue)}
         IN  /\ size = CountBy(stored, queue, {"pending"}) + CountBy(stored, queue, {"delayed"})
                                                           + CountBy(stored, queue, {"reserved"})
             /\ CountBy(stored, queue, {"pending"}) <= Cardinality(poppable)
             /\ size = 0 => poppable = {}
<1> DEFINE Of(statuses) == {id \in DOMAIN stored : stored[id].queue = queue
                                                   /\ stored[id].status \in statuses}
           poppable == {id \in DOMAIN stored : CanBePopped(stored[id], queue)}
<1>1. ASSUME NEW statuses
      PROVE  /\ IsFiniteSet(Of(statuses))
             /\ CountBy(stored, queue, statuses) = Cardinality(Of(statuses))
             /\ Cardinality(Of(statuses)) \in Nat
  <2>1. Of(statuses) \in SUBSET DOMAIN stored
    OBVIOUS
  <2>2. IsFiniteSet(Of(statuses))
    BY <2>1, FS_Subset
  <2> QED BY <2>2, FS_CardinalityType DEF CountBy
<1>2. Of(JobStatus \ {"completed", "failed"})
      = (Of({"pending"}) \cup Of({"delayed"})) \cup Of({"reserved"})
  BY DEF JobStatus, StoredProperly
<1>3. /\ Of({"pending"}) \cap Of({"delayed"}) = {}
      /\ (Of({"pending"}) \cup Of({"delayed"})) \cap Of({"reserved"}) = {}
  OBVIOUS
<1>4. /\ Of({"pending"}) \subseteq poppable
      /\ poppable \subseteq Of(JobStatus \ {"completed", "failed"})
  BY DEF CanBePopped, StoredProperly, JobStatus
<1>5. IsFiniteSet(poppable)
  BY FS_Subset
<1> HIDE DEF Of, poppable
<1>6. Cardinality(Of(JobStatus \ {"completed", "failed"}))
      = Cardinality(Of({"pending"})) + Cardinality(Of({"delayed"})) + Cardinality(Of({"reserved"}))
  <2>1. /\ IsFiniteSet(Of({"pending"}) \cup Of({"delayed"}))
        /\ Cardinality(Of({"pending"}) \cup Of({"delayed"}))
           = Cardinality(Of({"pending"})) + Cardinality(Of({"delayed"}))
    BY <1>1, <1>3, DisjointUnion, Zenon
  <2>2. Cardinality((Of({"pending"}) \cup Of({"delayed"})) \cup Of({"reserved"}))
        = Cardinality(Of({"pending"}) \cup Of({"delayed"})) + Cardinality(Of({"reserved"}))
    BY <1>1, <1>3, <2>1, DisjointUnion, Zenon
  <2> QED BY <1>2, <2>1, <2>2, Zenon
<1>7. Cardinality(Of({"pending"})) <= Cardinality(poppable)
  BY <1>4, <1>5, FS_Subset
<1>8. Cardinality(Of(JobStatus \ {"completed", "failed"})) = 0 => poppable = {}
  BY <1>1, <1>4, FS_EmptySet
<1> QED BY <1>1, <1>6, <1>7, <1>8 DEF poppable
=============================================================================
