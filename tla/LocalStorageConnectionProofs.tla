--------------------- MODULE LocalStorageConnectionProofs ---------------------
(***************************************************************************)
(* What TLAPS proves of the localStorage driver, for any tabs, queues,     *)
(* options and any number of jobs.                                         *)
(***************************************************************************)
EXTENDS LocalStorageConnection, QueuedJobProofs

-----------------------------------------------------------------------------
(* The edits of a blob.                                                    *)
Blob(blob) == blob \in [jobs: {blob.jobs}, paused: {blob.paused}]

LEMMA JobsEdited ==
  ASSUME NEW blob, Blob(blob), NEW edited
  PROVE  /\ Blob([blob EXCEPT !.jobs = edited])
         /\ [blob EXCEPT !.jobs = edited].jobs = edited
         /\ [blob EXCEPT !.jobs = edited].paused = blob.paused
  BY DEF Blob

LEMMA PausedEdited ==
  ASSUME NEW blob, Blob(blob), NEW flag
  PROVE  /\ Blob([blob EXCEPT !.paused = flag])
         /\ [blob EXCEPT !.paused = flag].jobs = blob.jobs
  BY DEF Blob

LEMMA Inserts ==
  ASSUME NEW blob, Blob(blob), NEW id, NEW job
  PROVE  /\ Blob(Insert(blob, id, job))
         /\ Insert(blob, id, job).jobs =
              [other \in DOMAIN blob.jobs \cup {id} |-> IF other = id THEN job ELSE blob.jobs[other]]
  BY JobsEdited DEF Insert

LEMMA Removes ==
  ASSUME NEW blob, Blob(blob), NEW id
  PROVE  LET rest == [blob EXCEPT !.jobs = Restrict(@, DOMAIN @ \ {id})]
         IN  /\ Blob(rest)
             /\ rest.jobs = [other \in DOMAIN blob.jobs \ {id} |-> blob.jobs[other]]
  BY JobsEdited DEF Restrict

LEMMA Mutates ==
  ASSUME NEW blob, Blob(blob), NEW id \in DOMAIN blob.jobs
  PROVE  /\ LET edited == [blob EXCEPT !.jobs[id] = PutBack(@, RetryDelay)]
            IN  /\ Blob(edited)
                /\ edited.jobs = [blob.jobs EXCEPT ![id] = PutBack(blob.jobs[id], RetryDelay)]
         /\ LET edited == [blob EXCEPT !.jobs[id] = GiveUp(@)]
            IN  /\ Blob(edited)
                /\ edited.jobs = [blob.jobs EXCEPT ![id] = GiveUp(blob.jobs[id])]
  BY JobsEdited

LEMMA Ages ==
  ASSUME NEW blob, Blob(blob)
  PROVE  LET aged == [blob EXCEPT !.jobs = [id \in DOMAIN @ |-> Later(@[id])]]
         IN  /\ Blob(aged)
             /\ aged.jobs = [id \in DOMAIN blob.jobs |-> Later(blob.jobs[id])]
  BY JobsEdited

-----------------------------------------------------------------------------
(* Every blob, in the storage or as some tab has read it, holds jobs of    *)
(* its queue, under ids that push gave out, as drivers store them.         *)
Stored(next, jobs, queue) ==
  /\ DOMAIN jobs \subseteq 1..(next - 1)
  /\ jobs \in [DOMAIN jobs -> Job]
  /\ \A id \in DOMAIN jobs : jobs[id].queue = queue /\ StoredProperly(jobs[id])

BlobForm(next, blob, queue) == Blob(blob) /\ Stored(next, blob.jobs, queue)

WellFormed ==
  /\ nextId \in 1..(MaxJobs + 1)
  /\ DOMAIN storage = Queues
  /\ \A queue \in Queues : BlobForm(nextId, storage[queue], queue)
  /\ DOMAIN read = Tabs
  /\ \A t \in Tabs : read[t] # Nothing =>
       read[t].queue \in Queues /\ BlobForm(nextId, read[t].blob, read[t].queue)

LEMMA FormGrows ==
  ASSUME NEW n \in Int, NEW m \in Int, n <= m, NEW blob, NEW queue, BlobForm(n, blob, queue)
  PROVE  BlobForm(m, blob, queue)
  BY DEF BlobForm, Stored

LEMMA StoredJob ==
  ASSUME NEW n, NEW blob, NEW queue, BlobForm(n, blob, queue), NEW id \in DOMAIN blob.jobs
  PROVE  /\ id \in 1..(n - 1) /\ blob.jobs[id] \in Job
         /\ blob.jobs[id].queue = queue /\ StoredProperly(blob.jobs[id])
  BY DEF BlobForm, Stored

LEMMA InsertForm ==
  ASSUME NEW n \in Int, NEW m \in Int, n <= m, NEW blob, NEW queue, BlobForm(n, blob, queue),
         NEW id \in 1..(m - 1), NEW job \in Job, job.queue = queue, StoredProperly(job)
  PROVE  BlobForm(m, Insert(blob, id, job), queue)
<1>1. Blob(blob) /\ Stored(n, blob.jobs, queue)
  BY DEF BlobForm
<1>2. PICK edited : edited = Insert(blob, id, job)
  OBVIOUS
<1>3. Blob(edited) /\ edited.jobs = [other \in DOMAIN blob.jobs \cup {id} |->
                                      IF other = id THEN job ELSE blob.jobs[other]]
  BY <1>1, <1>2, Inserts
<1> QED BY <1>1, <1>2, <1>3 DEF BlobForm, Stored

LEMMA RemoveForm ==
  ASSUME NEW n, NEW blob, NEW queue, BlobForm(n, blob, queue), NEW id
  PROVE  BlobForm(n, [blob EXCEPT !.jobs = Restrict(@, DOMAIN @ \ {id})], queue)
<1>1. Blob(blob) /\ Stored(n, blob.jobs, queue)
  BY DEF BlobForm
<1>2. PICK rest : rest = [blob EXCEPT !.jobs = Restrict(@, DOMAIN @ \ {id})]
  OBVIOUS
<1>3. Blob(rest) /\ rest.jobs = [other \in DOMAIN blob.jobs \ {id} |-> blob.jobs[other]]
  BY <1>1, <1>2, Removes
<1> QED BY <1>1, <1>2, <1>3 DEF BlobForm, Stored

LEMMA MutateForm ==
  ASSUME NEW n, NEW blob, NEW queue, BlobForm(n, blob, queue), NEW id \in DOMAIN blob.jobs
  PROVE  /\ BlobForm(n, [blob EXCEPT !.jobs[id] = PutBack(@, RetryDelay)], queue)
         /\ BlobForm(n, [blob EXCEPT !.jobs[id] = GiveUp(@)], queue)
<1> RetryDelay \in Nat
  BY LocalStorageAssumption
<1>1. ASSUME NEW job \in Job, job.queue = queue, StoredProperly(job),
             NEW edited, Blob(edited), edited.jobs = [blob.jobs EXCEPT ![id] = job]
      PROVE  BlobForm(n, edited, queue)
  BY <1>1 DEF BlobForm, Stored
<1>2. /\ PutBack(blob.jobs[id], RetryDelay) \in Job /\ GiveUp(blob.jobs[id]) \in Job
      /\ PutBack(blob.jobs[id], RetryDelay).queue = queue
      /\ GiveUp(blob.jobs[id]).queue = queue
      /\ StoredProperly(PutBack(blob.jobs[id], RetryDelay))
      /\ StoredProperly(GiveUp(blob.jobs[id]))
  <2>1. PICK job \in Job : job = blob.jobs[id] /\ job.queue = queue
    BY StoredJob
  <2> QED BY <2>1, JobOperationsType, PutBackWrites, GiveUpWrites DEF StoredProperly
<1>3. Blob(blob)
  BY DEF BlobForm
<1> QED BY <1>1, <1>2, <1>3, Mutates

LEMMA PausedForm ==
  ASSUME NEW n, NEW blob, NEW queue, BlobForm(n, blob, queue), NEW flag
  PROVE  BlobForm(n, [blob EXCEPT !.paused = flag], queue)
  BY PausedEdited DEF BlobForm

LEMMA AgeForm ==
  ASSUME NEW n, NEW blob, NEW queue, BlobForm(n, blob, queue)
  PROVE  BlobForm(n, [blob EXCEPT !.jobs = [id \in DOMAIN @ |-> Later(@[id])]], queue)
<1>1. ASSUME NEW id \in DOMAIN blob.jobs
      PROVE  /\ Later(blob.jobs[id]) \in Job /\ Later(blob.jobs[id]).queue = queue
             /\ StoredProperly(Later(blob.jobs[id]))
  <2>1. PICK job \in Job : job = blob.jobs[id] /\ job.queue = queue /\ StoredProperly(job)
    BY StoredJob
  <2> QED BY <2>1, JobOperationsType, LaterWrites DEF StoredProperly
<1>2. PICK aged : aged = [blob EXCEPT !.jobs = [id \in DOMAIN @ |-> Later(@[id])]]
  OBVIOUS
<1>3. Blob(blob) /\ Stored(n, blob.jobs, queue)
  BY DEF BlobForm
<1>4. Blob(aged) /\ aged.jobs = [id \in DOMAIN blob.jobs |-> Later(blob.jobs[id])]
  BY <1>2, <1>3, Ages
<1> QED BY <1>1, <1>2, <1>3, <1>4 DEF BlobForm, Stored

LEMMA EmptyForm == ASSUME NEW n, NEW queue PROVE BlobForm(n, EmptyBlob, queue)
  BY DEF BlobForm, Stored, Blob, EmptyBlob

(* How a method that has read a blob ends.                                 *)
LEMMA WriteKeepsForm ==
  ASSUME WellFormed, NEW t \in Tabs, read[t] # Nothing, nextId' \in 1..(MaxJobs + 1),
         nextId' >= nextId, NEW blob, BlobForm(nextId', blob, read[t].queue),
         Write(t, blob) \/ (Ends(t) /\ UNCHANGED storage)
  PROVE  WellFormed'
<1>0. nextId \in Int /\ nextId' \in Int /\ nextId <= nextId'
  BY LocalStorageAssumption DEF WellFormed
<1>1. /\ DOMAIN read' = Tabs
      /\ \A u \in Tabs : read'[u] = IF u = t THEN Nothing ELSE read[u]
  BY DEF Write, Ends, WellFormed
<1>2. /\ DOMAIN storage' = Queues
      /\ \A queue \in Queues : \/ storage'[queue] = storage[queue]
                               \/ queue = read[t].queue /\ storage'[queue] = blob
  BY DEF Write, Ends, WellFormed
<1>3. \A queue \in Queues : BlobForm(nextId', storage'[queue], queue)
  BY <1>0, <1>2, FormGrows DEF WellFormed
<1>4. \A u \in Tabs : read'[u] # Nothing =>
        read'[u].queue \in Queues /\ BlobForm(nextId', read'[u].blob, read'[u].queue)
  BY <1>0, <1>1, FormGrows DEF WellFormed
<1> QED BY <1>1, <1>2, <1>3, <1>4 DEF WellFormed

LEMMA FormInit == LocalStorageInit => WellFormed
  BY EmptyForm, LocalStorageAssumption DEF LocalStorageInit, WellFormed

LEMMA FormStep == WellFormed /\ [LocalStorageNext]_local => WellFormed'
<1> SUFFICES ASSUME WellFormed, [LocalStorageNext]_local PROVE WellFormed'
  OBVIOUS
<1>a. nextId \in 1..(MaxJobs + 1) /\ nextId \in Int /\ nextId <= nextId /\ MaxJobs \in Nat
  BY LocalStorageAssumption DEF WellFormed
<1>b. ASSUME NEW t \in Tabs, read[t] # Nothing
      PROVE  read[t].queue \in Queues /\ BlobForm(nextId, read[t].blob, read[t].queue)
  BY <1>b DEF WellFormed
<1>1. ASSUME NEW t \in Tabs, NEW queue \in Queues, Read(t, queue) PROVE WellFormed'
  <2>1. /\ DOMAIN read' = Tabs
        /\ \A u \in Tabs \ {t} : read'[u] = read[u]
        /\ read'[t] = [queue |-> queue, blob |-> storage[queue]]
        /\ UNCHANGED <<storage, nextId>>
    BY <1>1 DEF Read, WellFormed
  <2> QED BY <2>1 DEF WellFormed
<1>2. ASSUME NEW t \in Tabs, NEW options \in Options, Push(t, options) PROVE WellFormed'
  <2> DEFINE job == CreateQueuedJob(options)
  <2>1. job \in Job /\ StoredProperly(job)
    BY CreateQueuedJobType, CreatedJob DEF StoredProperly
  <2>2. read[t] # Nothing /\ read[t].queue = job.queue /\ nextId <= MaxJobs
    BY <1>2 DEF Push
  <2>3. CASE Returns(t) /\ nextId' = nextId
    BY <1>a, <1>b, <2>2, <2>3, WriteKeepsForm DEF Returns
  <2>4. CASE Write(t, Insert(read[t].blob, nextId, job)) /\ nextId' = nextId + 1
    <3> HIDE DEF job
    <3>1. nextId + 1 \in 1..(MaxJobs + 1) /\ nextId + 1 \in Int /\ nextId <= nextId + 1
          /\ nextId \in 1..(nextId + 1 - 1)
      BY <1>a, <2>2
    <3>2. BlobForm(nextId + 1, Insert(read[t].blob, nextId, job), read[t].queue)
      BY <1>a, <1>b, <2>1, <2>2, <3>1, InsertForm
    <3> QED BY <2>2, <2>4, <3>1, <3>2, WriteKeepsForm
  <2> QED BY <1>2, <2>3, <2>4 DEF Push
<1>3. ASSUME NEW t \in Tabs, Pop(t) PROVE WellFormed'
  <2>1. PICK id \in Poppable(read[t].blob, QueueOf[t]) :
          \/ Write(t, Insert(read[t].blob, id, Reserve(read[t].blob.jobs[id])))
          \/ Ends(t) /\ UNCHANGED storage
    BY <1>3 DEF Pop
  <2>2. read[t] # Nothing /\ nextId' = nextId
    BY <1>3 DEF Pop, Polls
  <2>3. id \in DOMAIN read[t].blob.jobs
    BY DEF Poppable
  <2> DEFINE job == read[t].blob.jobs[id]
  <2>4. /\ id \in 1..(nextId - 1) /\ job \in Job /\ job.queue = read[t].queue
    BY <1>b, <2>2, <2>3, StoredJob
  <2> HIDE DEF job
  <2>5. Reserve(job) \in Job /\ Reserve(job).queue = read[t].queue
        /\ StoredProperly(Reserve(job))
    BY <2>4, JobOperationsType, ReserveWrites DEF StoredProperly
  <2>6. BlobForm(nextId, Insert(read[t].blob, id, Reserve(job)), read[t].queue)
    BY <1>a, <1>b, <2>2, <2>4, <2>5, InsertForm
  <2> QED BY <1>a, <2>1, <2>2, <2>6, WriteKeepsForm DEF job
<1>4. ASSUME NEW t \in Tabs, PopNothing(t) \/ SettleMissing(t) PROVE WellFormed'
  <2>1. read[t] # Nothing /\ Returns(t) /\ nextId' = nextId
    BY <1>4 DEF PopNothing, Polls, SettleMissing, Settles
  <2> QED BY <1>a, <1>b, <2>1, WriteKeepsForm DEF Returns
<1>5. ASSUME NEW t \in Tabs, Remove(t) PROVE WellFormed'
  <2>1. read[t] # Nothing /\ nextId' = nextId
    BY <1>5 DEF Remove, Settles
  <2> QED BY <1>a, <1>b, <1>5, <2>1, RemoveForm, WriteKeepsForm DEF Remove
<1>6. ASSUME NEW t \in Tabs, Release(t) \/ Fail(t) PROVE WellFormed'
  <2>1. /\ read[t] # Nothing /\ nextId' = nextId
        /\ hand[t].id \in DOMAIN read[t].blob.jobs
    BY <1>6 DEF Release, Fail, Settles, Found
  <2>2. BlobForm(nextId, read[t].blob, read[t].queue)
    BY <1>b, <2>1
  <2> QED BY <1>a, <1>6, <2>1, <2>2, MutateForm, WriteKeepsForm
          DEF Release, Fail, WriteOrDiscard, Returns
<1>7. ASSUME NEW t \in Tabs, NEW flag \in BOOLEAN, SetPaused(t, flag) PROVE WellFormed'
  <2>1. read[t] # Nothing /\ nextId' = nextId
    BY <1>7 DEF SetPaused
  <2> QED BY <1>a, <1>b, <1>7, <2>1, PausedForm, WriteKeepsForm DEF SetPaused, WriteOrDiscard, Returns
<1>8. ASSUME NEW t \in Tabs, Reload(t) PROVE WellFormed'
  BY <1>8 DEF Reload, WellFormed
<1>9. ASSUME NEW queue \in Queues, Clear(queue) PROVE WellFormed'
  <2>1. /\ DOMAIN storage' = Queues /\ UNCHANGED <<nextId, read>>
        /\ \A other \in Queues : storage'[other] \in {EmptyBlob, storage[other]}
    BY <1>9 DEF Clear, WellFormed
  <2> QED BY <2>1, EmptyForm DEF WellFormed
<1>10. CASE Elapse
  <2>1. /\ DOMAIN storage' = Queues /\ UNCHANGED <<nextId, read>>
        /\ \A queue \in Queues : storage'[queue] =
             [storage[queue] EXCEPT !.jobs = [id \in DOMAIN @ |-> Later(@[id])]]
    BY <1>10 DEF Elapse
  <2> QED BY <2>1, AgeForm DEF WellFormed
<1>11. CASE UNCHANGED local
  BY <1>11 DEF local, WellFormed
<1> QED
  BY <1>1, <1>2, <1>3, <1>4, <1>5, <1>6, <1>7, <1>8, <1>9, <1>10, <1>11
     DEF LocalStorageNext, TabStep

(* size() counts what waits or is reserved, whatever pendingSize() counts  *)
(* can be popped, and a drained queue has nothing to pop: also when tabs   *)
(* overlap and overwrite each other's blobs, and whatever the quota        *)
(* discards.                                                               *)
THEOREM LocalStorageCountsAgree == LocalStorageSpec => []CountsAgree
<1>1. WellFormed => CountsAgree
  <2> SUFFICES ASSUME WellFormed, NEW queue \in Queues
               PROVE  /\ Size(queue) = SizeOf(queue, "pending") + SizeOf(queue, "delayed")
                                                               + SizeOf(queue, "reserved")
                      /\ SizeOf(queue, "pending") <= Cardinality(Poppable(storage[queue], queue))
                      /\ Size(queue) = 0 => Poppable(storage[queue], queue) = {}
    BY DEF CountsAgree
  <2>1. PICK stored : stored = storage[queue].jobs
    OBVIOUS
  <2>2. Stored(nextId, stored, queue) /\ nextId - 1 \in Int
    BY <2>1, LocalStorageAssumption DEF WellFormed, BlobForm
  <2>3. IsFiniteSet(DOMAIN stored)
    BY <2>2, FiniteIds DEF Stored
  <2> QED BY <2>1, <2>2, <2>3, CountersAgree DEF Stored, Size, SizeOf, Poppable
<1> QED BY <1>1, FormInit, FormStep, PTL DEF LocalStorageSpec

-----------------------------------------------------------------------------
(* What a step does, said of the jobs that are not spoilt by then: a write *)
(* puts back what the method has read, and for those jobs that is what is  *)
(* stored.  So a step edits one job of one queue, or wipes, or ages.       *)
Elsewhere(queue, id) ==
  \A q \in Queues, other \in JobIds :
    other \notin spoilt' /\ ~(q = queue /\ other = id)
    => Agree(storage'[q].jobs, storage[q].jobs, other)

Same == \A q \in Queues, id \in JobIds :
          id \notin spoilt' => Agree(storage'[q].jobs, storage[q].jobs, id)

LetsGo(t) == hand' = [hand EXCEPT ![t] = Nothing]

Keeps == Same /\ nextId' = nextId /\ (hand' = hand \/ \E t \in Tabs : LetsGo(t))

Adds(options) ==
  /\ nextId <= MaxJobs /\ nextId' = nextId + 1 /\ hand' = hand
  /\ Elsewhere(options.queue, nextId)
  /\ nextId \in DOMAIN storage'[options.queue].jobs
  /\ storage'[options.queue].jobs[nextId] = CreateQueuedJob(options)

Takes(t, id, job) ==
  /\ hand' = [hand EXCEPT ![t] = [id |-> id, job |-> Reserve(job)]]
  /\ nextId' = nextId
  /\ id \in 1..(nextId - 1) /\ job \in Job /\ CanBePopped(job, QueueOf[t])
  /\ read[t] # Nothing /\ read[t].queue = QueueOf[t] /\ id \in DOMAIN read[t].blob.jobs
  /\ Elsewhere(QueueOf[t], id)
  /\ id \notin spoilt' =>
       /\ id \in DOMAIN storage[QueueOf[t]].jobs /\ storage[QueueOf[t]].jobs[id] = job
       /\ id \in DOMAIN storage'[QueueOf[t]].jobs
       /\ storage'[QueueOf[t]].jobs[id] = Reserve(job)

Forgets(queue, id) ==
  /\ Elsewhere(queue, id) /\ id \notin DOMAIN storage'[queue].jobs
  /\ nextId' = nextId
  /\ \E t \in Tabs : LetsGo(t)

Wipes(queue) ==
  /\ storage' = [storage EXCEPT ![queue] = EmptyBlob]
  /\ UNCHANGED <<nextId, hand>>

Changes(t, job, new) ==
  /\ hand[t] # Nothing /\ LetsGo(t) /\ nextId' = nextId
  /\ job \in Job /\ new \in {PutBack(job, RetryDelay), GiveUp(job)}
  /\ Elsewhere(QueueOf[t], hand[t].id)
  /\ hand[t].id \notin spoilt' =>
       /\ hand[t].id \in DOMAIN storage[QueueOf[t]].jobs
       /\ storage[QueueOf[t]].jobs[hand[t].id] = job
       /\ hand[t].id \in DOMAIN storage'[QueueOf[t]].jobs
       /\ storage'[QueueOf[t]].jobs[hand[t].id] = new

Grows ==
  /\ \A q \in Queues : /\ DOMAIN storage'[q].jobs = DOMAIN storage[q].jobs
                       /\ \A id \in DOMAIN storage[q].jobs :
                            storage'[q].jobs[id] = Later(storage[q].jobs[id])
  /\ UNCHANGED <<nextId, hand>>

StoreStep ==
  \/ Keeps
  \/ \E options \in Options : Adds(options)
  \/ \E t \in Tabs : \E id, job : Takes(t, id, job)
  \/ \E queue \in Queues : \E id : Forgets(queue, id)
  \/ \E queue \in Queues : Wipes(queue)
  \/ \E t \in Tabs : \E job, new : Changes(t, job, new)
  \/ Grows

(* Only jobs that push gave an id are ever spoilt, and they stay so.       *)
SpoiltKnown == spoilt \subseteq 1..(nextId - 1)

LEMMA StaleKnown ==
  ASSUME WellFormed, NEW t \in Tabs, read[t] # Nothing
  PROVE  Stale(t) \subseteq 1..(nextId - 1)
<1>1. PICK queue \in Queues : queue = read[t].queue
  BY DEF WellFormed
<1>2. BlobForm(nextId, read[t].blob, queue) /\ BlobForm(nextId, storage[queue], queue)
  BY <1>1 DEF WellFormed
<1>3. \A id : ~Agree(read[t].blob.jobs, storage[queue].jobs, id)
              => id \in DOMAIN read[t].blob.jobs \/ id \in DOMAIN storage[queue].jobs
  BY DEF Agree
<1> QED BY <1>1, <1>2, <1>3 DEF Stale, BlobForm, Stored

(* A write of an edited blob, for all jobs but the one it edits.           *)
EditsOnly(t, blob, id) ==
  \A other \in JobIds \ {id} : Agree(blob.jobs, read[t].blob.jobs, other)

LEMMA WriteElsewhere ==
  ASSUME WellFormed, NEW t \in Tabs, read[t] # Nothing, NEW queue, read[t].queue = queue,
         NEW blob, Write(t, blob), NEW id,
         EditsOnly(t, blob, id)
  PROVE  /\ Elsewhere(queue, id)
         /\ storage'[queue] = blob
         /\ id \in JobIds \ spoilt' => Agree(read[t].blob.jobs, storage[queue].jobs, id)
<1>1. queue \in Queues
  BY DEF WellFormed
<1>2. /\ storage'[queue] = blob
      /\ \A q \in Queues \ {queue} : storage'[q] = storage[q]
  BY <1>1 DEF Write, WellFormed
<1>3. \A other \in JobIds \ spoilt' : Agree(read[t].blob.jobs, storage[queue].jobs, other)
  BY <1>1 DEF Write, Stale
<1>4. \A other \in JobIds \ spoilt' : other # id => Agree(blob.jobs, storage[queue].jobs, other)
  BY <1>3 DEF Agree, EditsOnly
<1>5. \A q \in Queues \ {queue}, other \in JobIds : Agree(storage'[q].jobs, storage[q].jobs, other)
  BY <1>2 DEF Agree
<1>6. Elsewhere(queue, id)
  BY <1>2, <1>4, <1>5 DEF Elsewhere
<1> QED BY <1>2, <1>3, <1>6

LEMMA WriteSame ==
  ASSUME WellFormed, NEW t \in Tabs, read[t] # Nothing, NEW blob, Write(t, blob),
         blob.jobs = read[t].blob.jobs
  PROVE  Same
<1>1. PICK queue \in Queues : queue = read[t].queue
  BY DEF WellFormed
<1>2. /\ storage'[queue] = blob
      /\ \A q \in Queues \ {queue} : storage'[q] = storage[q]
  BY <1>1 DEF Write, WellFormed
<1>3. \A other \in JobIds \ spoilt' : Agree(blob.jobs, storage[queue].jobs, other)
  BY <1>1 DEF Write, Stale
<1> QED BY <1>2, <1>3 DEF Same, Agree

LEMMA UnchangedSame == UNCHANGED storage => Same
  BY DEF Same, Agree

LEMMA StepIsStoreStep ==
  ASSUME WellFormed, [LocalStorageNext]_local
  PROVE  StoreStep
<1> /\ nextId \in Int /\ nextId \in 1..(MaxJobs + 1) /\ MaxJobs \in Nat
    /\ QueueOf \in [Tabs -> Queues]
  BY LocalStorageAssumption DEF WellFormed
<1>b. ASSUME NEW t \in Tabs, read[t] # Nothing
      PROVE  /\ read[t].queue \in Queues
             /\ BlobForm(nextId, read[t].blob, read[t].queue) /\ Blob(read[t].blob)
             /\ DOMAIN read[t].blob.jobs \subseteq 1..(nextId - 1)
             /\ 1..(nextId - 1) \subseteq JobIds
  BY <1>b DEF WellFormed, BlobForm, Stored, JobIds
<1>1. ASSUME NEW t \in Tabs, NEW queue \in Queues, Read(t, queue) PROVE Keeps
  BY <1>1, UnchangedSame DEF Read, Keeps
<1>2. ASSUME NEW t \in Tabs, NEW options \in Options, Push(t, options)
      PROVE  Keeps \/ Adds(options)
  <2> DEFINE job == CreateQueuedJob(options)
  <2>1. read[t] # Nothing /\ read[t].queue = options.queue /\ hand' = hand /\ nextId <= MaxJobs
    BY <1>2, CreatedJob DEF Push
  <2> HIDE DEF job
  <2>2. CASE Returns(t) /\ nextId' = nextId
    BY <2>1, <2>2, UnchangedSame DEF Returns, Keeps
  <2>3. CASE Write(t, Insert(read[t].blob, nextId, job)) /\ nextId' = nextId + 1
    <3>1. PICK blob : blob = Insert(read[t].blob, nextId, job) /\ Write(t, blob)
      BY <2>3
    <3>2. blob.jobs = [other \in DOMAIN read[t].blob.jobs \cup {nextId} |->
                         IF other = nextId THEN job ELSE read[t].blob.jobs[other]]
      <4>1. PICK old : old = read[t].blob /\ Blob(old)
        BY <1>b, <2>1
      <4>2. blob = Insert(old, nextId, job)
        BY <3>1, <4>1
      <4>3. blob.jobs = [other \in DOMAIN old.jobs \cup {nextId} |->
                           IF other = nextId THEN job ELSE old.jobs[other]]
        BY <4>1, <4>2, Inserts
      <4> QED BY <4>1, <4>3
    <3>3. EditsOnly(t, blob, nextId)
      BY <3>2 DEF Agree, EditsOnly
    <3>4. Elsewhere(options.queue, nextId) /\ storage'[options.queue] = blob
      <4>1. PICK queue, id : queue = options.queue /\ id = nextId
        OBVIOUS
      <4>2. read[t] # Nothing /\ read[t].queue = queue /\ Write(t, blob)
        BY <2>1, <3>1, <4>1
      <4>3. EditsOnly(t, blob, id)
        BY <3>3, <4>1 DEF EditsOnly
      <4>4. Elsewhere(queue, id) /\ storage'[queue] = blob
        BY <4>2, <4>3, WriteElsewhere
      <4> QED BY <4>1, <4>4 DEF Elsewhere
    <3>5. nextId \in DOMAIN blob.jobs /\ blob.jobs[nextId] = job
      BY <3>2
    <3> QED BY <2>1, <2>3, <3>4, <3>5 DEF Adds, job
  <2> QED BY <1>2, <2>2, <2>3 DEF Push, job
<1>3. ASSUME NEW t \in Tabs, Pop(t)
      PROVE  \E id, job : Takes(t, id, job)
  <2>1. PICK id \in Poppable(read[t].blob, QueueOf[t]) :
          LET job == Reserve(read[t].blob.jobs[id])
          IN  /\ \/ Write(t, Insert(read[t].blob, id, job))
                 \/ spoilt' = spoilt \cup {id} /\ UNCHANGED storage
              /\ hand' = [hand EXCEPT ![t] = [id |-> id, job |-> job]]
    BY <1>3 DEF Pop
  <2>2. read[t] # Nothing /\ read[t].queue = QueueOf[t] /\ nextId' = nextId
    BY <1>3 DEF Pop, Polls
  <2>3. PICK job : job = read[t].blob.jobs[id]
    OBVIOUS
  <2>4. /\ id \in DOMAIN read[t].blob.jobs /\ id \in 1..(nextId - 1) /\ id \in JobIds
        /\ job \in Job /\ CanBePopped(job, QueueOf[t])
    BY <1>b, <2>2, <2>3, StoredJob DEF Poppable
  <2>5. CASE Write(t, Insert(read[t].blob, id, Reserve(job)))
    <3>1. PICK blob : blob = Insert(read[t].blob, id, Reserve(job)) /\ Write(t, blob)
      BY <2>5
    <3>2. blob.jobs = [other \in DOMAIN read[t].blob.jobs \cup {id} |->
                         IF other = id THEN Reserve(job) ELSE read[t].blob.jobs[other]]
      <4>1. PICK old, new : old = read[t].blob /\ Blob(old) /\ new = Reserve(job)
        BY <1>b, <2>2
      <4>2. blob = Insert(old, id, new)
        BY <3>1, <4>1
      <4>3. blob.jobs = [other \in DOMAIN old.jobs \cup {id} |->
                           IF other = id THEN new ELSE old.jobs[other]]
        BY <4>1, <4>2, Inserts
      <4> QED BY <4>1, <4>3
    <3>3. EditsOnly(t, blob, id)
      BY <3>2 DEF Agree, EditsOnly
    <3>4. /\ Elsewhere(QueueOf[t], id) /\ storage'[QueueOf[t]] = blob
          /\ id \notin spoilt' => Agree(read[t].blob.jobs, storage[QueueOf[t]].jobs, id)
      BY <2>2, <2>4, <3>1, <3>3, WriteElsewhere
    <3>5. id \in DOMAIN blob.jobs /\ blob.jobs[id] = Reserve(job)
      BY <3>2
    <3>6. id \notin spoilt' => id \in DOMAIN storage[QueueOf[t]].jobs
                               /\ storage[QueueOf[t]].jobs[id] = job
      BY <2>3, <2>4, <3>4 DEF Agree
    <3>7. Takes(t, id, job)
      BY <2>1, <2>2, <2>3, <2>4, <3>4, <3>5, <3>6 DEF Takes
    <3> QED BY <3>7
  <2>6. CASE spoilt' = spoilt \cup {id} /\ UNCHANGED storage
    <3>1. Elsewhere(QueueOf[t], id) /\ id \in spoilt'
      BY <2>6 DEF Elsewhere, Agree
    <3>2. Takes(t, id, job)
      BY <2>1, <2>2, <2>3, <2>4, <3>1 DEF Takes
    <3> QED BY <3>2
  <2> QED BY <2>1, <2>3, <2>5, <2>6
<1>4. ASSUME NEW t \in Tabs, PopNothing(t) PROVE Keeps
  BY <1>4, UnchangedSame DEF PopNothing, Returns, Keeps
<1>5. ASSUME NEW t \in Tabs, Settles(t), UNCHANGED storage PROVE Keeps
  BY <1>5, UnchangedSame DEF Settles, LetsGo, Keeps
<1>6. ASSUME NEW t \in Tabs, Settles(t), Found(t)
      PROVE  /\ read[t] # Nothing /\ read[t].queue = QueueOf[t] /\ hand[t] # Nothing
             /\ hand[t].id \in DOMAIN read[t].blob.jobs /\ hand[t].id \in JobIds
             /\ read[t].blob.jobs[hand[t].id] \in Job
             /\ nextId' = nextId /\ LetsGo(t)
  <2>1. read[t] # Nothing /\ read[t].queue = QueueOf[t] /\ hand[t] # Nothing
        /\ hand[t].id \in DOMAIN read[t].blob.jobs
    BY <1>6 DEF Settles, Found
  <2> QED BY <1>6, <1>b, <2>1, StoredJob DEF Settles, Found, LetsGo
<1>7. ASSUME NEW t \in Tabs, Remove(t)
      PROVE  \E queue \in Queues : \E id : Forgets(queue, id)
  <2>1. Settles(t) /\ Found(t)
    BY <1>7 DEF Remove
  <2>2. PICK held : held = hand[t].id
    OBVIOUS
  <2>3. PICK old, queue : old = read[t].blob /\ queue = QueueOf[t] /\ queue \in Queues
    OBVIOUS
  <2>4. PICK rest : rest = [old EXCEPT !.jobs = Restrict(@, DOMAIN @ \ {held})] /\ Write(t, rest)
    BY <1>7, <2>2, <2>3 DEF Remove
  <2>5. rest.jobs = [id \in DOMAIN old.jobs \ {held} |-> old.jobs[id]]
    <3>1. Blob(old)
      BY <1>6, <1>b, <2>1, <2>3
    <3> QED BY <2>4, <3>1, Removes
  <2>6. EditsOnly(t, rest, held)
    BY <2>3, <2>5 DEF Agree, EditsOnly
  <2>7. Elsewhere(queue, held) /\ storage'[queue] = rest
    <3>1. read[t] # Nothing /\ read[t].queue = queue /\ Write(t, rest)
      BY <1>6, <2>1, <2>3, <2>4
    <3>2. Elsewhere(queue, held)
      BY <2>6, <3>1, WriteElsewhere, Zenon
    <3>3. storage'[queue] = rest
      BY <2>3, <3>1 DEF Write, WellFormed
    <3> QED BY <3>2, <3>3
  <2>8. held \notin DOMAIN rest.jobs
    BY <2>5
  <2>9. Forgets(queue, held)
    BY <1>6, <2>1, <2>7, <2>8 DEF Forgets
  <2> QED BY <2>3, <2>9
<1>8. ASSUME NEW t \in Tabs, Settles(t), Found(t), NEW blob, Write(t, blob), NEW new,
             new \in {PutBack(read[t].blob.jobs[hand[t].id], RetryDelay),
                      GiveUp(read[t].blob.jobs[hand[t].id])},
             blob.jobs = [read[t].blob.jobs EXCEPT ![hand[t].id] = new]
      PROVE  \E job : Changes(t, job, new)
  <2>1. PICK held, job : held = hand[t].id /\ job = read[t].blob.jobs[held]
    OBVIOUS
  <2>2. EditsOnly(t, blob, held)
    BY <1>8, <2>1 DEF Agree, EditsOnly
  <2>3. /\ Elsewhere(QueueOf[t], held) /\ storage'[QueueOf[t]] = blob
        /\ held \notin spoilt' => Agree(read[t].blob.jobs, storage[QueueOf[t]].jobs, held)
    BY <1>6, <1>8, <2>1, <2>2, WriteElsewhere
  <2>4. held \in DOMAIN read[t].blob.jobs /\ held \in DOMAIN blob.jobs /\ blob.jobs[held] = new
    BY <1>6, <1>8, <2>1
  <2>5. held \notin spoilt' => held \in DOMAIN storage[QueueOf[t]].jobs
                               /\ storage[QueueOf[t]].jobs[held] = job
    BY <2>1, <2>3, <2>4 DEF Agree
  <2>6. Changes(t, job, new)
    BY <1>6, <1>8, <2>1, <2>3, <2>4, <2>5 DEF Changes
  <2> QED BY <2>6
<1>9. ASSUME NEW t \in Tabs, Release(t) \/ Fail(t)
      PROVE  Keeps \/ \E job, new : Changes(t, job, new)
  <2>1. Settles(t) /\ Found(t) /\ hand[t].id \in DOMAIN read[t].blob.jobs /\ Blob(read[t].blob)
    BY <1>6, <1>9, <1>b DEF Release, Fail
  <2>2. CASE Release(t)
    <3>1. PICK blob : /\ blob = [read[t].blob EXCEPT !.jobs[hand[t].id] = PutBack(@, RetryDelay)]
                      /\ Write(t, blob)
      BY <2>2 DEF Release
    <3>2. blob.jobs = [read[t].blob.jobs EXCEPT
                         ![hand[t].id] = PutBack(read[t].blob.jobs[hand[t].id], RetryDelay)]
      BY <2>1, <3>1, Mutates
    <3> QED BY <1>8, <2>1, <3>1, <3>2
  <2>3. CASE Fail(t) /\ ~Returns(t)
    <3>1. PICK blob : /\ blob = [read[t].blob EXCEPT !.jobs[hand[t].id] = GiveUp(@)]
                      /\ Write(t, blob)
      BY <2>3 DEF Fail, WriteOrDiscard
    <3>2. blob.jobs = [read[t].blob.jobs EXCEPT
                         ![hand[t].id] = GiveUp(read[t].blob.jobs[hand[t].id])]
      BY <2>1, <3>1, Mutates
    <3> QED BY <1>8, <2>1, <3>1, <3>2
  <2> QED BY <1>5, <1>9, <2>1, <2>2, <2>3 DEF Returns
<1>10. ASSUME NEW t \in Tabs, NEW flag \in BOOLEAN, SetPaused(t, flag) PROVE Keeps
  <2>1. read[t] # Nothing
    BY <1>10 DEF SetPaused
  <2>2. PICK edited : /\ edited = [read[t].blob EXCEPT !.paused = flag]
                      /\ Write(t, edited) \/ Returns(t)
    BY <1>10 DEF SetPaused, WriteOrDiscard
  <2>3. edited.jobs = read[t].blob.jobs
    BY <1>b, <2>1, <2>2, PausedEdited
  <2>4. Same
    BY <2>1, <2>2, <2>3, WriteSame, UnchangedSame DEF Returns
  <2> QED BY <1>10, <2>4 DEF SetPaused, Keeps
<1>11. ASSUME NEW t \in Tabs, Reload(t) PROVE Keeps
  BY <1>11, UnchangedSame DEF Reload, Keeps, LetsGo
<1>12. ASSUME NEW queue \in Queues, Clear(queue) PROVE Wipes(queue)
  BY <1>12 DEF Clear, Wipes
<1>13. ASSUME Elapse PROVE Grows
  <2>1. ASSUME NEW queue \in Queues
        PROVE  storage'[queue].jobs = [id \in DOMAIN storage[queue].jobs |-> Later(storage[queue].jobs[id])]
    <3>1. PICK old : old = storage[queue] /\ Blob(old)
      BY DEF WellFormed, BlobForm
    <3>2. storage'[queue] = [old EXCEPT !.jobs = [id \in DOMAIN @ |-> Later(@[id])]]
      BY <1>13, <3>1 DEF Elapse
    <3>3. storage'[queue].jobs = [id \in DOMAIN old.jobs |-> Later(old.jobs[id])]
      BY <3>1, <3>2, Ages
    <3> QED BY <3>1, <3>3
  <2>2. ASSUME NEW queue \in Queues
        PROVE  /\ DOMAIN storage'[queue].jobs = DOMAIN storage[queue].jobs
               /\ \A id \in DOMAIN storage[queue].jobs :
                    storage'[queue].jobs[id] = Later(storage[queue].jobs[id])
    <3>1. PICK old, new : old = storage[queue].jobs /\ new = storage'[queue].jobs
      OBVIOUS
    <3>2. new = [id \in DOMAIN old |-> Later(old[id])]
      BY <2>1, <3>1
    <3>3. DOMAIN new = DOMAIN old /\ \A id \in DOMAIN old : new[id] = Later(old[id])
      BY <3>2
    <3> QED BY <3>1, <3>3
  <2>3. UNCHANGED <<nextId, hand>>
    BY <1>13 DEF Elapse
  <2> QED BY <2>2, <2>3 DEF Grows
<1>14. ASSUME UNCHANGED local PROVE Keeps
  BY <1>14, UnchangedSame DEF local, Keeps
<1>16. ASSUME NEW t \in Tabs, TabStep(t) PROVE StoreStep
  <2>1. CASE \E queue \in Queues : Read(t, queue)
    BY <1>1, <2>1 DEF StoreStep
  <2>2. CASE \E options \in Options : Push(t, options)
    BY <1>2, <2>2 DEF StoreStep
  <2>3. CASE Pop(t)
    BY <1>3, <2>3 DEF StoreStep
  <2>4. CASE PopNothing(t)
    BY <1>4, <2>4 DEF StoreStep
  <2>5. CASE SettleMissing(t)
    BY <1>5, <2>5 DEF StoreStep, SettleMissing, Returns
  <2>6. CASE Remove(t)
    BY <1>7, <2>6 DEF StoreStep
  <2>7. CASE Release(t) \/ Fail(t)
    BY <1>9, <2>7 DEF StoreStep
  <2>9. CASE \E flag \in BOOLEAN : SetPaused(t, flag)
    BY <1>10, <2>9 DEF StoreStep
  <2>10. CASE Reload(t)
    BY <1>11, <2>10 DEF StoreStep
  <2> QED
    BY <1>16, <2>1, <2>2, <2>3, <2>4, <2>5, <2>6, <2>7, <2>9, <2>10 DEF TabStep
<1>17. ASSUME NEW queue \in Queues, Clear(queue) PROVE StoreStep
  BY <1>12, <1>17 DEF StoreStep
<1> QED BY <1>13, <1>14, <1>16, <1>17 DEF LocalStorageNext, StoreStep

-----------------------------------------------------------------------------
(* A job has one home, the queue it was dispatched to: no other queue's    *)
(* blob ever has it, stored or read, and only a worker of it gets the job. *)
Homes(home) ==
  /\ \A q \in Queues : \A id \in DOMAIN storage[q].jobs : home[id] = q
  /\ \A t \in Tabs : read[t] # Nothing =>
       \A id \in DOMAIN read[t].blob.jobs : home[id] = read[t].queue
  /\ \A t \in Tabs : hand[t] # Nothing => home[hand[t].id] = QueueOf[t]

OneHome == \E home : DOMAIN home = Nat /\ Homes(home)

(* Where the jobs of a blob come from: they were stored or read before, or *)
(* are the one that push adds.                                             *)
Origins(new) ==
  /\ \A q \in Queues : \A id \in DOMAIN storage'[q].jobs :
       \/ id \in DOMAIN storage[q].jobs
       \/ \E t \in Tabs : read[t] # Nothing /\ read[t].queue = q
                          /\ id \in DOMAIN read[t].blob.jobs
       \/ id = nextId /\ q = new
  /\ \A t \in Tabs : read'[t] # Nothing =>
       \/ read'[t] = read[t]
       \/ \E q \in Queues : read'[t] = [queue |-> q, blob |-> storage[q]]

LEMMA StepOrigins ==
  ASSUME WellFormed, [LocalStorageNext]_local
  PROVE  \E new : Origins(new)
<1>1. ASSUME NEW t \in Tabs, read[t] # Nothing, NEW new, NEW blob,
             DOMAIN blob.jobs \subseteq DOMAIN read[t].blob.jobs
               \cup (IF read[t].queue = new THEN {nextId} ELSE {}),
             Write(t, blob) \/ (Ends(t) /\ UNCHANGED storage)
      PROVE  Origins(new)
  <2>1. PICK queue \in Queues : queue = read[t].queue
    BY <1>1 DEF WellFormed
  <2>2. \A q \in Queues : storage'[q] = storage[q] \/ (q = queue /\ storage'[q] = blob)
    BY <1>1, <2>1 DEF Write, WellFormed
  <2>3. \A u \in Tabs : read'[u] = Nothing \/ read'[u] = read[u]
    BY <1>1 DEF Write, Ends, WellFormed
  <2>4. ASSUME NEW q \in Queues, NEW id \in DOMAIN storage'[q].jobs,
               id \notin DOMAIN storage[q].jobs
        PROVE  \/ read[t].queue = q /\ id \in DOMAIN read[t].blob.jobs
               \/ id = nextId /\ q = new
    <3>1. q = queue /\ id \in DOMAIN blob.jobs
      BY <2>2, <2>4
    <3> QED BY <1>1, <2>1, <3>1
  <2> QED BY <1>1, <2>3, <2>4 DEF Origins
<1>a. ASSUME NEW t \in Tabs, read[t] # Nothing PROVE Blob(read[t].blob)
  BY <1>a DEF WellFormed, BlobForm
<1>b. ASSUME NEW t \in Tabs, read[t] # Nothing, NEW blob,
             DOMAIN blob.jobs \subseteq DOMAIN read[t].blob.jobs,
             Write(t, blob) \/ (Ends(t) /\ UNCHANGED storage)
      PROVE  \E new : Origins(new)
  <2>1. PICK new : new = read[t].queue
    OBVIOUS
  <2>2. Origins(new)
    BY <1>1, <1>b, <2>1
  <2> QED BY <2>2
<1>2. ASSUME NEW t \in Tabs, NEW queue \in Queues, Read(t, queue) PROVE \E new : Origins(new)
  BY <1>2 DEF Read, Origins, WellFormed
<1>3. ASSUME NEW t \in Tabs, NEW options \in Options, Push(t, options)
      PROVE  \E new : Origins(new)
  <2>1. PICK job : job = CreateQueuedJob(options)
    OBVIOUS
  <2>2. /\ read[t] # Nothing
        /\ \/ Write(t, Insert(read[t].blob, nextId, job))
           \/ Ends(t) /\ UNCHANGED storage
    BY <1>3, <2>1 DEF Push, Returns
  <2>3. PICK old, id, new : old = read[t].blob /\ id = nextId /\ new = read[t].queue
    OBVIOUS
  <2>4. PICK blob : blob = Insert(old, id, job)
    OBVIOUS
  <2>5. DOMAIN blob.jobs = DOMAIN old.jobs \cup {id}
    <3>1. Blob(old)
      BY <1>a, <2>2, <2>3
    <3>2. blob.jobs = [other \in DOMAIN old.jobs \cup {id} |-> IF other = id THEN job
                                                                           ELSE old.jobs[other]]
      BY <2>4, <3>1, Inserts
    <3> QED BY <3>2
  <2>6. Write(t, blob) \/ (Ends(t) /\ UNCHANGED storage)
    BY <2>2, <2>3, <2>4
  <2>7. Origins(new)
    BY <1>1, <2>2, <2>3, <2>5, <2>6
  <2> QED BY <2>7
<1>4. ASSUME NEW t \in Tabs, Pop(t) PROVE \E new : Origins(new)
  <2>1. PICK id \in Poppable(read[t].blob, QueueOf[t]) :
          \/ Write(t, Insert(read[t].blob, id, Reserve(read[t].blob.jobs[id])))
          \/ Ends(t) /\ UNCHANGED storage
    BY <1>4 DEF Pop
  <2>2. read[t] # Nothing /\ id \in DOMAIN read[t].blob.jobs
    BY <1>4, <2>1 DEF Pop, Polls, Poppable
  <2>3. PICK old, job : old = read[t].blob /\ job = Reserve(read[t].blob.jobs[id])
    OBVIOUS
  <2>4. PICK blob : blob = Insert(old, id, job)
    OBVIOUS
  <2>5. DOMAIN blob.jobs = DOMAIN old.jobs \cup {id}
    <3>1. Blob(old)
      BY <1>a, <2>2, <2>3
    <3>2. blob.jobs = [other \in DOMAIN old.jobs \cup {id} |-> IF other = id THEN job
                                                                           ELSE old.jobs[other]]
      BY <2>4, <3>1, Inserts
    <3> QED BY <3>2
  <2>6. Write(t, blob) \/ (Ends(t) /\ UNCHANGED storage)
    BY <2>1, <2>3, <2>4
  <2> QED BY <1>b, <2>2, <2>3, <2>5, <2>6
<1>5. ASSUME NEW t \in Tabs, read[t] # Nothing, Returns(t) PROVE \E new : Origins(new)
  BY <1>b, <1>5 DEF Returns
<1>6. ASSUME NEW t \in Tabs, Remove(t) PROVE \E new : Origins(new)
  <2>1. read[t] # Nothing
    BY <1>6 DEF Remove, Settles
  <2>2. PICK old, held : old = read[t].blob /\ held = hand[t].id
    OBVIOUS
  <2>3. PICK rest : rest = [old EXCEPT !.jobs = Restrict(@, DOMAIN @ \ {held})] /\ Write(t, rest)
    BY <1>6, <2>2 DEF Remove
  <2>4. DOMAIN rest.jobs = DOMAIN old.jobs \ {held}
    <3>1. Blob(old)
      BY <1>a, <2>1, <2>2
    <3>2. rest.jobs = [id \in DOMAIN old.jobs \ {held} |-> old.jobs[id]]
      BY <2>3, <3>1, Removes
    <3> QED BY <3>2
  <2> QED BY <1>b, <2>1, <2>2, <2>3, <2>4
<1>7. ASSUME NEW t \in Tabs, Release(t) \/ Fail(t) PROVE \E new : Origins(new)
  <2>1. read[t] # Nothing /\ hand[t].id \in DOMAIN read[t].blob.jobs
    BY <1>7 DEF Release, Fail, Settles, Found
  <2>2. CASE Returns(t)
    BY <1>5, <2>1, <2>2
  <2>3. PICK old, held : old = read[t].blob /\ held = hand[t].id
    OBVIOUS
  <2>4. Blob(old) /\ held \in DOMAIN old.jobs
    BY <1>a, <2>1, <2>3
  <2>5. CASE Write(t, [old EXCEPT !.jobs[held] = PutBack(@, RetryDelay)])
    <3>1. PICK blob : blob = [old EXCEPT !.jobs[held] = PutBack(@, RetryDelay)] /\ Write(t, blob)
      BY <2>5
    <3>2. DOMAIN blob.jobs = DOMAIN old.jobs
      BY <2>4, <3>1, Mutates
    <3> QED BY <1>b, <2>1, <2>3, <3>1, <3>2
  <2>6. CASE Write(t, [old EXCEPT !.jobs[held] = GiveUp(@)])
    <3>1. PICK blob : blob = [old EXCEPT !.jobs[held] = GiveUp(@)] /\ Write(t, blob)
      BY <2>6
    <3>2. DOMAIN blob.jobs = DOMAIN old.jobs
      BY <2>4, <3>1, Mutates
    <3> QED BY <1>b, <2>1, <2>3, <3>1, <3>2
  <2> QED BY <1>7, <2>2, <2>3, <2>5, <2>6 DEF Release, Fail, WriteOrDiscard
<1>8. ASSUME NEW t \in Tabs, NEW flag \in BOOLEAN, SetPaused(t, flag) PROVE \E new : Origins(new)
  <2>1. read[t] # Nothing
    BY <1>8 DEF SetPaused
  <2>2. CASE Returns(t)
    BY <1>5, <2>1, <2>2
  <2>3. PICK blob : blob = [read[t].blob EXCEPT !.paused = flag]
    OBVIOUS
  <2>4. blob.jobs = read[t].blob.jobs
    BY <1>a, <2>1, <2>3, PausedEdited
  <2> QED BY <1>8, <1>b, <2>1, <2>2, <2>3, <2>4 DEF SetPaused, WriteOrDiscard
<1>9. ASSUME NEW t \in Tabs, Reload(t) PROVE \E new : Origins(new)
  BY <1>9 DEF Reload, Origins, WellFormed
<1>10. ASSUME NEW queue \in Queues, Clear(queue) PROVE \E new : Origins(new)
  <2>1. \A q \in Queues : storage'[q] \in {storage[q], EmptyBlob}
    BY <1>10 DEF Clear, WellFormed
  <2>2. DOMAIN EmptyBlob.jobs = {}
    BY DEF EmptyBlob
  <2>3. \A q \in Queues : \A id \in DOMAIN storage'[q].jobs : id \in DOMAIN storage[q].jobs
    BY <2>1, <2>2
  <2> QED BY <1>10, <2>3 DEF Clear, Origins
<1>11. ASSUME Elapse PROVE \E new : Origins(new)
  <2>1. ASSUME NEW q \in Queues PROVE DOMAIN storage'[q].jobs = DOMAIN storage[q].jobs
    <3>1. PICK old : old = storage[q] /\ Blob(old)
      BY DEF WellFormed, BlobForm
    <3>2. storage'[q] = [old EXCEPT !.jobs = [id \in DOMAIN @ |-> Later(@[id])]]
      BY <1>11, <3>1 DEF Elapse
    <3> QED BY <3>1, <3>2, Ages
  <2>2. read' = read
    BY <1>11 DEF Elapse
  <2> QED BY <2>1, <2>2 DEF Origins
<1>12. ASSUME UNCHANGED local PROVE \E new : Origins(new)
  BY <1>12 DEF local, Origins
<1>13. ASSUME NEW t \in Tabs, PopNothing(t) \/ SettleMissing(t) PROVE \E new : Origins(new)
  BY <1>5, <1>13 DEF PopNothing, Polls, SettleMissing, Settles
<1> QED
  BY <1>2, <1>3, <1>4, <1>6, <1>7, <1>8, <1>9, <1>10, <1>11, <1>12, <1>13
     DEF LocalStorageNext, TabStep

(* What a tab gets its hands on, it has read from the queue it polls.      *)
LEMMA HandsStep ==
  ASSUME DOMAIN hand = Tabs, StoreStep
  PROVE  /\ DOMAIN hand' = Tabs
         /\ \A t \in Tabs : hand'[t] # Nothing =>
              \/ hand'[t] = hand[t]
              \/ \E id, job : Takes(t, id, job) /\ hand'[t] = [id |-> id, job |-> Reserve(job)]
<1>1. ASSUME NEW t \in Tabs, NEW id, NEW job, Takes(t, id, job)
      PROVE  DOMAIN hand' = Tabs /\ hand'[t] = [id |-> id, job |-> Reserve(job)]
             /\ \A u \in Tabs \ {t} : hand'[u] = hand[u]
  BY <1>1 DEF Takes
<1>2. ASSUME hand' = hand \/ \E t \in Tabs : LetsGo(t)
      PROVE  DOMAIN hand' = Tabs /\ \A t \in Tabs : hand'[t] = Nothing \/ hand'[t] = hand[t]
  <2>1. CASE hand' = hand
    BY <2>1
  <2>2. ASSUME NEW t \in Tabs, LetsGo(t)
        PROVE  DOMAIN hand' = Tabs /\ \A u \in Tabs : hand'[u] = Nothing \/ hand'[u] = hand[u]
    BY <2>2 DEF LetsGo
  <2> QED BY <1>2, <2>1, <2>2
<1>3. CASE \E t \in Tabs : \E id, job : Takes(t, id, job)
  <2>0. PICK t \in Tabs : \E id, job : Takes(t, id, job)
    BY <1>3
  <2>1. PICK id, job : Takes(t, id, job)
    BY <2>0
  <2>2. DOMAIN hand' = Tabs /\ \A u \in Tabs \ {t} : hand'[u] = hand[u]
    BY <1>1, <2>1
  <2>3. hand'[t] = [id |-> id, job |-> Reserve(job)]
    BY <1>1, <2>1
  <2> QED BY <2>1, <2>2, <2>3
<1>4. CASE hand' = hand \/ \E t \in Tabs : LetsGo(t)
  BY <1>2, <1>4
<1>5. (hand' = hand \/ \E t \in Tabs : LetsGo(t)) \/ \E t \in Tabs : \E id, job : Takes(t, id, job)
  <2>1. ASSUME Keeps \/ Grows \/ (\E options \in Options : Adds(options))
               \/ (\E queue \in Queues : Wipes(queue))
        PROVE  hand' = hand \/ \E t \in Tabs : LetsGo(t)
    BY <2>1 DEF Keeps, Grows, Adds, Wipes
  <2>2. ASSUME NEW queue \in Queues, NEW id, Forgets(queue, id) PROVE \E t \in Tabs : LetsGo(t)
    BY <2>2 DEF Forgets
  <2>3. ASSUME NEW t \in Tabs, NEW job, NEW new, Changes(t, job, new) PROVE LetsGo(t)
    BY <2>3 DEF Changes
  <2> QED BY <2>1, <2>2, <2>3, Zenon DEF StoreStep
<1> QED BY <1>3, <1>4, <1>5

LEMMA OneHomeStep ==
  ASSUME WellFormed, OneHome, DOMAIN hand = Tabs,
         \A t \in Tabs : hand[t] # Nothing => hand[t].id \in 1..(nextId - 1),
         StoreStep, [LocalStorageNext]_local
  PROVE  OneHome'
<1>1. PICK home : DOMAIN home = Nat /\ Homes(home)
  BY DEF OneHome
<1>2. PICK new : Origins(new)
  BY StepOrigins
<1>3. nextId \in Nat /\ QueueOf \in [Tabs -> Queues]
  BY LocalStorageAssumption DEF WellFormed
<1>4. \A q \in Queues : \A id \in DOMAIN storage[q].jobs : id \in Nat /\ id # nextId
  BY <1>3 DEF WellFormed, BlobForm, Stored
<1>5. \A t \in Tabs : read[t] # Nothing =>
        \A id \in DOMAIN read[t].blob.jobs : id \in Nat /\ id # nextId
  BY <1>3 DEF WellFormed, BlobForm, Stored
<1>6. PICK next : next = nextId /\ next \in Nat
  BY <1>3
<1> DEFINE moved == [id \in Nat |-> IF id = next THEN new ELSE home[id]]
<1>7. \A id \in Nat : moved[id] = IF id = next THEN new ELSE home[id]
  OBVIOUS
<1>8. DOMAIN moved = Nat
  OBVIOUS
<1> HIDE DEF moved
<1>9. \A q \in Queues : \A id \in DOMAIN storage'[q].jobs : moved[id] = q
  BY <1>1, <1>2, <1>4, <1>5, <1>6, <1>7 DEF Homes, Origins
<1>10. ASSUME NEW t \in Tabs, read'[t] # Nothing, NEW id \in DOMAIN read'[t].blob.jobs
       PROVE  moved[id] = read'[t].queue
  <2>1. CASE read'[t] = read[t]
    BY <1>1, <1>5, <1>6, <1>7, <1>10, <2>1 DEF Homes
  <2>2. CASE \E q \in Queues : read'[t] = [queue |-> q, blob |-> storage[q]]
    BY <1>1, <1>4, <1>6, <1>7, <1>10, <2>2 DEF Homes
  <2> QED BY <1>2, <1>10, <2>1, <2>2 DEF Origins
<1>11. ASSUME NEW t \in Tabs, hand'[t] # Nothing PROVE moved[hand'[t].id] = QueueOf[t]
  <2>1. CASE hand'[t] = hand[t]
    <3>1. hand[t].id \in Nat /\ hand[t].id # next /\ home[hand[t].id] = QueueOf[t]
      BY <1>1, <1>3, <1>6, <1>11, <2>1 DEF Homes
    <3> QED BY <1>7, <2>1, <3>1
  <2>2. CASE \E id, job : Takes(t, id, job) /\ hand'[t] = [id |-> id, job |-> Reserve(job)]
    <3>1. PICK id, job : Takes(t, id, job) /\ hand'[t] = [id |-> id, job |-> Reserve(job)]
      BY <2>2
    <3>2. hand'[t].id = id
      BY <3>1
    <3>3. home[id] = QueueOf[t] /\ id \in Nat /\ id # next
      BY <1>1, <1>5, <1>6, <3>1 DEF Takes, Homes
    <3> QED BY <1>7, <3>2, <3>3
  <2> QED BY <1>11, <2>1, <2>2, HandsStep
<1>12. Homes(moved)'
  BY <1>9, <1>10, <1>11 DEF Homes
<1> QED BY <1>8, <1>12 DEF OneHome

-----------------------------------------------------------------------------
(* The invariant: what a tab holds is reserved, stored on its queue as it  *)
(* believes, if anywhere, and nobody else's, unless it is spoilt.          *)
Holds(t) ==
  hand[t] # Nothing =>
    /\ hand[t].id \in 1..(nextId - 1)
    /\ hand[t].id \notin spoilt =>
         /\ hand[t].job.status = "reserved" /\ hand[t].job.dueIn = 0
         /\ hand[t].id \in DOMAIN storage[QueueOf[t]].jobs
            => storage[QueueOf[t]].jobs[hand[t].id] = hand[t].job
         /\ \A u \in Tabs : hand[u] # Nothing /\ hand[u].id = hand[t].id => u = t

StoreInv ==
  /\ WellFormed /\ SpoiltKnown /\ OneHome
  /\ DOMAIN hand = Tabs /\ \A t \in Tabs : Holds(t)

LEMMA SpoiltStep ==
  ASSUME WellFormed, SpoiltKnown, [LocalStorageNext]_local
  PROVE  spoilt \subseteq spoilt' /\ spoilt' \subseteq 1..(nextId - 1)
<1>1. ASSUME NEW t \in Tabs, read[t] # Nothing,
             (\E blob : Write(t, blob)) \/ UNCHANGED spoilt
      PROVE  spoilt \subseteq spoilt' /\ spoilt' \subseteq 1..(nextId - 1)
  BY <1>1, StaleKnown DEF Write, SpoiltKnown
<1>2. ASSUME UNCHANGED spoilt
      PROVE  spoilt \subseteq spoilt' /\ spoilt' \subseteq 1..(nextId - 1)
  BY <1>2 DEF SpoiltKnown
<1>3. ASSUME NEW t \in Tabs, NEW options \in Options, Push(t, options)
      PROVE  spoilt \subseteq spoilt' /\ spoilt' \subseteq 1..(nextId - 1)
  BY <1>1, <1>3 DEF Push, Returns
<1>4. ASSUME NEW t \in Tabs, Pop(t)
      PROVE  spoilt \subseteq spoilt' /\ spoilt' \subseteq 1..(nextId - 1)
  <2>1. PICK id \in Poppable(read[t].blob, QueueOf[t]) :
          (\E blob : Write(t, blob)) \/ spoilt' = spoilt \cup {id}
    BY <1>4 DEF Pop
  <2>2. read[t] # Nothing /\ id \in DOMAIN read[t].blob.jobs
    BY <1>4, <2>1 DEF Pop, Polls, Poppable
  <2>3. id \in 1..(nextId - 1)
    BY <2>2 DEF WellFormed, BlobForm, Stored
  <2> QED BY <1>1, <2>1, <2>2, <2>3 DEF SpoiltKnown
<1>5. ASSUME NEW t \in Tabs, Remove(t) \/ Release(t) \/ Fail(t)
      PROVE  spoilt \subseteq spoilt' /\ spoilt' \subseteq 1..(nextId - 1)
  BY <1>1, <1>5 DEF Remove, Release, Fail, Settles, WriteOrDiscard, Returns
<1>6. ASSUME NEW t \in Tabs, NEW flag \in BOOLEAN, SetPaused(t, flag)
      PROVE  spoilt \subseteq spoilt' /\ spoilt' \subseteq 1..(nextId - 1)
  BY <1>1, <1>6 DEF SetPaused, WriteOrDiscard, Returns
<1> QED BY <1>2, <1>3, <1>4, <1>5, <1>6
        DEF LocalStorageNext, TabStep, Read, PopNothing, SettleMissing, Reload, Clear, Elapse,
            Returns, local

(* A job in some hands is stored reserved, on the queue it was taken from. *)
LEMMA HeldIsReserved ==
  ASSUME StoreInv, NEW u \in Tabs, hand[u] # Nothing, NEW id, id = hand[u].id, id \notin spoilt,
         NEW q \in Queues, id \in DOMAIN storage[q].jobs
  PROVE  /\ q = QueueOf[u] /\ storage[q].jobs[id] = hand[u].job
         /\ storage[q].jobs[id].status = "reserved" /\ storage[q].jobs[id].dueIn = 0
<1>1. PICK home : Homes(home)
  BY DEF StoreInv, OneHome
<1>2. q = QueueOf[u]
  BY <1>1 DEF Homes
<1> QED BY <1>2 DEF StoreInv, Holds

LEMMA HoldsStep ==
  ASSUME StoreInv, StoreStep, spoilt \subseteq spoilt', NEW u \in Tabs
  PROVE  Holds(u)'
<1> SUFFICES ASSUME hand'[u] # Nothing
             PROVE  /\ hand'[u].id \in 1..(nextId' - 1)
                    /\ hand'[u].id \notin spoilt' =>
                         /\ hand'[u].job.status = "reserved" /\ hand'[u].job.dueIn = 0
                         /\ hand'[u].id \in DOMAIN storage'[QueueOf[u]].jobs
                            => storage'[QueueOf[u]].jobs[hand'[u].id] = hand'[u].job
                         /\ \A v \in Tabs : hand'[v] # Nothing /\ hand'[v].id = hand'[u].id => v = u
  BY DEF Holds
<1>0. /\ nextId \in Nat /\ QueueOf \in [Tabs -> Queues] /\ MaxJobs \in Nat /\ DOMAIN hand = Tabs
      /\ nextId <= MaxJobs + 1 /\ RetryDelay \in Nat
  BY LocalStorageAssumption DEF StoreInv, WellFormed
<1>a. nextId' \in Nat /\ nextId <= nextId'
  BY <1>0 DEF StoreStep, Keeps, Adds, Takes, Forgets, Wipes, Changes, Grows
<1>b. \A v \in Tabs : hand'[v] # Nothing =>
        \/ hand'[v] = hand[v]
        \/ \E id, job : Takes(v, id, job) /\ hand'[v] = [id |-> id, job |-> Reserve(job)]
  BY <1>0, HandsStep
(* Nobody takes an unspoilt job that is in some hands.                     *)
<1>c. ASSUME NEW t \in Tabs, NEW id, NEW job, Takes(t, id, job), id \notin spoilt',
             NEW v \in Tabs, hand[v] # Nothing, hand[v].id = id
      PROVE  FALSE
  <2>1. /\ id \in DOMAIN storage[QueueOf[t]].jobs /\ storage[QueueOf[t]].jobs[id] = job
        /\ job.status \in {"pending", "delayed"}
    BY <1>c DEF Takes, CanBePopped
  <2>2. storage[QueueOf[t]].jobs[id].status = "reserved"
    BY <1>0, <1>c, <2>1, HeldIsReserved
  <2> QED BY <2>1, <2>2
<1>1. CASE hand'[u] = hand[u]
  <2>1. PICK held, q : held = hand[u].id /\ q = QueueOf[u] /\ q \in Queues
    BY <1>0
  <2>2. hand[u] # Nothing /\ held \in 1..(nextId - 1) /\ held \in 1..(nextId' - 1)
    BY <1>0, <1>1, <1>a, <2>1 DEF StoreInv, Holds
  <2>j. held \in JobIds
    BY <1>0, <2>2 DEF JobIds
  <2>3. ASSUME held \notin spoilt'
        PROVE  /\ hand[u].job.status = "reserved" /\ hand[u].job.dueIn = 0
               /\ held \in DOMAIN storage'[q].jobs => storage'[q].jobs[held] = hand[u].job
               /\ \A v \in Tabs : hand'[v] # Nothing /\ hand'[v].id = held => v = u
    <3>1. /\ held \notin spoilt
          /\ hand[u].job.status = "reserved" /\ hand[u].job.dueIn = 0
          /\ held \in DOMAIN storage[q].jobs => storage[q].jobs[held] = hand[u].job
          /\ \A v \in Tabs : hand[v] # Nothing /\ hand[v].id = held => v = u
      BY <2>1, <2>2, <2>3 DEF StoreInv, Holds
    <3>2. ASSUME NEW v \in Tabs, hand'[v] # Nothing, hand'[v].id = held PROVE v = u
      <4>1. CASE hand'[v] = hand[v]
        BY <3>1, <3>2, <4>1
      <4>2. ASSUME NEW id, NEW job, Takes(v, id, job), hand'[v] = [id |-> id, job |-> Reserve(job)]
            PROVE  FALSE
        <5>1. id = held
          BY <3>2, <4>2
        <5> QED BY <1>c, <2>1, <2>2, <2>3, <4>2, <5>1
      <4> QED BY <1>b, <3>2, <4>1, <4>2
    <3>3. held \in DOMAIN storage'[q].jobs => storage'[q].jobs[held] = hand[u].job
      <4>1. CASE Agree(storage'[q].jobs, storage[q].jobs, held)
        BY <3>1, <4>1 DEF Agree
      <4>2. CASE Keeps
        BY <2>1, <2>3, <2>j, <4>1, <4>2 DEF Keeps, Same
      <4>3. ASSUME NEW options \in Options, Adds(options)
            PROVE  Agree(storage'[q].jobs, storage[q].jobs, held)
        <5>1. held # nextId
          BY <1>0, <2>2
        <5>2. Elsewhere(options.queue, nextId)
          BY <4>3 DEF Adds
        <5> QED BY <2>1, <2>3, <2>j, <5>1, <5>2 DEF Elsewhere
      <4>4. ASSUME NEW t \in Tabs, NEW id, NEW job, Takes(t, id, job)
            PROVE  Agree(storage'[q].jobs, storage[q].jobs, held)
        <5>1. id # held
          BY <1>c, <2>1, <2>2, <2>3, <4>4
        <5>2. Elsewhere(QueueOf[t], id)
          BY <4>4 DEF Takes
        <5> QED BY <2>1, <2>3, <2>j, <5>1, <5>2 DEF Elsewhere
      <4>5. ASSUME NEW queue \in Queues, NEW id, Forgets(queue, id)
            PROVE  held \in DOMAIN storage'[q].jobs => Agree(storage'[q].jobs, storage[q].jobs, held)
        BY <2>1, <2>3, <2>j, <4>5 DEF Forgets, Elsewhere
      <4>6. ASSUME NEW queue \in Queues, Wipes(queue)
            PROVE  held \in DOMAIN storage'[q].jobs => Agree(storage'[q].jobs, storage[q].jobs, held)
        <5>1. storage'[q] = storage[q] \/ storage'[q] = EmptyBlob
          BY <2>1, <4>6 DEF Wipes, StoreInv, WellFormed
        <5>2. DOMAIN EmptyBlob.jobs = {}
          BY DEF EmptyBlob
        <5> QED BY <5>1, <5>2 DEF Agree
      <4>7. ASSUME NEW t \in Tabs, NEW job, NEW new, Changes(t, job, new)
            PROVE  Agree(storage'[q].jobs, storage[q].jobs, held)
        <5>1. hand'[t] = Nothing /\ hand[t] # Nothing
          BY <1>0, <4>7 DEF Changes, LetsGo
        <5>2. hand[t].id # held
          BY <3>1, <5>1
        <5>3. Elsewhere(QueueOf[t], hand[t].id)
          BY <4>7 DEF Changes
        <5> QED BY <2>1, <2>3, <2>j, <5>2, <5>3 DEF Elsewhere
      <4>8. ASSUME Grows, held \in DOMAIN storage'[q].jobs
            PROVE  storage'[q].jobs[held] = hand[u].job
        <5>1. held \in DOMAIN storage[q].jobs /\ storage'[q].jobs[held] = Later(storage[q].jobs[held])
          BY <2>1, <4>8 DEF Grows
        <5>2. PICK old \in Job : old = storage[q].jobs[held]
          BY <2>1, <5>1, StoredJob DEF StoreInv, WellFormed
        <5>3. old = hand[u].job /\ old.dueIn = 0
          BY <3>1, <5>1, <5>2
        <5> QED BY <5>1, <5>2, <5>3, LaterWrites
      <4> QED BY <4>1, <4>2, <4>3, <4>4, <4>5, <4>6, <4>7, <4>8, Zenon DEF StoreStep
    <3> QED BY <3>1, <3>2, <3>3
  <2> QED BY <1>1, <2>1, <2>2, <2>3
<1>2. ASSUME NEW id, NEW job, Takes(u, id, job), hand'[u] = [id |-> id, job |-> Reserve(job)]
      PROVE  /\ hand'[u].id \in 1..(nextId' - 1)
             /\ hand'[u].id \notin spoilt' =>
                  /\ hand'[u].job.status = "reserved" /\ hand'[u].job.dueIn = 0
                  /\ hand'[u].id \in DOMAIN storage'[QueueOf[u]].jobs
                     => storage'[QueueOf[u]].jobs[hand'[u].id] = hand'[u].job
                  /\ \A v \in Tabs : hand'[v] # Nothing /\ hand'[v].id = hand'[u].id => v = u
  <2>1. hand'[u].id = id /\ hand'[u].job = Reserve(job)
    BY <1>2
  <2>2. id \in 1..(nextId - 1) /\ nextId' = nextId /\ job \in Job /\ job.dueIn = 0
    BY <1>2 DEF Takes, CanBePopped
  <2>3. Reserve(job).status = "reserved" /\ Reserve(job).dueIn = 0
    BY <2>2, ReserveWrites
  <2>4. id \notin spoilt' => storage'[QueueOf[u]].jobs[id] = Reserve(job)
    BY <1>2 DEF Takes
  <2>5. ASSUME id \notin spoilt', NEW v \in Tabs, hand'[v] # Nothing, hand'[v].id = id, v # u
        PROVE  FALSE
    <3>1. hand'[v] = hand[v]
      BY <1>0, <1>2, <2>5 DEF Takes
    <3> QED BY <1>2, <1>c, <2>5, <3>1
  <2> QED BY <2>1, <2>2, <2>3, <2>4, <2>5
<1> QED BY <1>1, <1>2, <1>b

LEMMA InvInit == LocalStorageInit => StoreInv
<1> SUFFICES ASSUME LocalStorageInit PROVE StoreInv
  OBVIOUS
<1>1. DOMAIN hand = Tabs /\ (\A t \in Tabs : Holds(t)) /\ SpoiltKnown
  BY DEF LocalStorageInit, Holds, SpoiltKnown
<1>2. OneHome
  <2> DEFINE home == [id \in Nat |-> Undefined]
  <2>1. Homes(home) /\ DOMAIN home = Nat
    BY DEF LocalStorageInit, Homes, EmptyBlob
  <2> QED BY <2>1 DEF OneHome
<1> QED BY <1>1, <1>2, FormInit DEF StoreInv

LEMMA InvStep == StoreInv /\ [LocalStorageNext]_local => StoreInv'
<1> SUFFICES ASSUME StoreInv, [LocalStorageNext]_local PROVE StoreInv'
  OBVIOUS
<1>1. WellFormed' /\ StoreStep /\ WellFormed /\ DOMAIN hand = Tabs
  BY FormStep, StepIsStoreStep DEF StoreInv
<1>2. spoilt \subseteq spoilt' /\ spoilt' \subseteq 1..(nextId - 1)
  BY SpoiltStep DEF StoreInv
<1>3. SpoiltKnown'
  <2>1. nextId \in Nat /\ (nextId' = nextId \/ nextId' = nextId + 1)
    BY <1>1, LocalStorageAssumption
       DEF WellFormed, StoreStep, Keeps, Adds, Takes, Forgets, Wipes, Changes, Grows
  <2> QED BY <1>2, <2>1 DEF SpoiltKnown
<1>4. OneHome'
  BY <1>1, OneHomeStep DEF StoreInv, Holds
<1>5. DOMAIN hand' = Tabs
  BY <1>1, HandsStep
<1>6. \A t \in Tabs : Holds(t)'
  BY <1>1, <1>2, HoldsStep
<1> QED BY <1>1, <1>3, <1>4, <1>5, <1>6 DEF StoreInv

(* No job is in the hands of two tabs, and what a worker believes of the   *)
(* job it holds is what is stored, across any number of tabs that overlap, *)
(* reload and wipe, and whatever the quota discards: the only jobs it does *)
(* not hold of are those over which a tab wrote a stale record, or whose   *)
(* own reservation was discarded.                                          *)
THEOREM LocalStorageSingleHolder == LocalStorageSpec => []SingleHolder
<1>1. StoreInv => SingleHolder
  BY DEF StoreInv, Holds, SingleHolder
<1> QED BY <1>1, InvInit, InvStep, PTL DEF LocalStorageSpec

-----------------------------------------------------------------------------
(* The life of a job, as a function of where it is found.                  *)
FoundIn(blobs, lost, id) ==
  IF id \in lost THEN {}
  ELSE {blobs[queue].jobs[id] : queue \in {q \in Queues : id \in DOMAIN blobs[q].jobs}}

PhaseIn(next, found, id) ==
  CASE id >= next                                    -> "unborn"
    [] id < next /\ found = {}                       -> "gone"
    [] \E job \in found : job.status = "reserved"    -> "held"
    [] \E job \in found : job.status = "failed"      -> "buried"
    [] OTHER                                         -> "waiting"

TriesIn(found) == IF found = {} THEN 0 ELSE (CHOOSE job \in found : TRUE).attempts

LEMMA LifeOfJobs ==
  ASSUME NEW id
  PROVE  /\ PhaseOf(id) = PhaseIn(nextId, FoundIn(storage, spoilt, id), id)
         /\ TriesOf(id) = TriesIn(FoundIn(storage, spoilt, id))
         /\ PhaseOf(id)' = PhaseIn(nextId', FoundIn(storage', spoilt', id), id)
         /\ TriesOf(id)' = TriesIn(FoundIn(storage', spoilt', id))
<1>1. JobOf(id) = FoundIn(storage, spoilt, id)
  BY DEF JobOf, FoundIn
<1>2. JobOf(id)' = FoundIn(storage', spoilt', id)
  BY DEF JobOf, FoundIn
<1> QED BY <1>1, <1>2 DEF PhaseOf, TriesOf, PhaseIn, TriesIn

PhaseOfJob(job) == IF job.status = "reserved" THEN "held"
                   ELSE IF job.status = "failed" THEN "buried" ELSE "waiting"

LEMMA LifeOfFound ==
  ASSUME NEW next \in Nat, NEW id \in Nat
  PROVE  /\ PhaseIn(next, {}, id) = (IF id >= next THEN "unborn" ELSE "gone")
         /\ TriesIn({}) = 0
         /\ \A job : /\ id < next => PhaseIn(next, {job}, id) = PhaseOfJob(job)
                     /\ TriesIn({job}) = job.attempts
<1>1. \A job : (CHOOSE j \in {job} : TRUE) = job
  OBVIOUS
<1> QED BY <1>1 DEF PhaseIn, TriesIn, PhaseOfJob

LEMMA FoundAtHome ==
  ASSUME NEW blobs, NEW lost, NEW id, id \notin lost, NEW queue \in Queues,
         id \in DOMAIN blobs[queue].jobs,
         \A q \in Queues : id \in DOMAIN blobs[q].jobs => q = queue
  PROVE  FoundIn(blobs, lost, id) = {blobs[queue].jobs[id]}
<1>1. {q \in Queues : id \in DOMAIN blobs[q].jobs} = {queue}
  OBVIOUS
<1> QED BY <1>1 DEF FoundIn

LEMMA FoundNowhere ==
  ASSUME NEW blobs, NEW lost, NEW id,
         id \in lost \/ \A q \in Queues : id \notin DOMAIN blobs[q].jobs
  PROVE  FoundIn(blobs, lost, id) = {}
  BY DEF FoundIn

LEMMA FoundAgain ==
  ASSUME NEW blobs, NEW others, NEW lost, NEW more, NEW id, id \notin lost, id \notin more,
         \A q \in Queues : Agree(others[q].jobs, blobs[q].jobs, id)
  PROVE  FoundIn(others, more, id) = FoundIn(blobs, lost, id)
<1>1. {q \in Queues : id \in DOMAIN others[q].jobs} = {q \in Queues : id \in DOMAIN blobs[q].jobs}
  BY DEF Agree
<1>2. \A q \in {r \in Queues : id \in DOMAIN blobs[r].jobs} : others[q].jobs[id] = blobs[q].jobs[id]
  BY DEF Agree
<1> QED BY <1>1, <1>2 DEF FoundIn

LEMMA OneQueue ==
  ASSUME OneHome, NEW id, NEW queue \in Queues, id \in DOMAIN storage[queue].jobs
  PROVE  \A q \in Queues : id \in DOMAIN storage[q].jobs => q = queue
  BY DEF OneHome, Homes

LEMMA OneQueueNext ==
  ASSUME OneHome', NEW id, NEW queue \in Queues, id \in DOMAIN storage'[queue].jobs
  PROVE  \A q \in Queues : id \in DOMAIN storage'[q].jobs => q = queue
  BY DEF OneHome, Homes

(* What may become of one job in a step.                                   *)
Stays(id) == PhaseOf(id)' = PhaseOf(id) /\ TriesOf(id)' = TriesOf(id)

Arrives(id) == /\ PhaseOf(id) = "unborn" /\ PhaseOf(id)' = "waiting"
               /\ TriesOf(id)' = TriesOf(id)
IsTaken(id) == /\ PhaseOf(id) = "waiting" /\ PhaseOf(id)' = "held"
               /\ TriesOf(id)' = TriesOf(id) + 1
IsSettled(id) == /\ PhaseOf(id) = "held" /\ PhaseOf(id)' \in {"waiting", "buried"}
                 /\ TriesOf(id)' = TriesOf(id)
IsForgotten(id) == PhaseOf(id) # "unborn" /\ PhaseOf(id)' = "gone" /\ TriesOf(id)' = 0

Lives(id) == Stays(id) \/ Arrives(id) \/ IsTaken(id) \/ IsSettled(id) \/ IsForgotten(id)

LEMMA LivesIsLifeStep ==
  ASSUME NEW id, Lives(id)
  PROVE  Life(id)!LifeNext \/ UNCHANGED Life(id)!life
<1>0. 1..1 = {1}
  OBVIOUS
<1>1. CASE Stays(id)
  BY <1>1 DEF Stays, Life!life
<1>2. CASE Arrives(id)
  <2>1. Life(id)!Arrive(1)
    BY <1>0, <1>2 DEF Arrives, Life!Arrive
  <2> QED BY <1>0, <2>1 DEF Life!LifeNext
<1>3. CASE IsTaken(id)
  <2>1. Life(id)!Take(1)
    BY <1>0, <1>3 DEF IsTaken, Life!Take
  <2> QED BY <1>0, <2>1 DEF Life!LifeNext
<1>4. CASE IsSettled(id)
  <2>1. Life(id)!GiveBack(1) \/ Life(id)!Bury(1)
    BY <1>0, <1>4 DEF IsSettled, Life!GiveBack, Life!Bury
  <2> QED BY <1>0, <2>1 DEF Life!LifeNext
<1>5. CASE IsForgotten(id)
  <2>1. Life(id)!Forget({1})
    BY <1>0, <1>5 DEF IsForgotten, Life!Forget
  <2> QED BY <1>0, <2>1 DEF Life!LifeNext
<1> QED BY <1>1, <1>2, <1>3, <1>4, <1>5 DEF Lives

LEMMA LifeInitial ==
  ASSUME LocalStorageInit, NEW id \in JobIds
  PROVE  Life(id)!LifeInit
<1>1. nextId = 1 /\ \A q \in Queues : DOMAIN storage[q].jobs = {}
  BY DEF LocalStorageInit, EmptyBlob
<1>2. FoundIn(storage, spoilt, id) = {}
  BY <1>1, FoundNowhere
<1>3. PhaseOf(id) = "unborn" /\ TriesOf(id) = 0
  <2>1. id \in Nat /\ id >= 1
    BY LocalStorageAssumption DEF JobIds
  <2> QED BY <1>1, <1>2, <2>1, LifeOfFound, LifeOfJobs
<1> QED BY <1>3 DEF Life!LifeInit

(* A job that no queue has any longer.                                     *)
LEMMA Vanishes ==
  ASSUME StoreInv, NEW id \in JobIds, id < nextId, nextId' \in Nat, nextId' >= nextId,
         FoundIn(storage', spoilt', id) = {}
  PROVE  IsForgotten(id)
<1>1. id \in Nat /\ nextId \in Nat /\ id < nextId'
  BY LocalStorageAssumption DEF JobIds, StoreInv, WellFormed
<1>2. PhaseOf(id)' = "gone" /\ TriesOf(id)' = 0
  <2>1. PICK later : later = nextId'
    OBVIOUS
  <2>2. PhaseIn(later, {}, id) = "gone" /\ TriesIn({}) = 0
    BY <1>1, <2>1, LifeOfFound
  <2> QED BY <2>1, <2>2, LifeOfJobs
<1>3. PhaseOf(id) # "unborn"
  BY <1>1 DEF PhaseOf
<1> QED BY <1>2, <1>3 DEF IsForgotten

(* A job that is where it was.                                             *)
LEMMA Remains ==
  ASSUME StoreInv, NEW id \in JobIds, spoilt \subseteq spoilt', id \notin spoilt',
         nextId' = nextId \/ (nextId' = nextId + 1 /\ id # nextId),
         \A q \in Queues : Agree(storage'[q].jobs, storage[q].jobs, id)
  PROVE  Stays(id)
<1>1. id \in Nat /\ nextId \in Nat
  BY LocalStorageAssumption DEF JobIds, StoreInv, WellFormed
<1>2. PICK found : found = FoundIn(storage, spoilt, id)
  OBVIOUS
<1>3. FoundIn(storage', spoilt', id) = found
  BY <1>2, FoundAgain
<1>4. PICK next, later : next = nextId /\ later = nextId'
  OBVIOUS
<1>5. PhaseIn(later, found, id) = PhaseIn(next, found, id)
  <2>1. (id >= later <=> id >= next) /\ (id < later <=> id < next)
    BY <1>1, <1>4
  <2> QED BY <2>1 DEF PhaseIn
<1> QED BY <1>2, <1>3, <1>4, <1>5, LifeOfJobs DEF Stays

(* A job that was on a queue and still is.                                 *)
LEMMA ChangesAtHome ==
  ASSUME StoreInv, StoreInv', NEW id \in JobIds, spoilt \subseteq spoilt', id \notin spoilt',
         nextId' = nextId, NEW queue \in Queues,
         id \in DOMAIN storage[queue].jobs, id \in DOMAIN storage'[queue].jobs
  PROVE  /\ PhaseOf(id) = PhaseOfJob(storage[queue].jobs[id])
         /\ TriesOf(id) = storage[queue].jobs[id].attempts
         /\ PhaseOf(id)' = PhaseOfJob(storage'[queue].jobs[id])
         /\ TriesOf(id)' = storage'[queue].jobs[id].attempts
<1>1. id \in Nat /\ nextId \in Nat /\ id < nextId
  BY LocalStorageAssumption DEF JobIds, StoreInv, WellFormed, BlobForm, Stored
<1>2. FoundIn(storage, spoilt, id) = {storage[queue].jobs[id]}
  BY OneQueue, FoundAtHome DEF StoreInv
<1>3. FoundIn(storage', spoilt', id) = {storage'[queue].jobs[id]}
  <2>1. \A q \in Queues : id \in DOMAIN storage'[q].jobs => q = queue
    BY OneQueueNext DEF StoreInv
  <2> QED BY <2>1, FoundAtHome
<1>4. PICK next, old, new : /\ next = nextId
                            /\ old = storage[queue].jobs[id] /\ new = storage'[queue].jobs[id]
  OBVIOUS
<1>5. \A job : PhaseIn(next, {job}, id) = PhaseOfJob(job) /\ TriesIn({job}) = job.attempts
  BY <1>1, <1>4, LifeOfFound
<1>6. /\ PhaseOf(id) = PhaseIn(next, {old}, id) /\ TriesOf(id) = TriesIn({old})
      /\ PhaseOf(id)' = PhaseIn(next, {new}, id) /\ TriesOf(id)' = TriesIn({new})
  BY <1>2, <1>3, <1>4, LifeOfJobs
<1> QED BY <1>4, <1>5, <1>6

LEMMA StepLives ==
  ASSUME StoreInv, StoreInv', StoreStep, spoilt \subseteq spoilt',
         spoilt' \subseteq 1..(nextId - 1), NEW id \in JobIds
  PROVE  Lives(id)
<1>0. /\ nextId \in Nat /\ id \in Nat /\ QueueOf \in [Tabs -> Queues] /\ RetryDelay \in Nat
      /\ DOMAIN storage = Queues
      /\ \A q \in Queues : \A i \in DOMAIN storage[q].jobs : i \in 1..(nextId - 1)
  BY LocalStorageAssumption DEF JobIds, StoreInv, WellFormed, BlobForm, Stored
<1>a. nextId' \in Nat /\ nextId' >= nextId
  BY <1>0 DEF StoreStep, Keeps, Adds, Takes, Forgets, Wipes, Changes, Grows
<1>1. CASE id \in spoilt'
  BY <1>0, <1>1, <1>a, FoundNowhere, Vanishes DEF Lives
<1>2. CASE id \notin spoilt' /\ Keeps
  BY <1>2, Remains DEF Keeps, Same, Lives
<1>3. ASSUME NEW options \in Options, Adds(options), id \notin spoilt' PROVE Lives(id)
  <2>0. options.queue \in Queues
    BY OptionsAssumption DEF OptionRecord
  <2>1. CASE id # nextId
    <3>1. Elsewhere(options.queue, nextId) /\ nextId' = nextId + 1
      BY <1>3 DEF Adds
    <3>2. \A q \in Queues : Agree(storage'[q].jobs, storage[q].jobs, id)
      BY <1>3, <2>1, <3>1 DEF Elsewhere
    <3> QED BY <1>3, <2>1, <3>1, <3>2, Remains DEF Lives
  <2>2. CASE id = nextId
    <3>1. PICK job, queue : /\ job = CreateQueuedJob(options)
                            /\ queue = options.queue /\ queue \in Queues
      BY <2>0
    <3>2. job.status \in {"pending", "delayed"} /\ job.attempts = 0
      BY <3>1, CreatedJob
    <3>3. /\ id \in DOMAIN storage'[queue].jobs /\ storage'[queue].jobs[id] = job
          /\ nextId' = id + 1
      BY <1>3, <2>2, <3>1 DEF Adds
    <3>4. FoundIn(storage', spoilt', id) = {job}
      <4>1. \A q \in Queues : id \in DOMAIN storage'[q].jobs => q = queue
        BY <3>1, <3>3, OneQueueNext DEF StoreInv
      <4>2. FoundIn(storage', spoilt', id) = {storage'[queue].jobs[id]}
        BY <1>3, <3>1, <3>3, <4>1, FoundAtHome
      <4> QED BY <3>3, <4>2
    <3>5. FoundIn(storage, spoilt, id) = {}
      BY <1>0, <2>2, FoundNowhere
    <3>6. PhaseOf(id) = "unborn" /\ TriesOf(id) = 0
      <4>1. PICK next : next = nextId /\ next = id /\ next \in Nat /\ id >= next
        BY <1>0, <2>2
      <4>2. PhaseIn(next, {}, id) = "unborn" /\ TriesIn({}) = 0
        BY <1>0, <4>1, LifeOfFound
      <4>3. PhaseOf(id) = PhaseIn(next, {}, id) /\ TriesOf(id) = TriesIn({})
        BY <3>5, <4>1, LifeOfJobs
      <4> QED BY <4>2, <4>3
    <3>7. PhaseOf(id)' = "waiting" /\ TriesOf(id)' = 0
      <4>1. id + 1 \in Nat /\ id < id + 1
        BY <1>0
      <4>2. PhaseIn(id + 1, {job}, id) = PhaseOfJob(job) /\ TriesIn({job}) = 0
        BY <1>0, <3>2, <4>1, LifeOfFound
      <4> QED BY <3>2, <3>3, <3>4, <4>2, LifeOfJobs DEF PhaseOfJob
    <3> QED BY <3>6, <3>7 DEF Arrives, Lives
  <2> QED BY <2>1, <2>2
<1>4. ASSUME NEW t \in Tabs, NEW taken, NEW job, Takes(t, taken, job), id \notin spoilt'
      PROVE  Lives(id)
  <2>0. Elsewhere(QueueOf[t], taken) /\ nextId' = nextId
    BY <1>4 DEF Takes
  <2>1. CASE id # taken
    <3>2. \A q \in Queues : Agree(storage'[q].jobs, storage[q].jobs, id)
      BY <1>4, <2>0, <2>1 DEF Elsewhere
    <3> QED BY <1>4, <2>0, <2>1, <3>2, Remains DEF Lives
  <2>2. CASE id = taken
    <3>1. PICK queue \in Queues : queue = QueueOf[t]
      BY <1>0
    <3>2. /\ id \in DOMAIN storage[queue].jobs /\ storage[queue].jobs[id] = job
          /\ id \in DOMAIN storage'[queue].jobs /\ storage'[queue].jobs[id] = Reserve(job)
          /\ job \in Job /\ job.status \in {"pending", "delayed"}
      BY <1>4, <2>2, <3>1 DEF Takes, CanBePopped
    <3>3. Reserve(job).status = "reserved" /\ Reserve(job).attempts = job.attempts + 1
      BY <3>2, ReserveWrites
    <3>4. /\ PhaseOf(id) = PhaseOfJob(job) /\ TriesOf(id) = job.attempts
          /\ PhaseOf(id)' = PhaseOfJob(Reserve(job)) /\ TriesOf(id)' = Reserve(job).attempts
      BY <1>4, <2>0, <3>2, ChangesAtHome
    <3> QED BY <3>2, <3>3, <3>4 DEF PhaseOfJob, IsTaken, Lives
  <2> QED BY <2>1, <2>2
(* A job that leaves one queue is on no other.                             *)
<1>b. ASSUME id \notin spoilt', NEW queue \in Queues, id \notin DOMAIN storage'[queue].jobs,
             \A q \in Queues \ {queue} : Agree(storage'[q].jobs, storage[q].jobs, id),
             nextId' = nextId
      PROVE  Lives(id)
  <2>1. CASE id \in DOMAIN storage[queue].jobs
    <3>1. \A q \in Queues : id \in DOMAIN storage[q].jobs => q = queue
      BY <2>1, OneQueue DEF StoreInv
    <3>2. \A q \in Queues : id \notin DOMAIN storage'[q].jobs
      BY <1>b, <3>1 DEF Agree
    <3> QED BY <1>0, <1>a, <2>1, <3>2, FoundNowhere, Vanishes DEF Lives
  <2>2. CASE id \notin DOMAIN storage[queue].jobs
    <3>1. \A q \in Queues : Agree(storage'[q].jobs, storage[q].jobs, id)
      BY <1>b, <2>2 DEF Agree
    <3> QED BY <1>b, <3>1, Remains DEF Lives
  <2> QED BY <2>1, <2>2
<1>5. ASSUME NEW queue \in Queues, NEW gone, Forgets(queue, gone), id \notin spoilt'
      PROVE  Lives(id)
  <2>0. Elsewhere(queue, gone) /\ gone \notin DOMAIN storage'[queue].jobs /\ nextId' = nextId
    BY <1>5 DEF Forgets
  <2>1. CASE id # gone
    <3>1. \A q \in Queues : Agree(storage'[q].jobs, storage[q].jobs, id)
      BY <1>5, <2>0, <2>1 DEF Elsewhere
    <3> QED BY <1>5, <2>0, <3>1, Remains DEF Lives
  <2>2. CASE id = gone
    <3>1. \A q \in Queues \ {queue} : Agree(storage'[q].jobs, storage[q].jobs, id)
      BY <1>5, <2>0 DEF Elsewhere
    <3> QED BY <1>5, <1>b, <2>0, <2>2, <3>1
  <2> QED BY <2>1, <2>2
<1>6. ASSUME NEW queue \in Queues, Wipes(queue), id \notin spoilt' PROVE Lives(id)
  <2>1. /\ storage'[queue] = EmptyBlob /\ nextId' = nextId
        /\ \A q \in Queues \ {queue} : storage'[q] = storage[q]
    BY <1>0, <1>6 DEF Wipes
  <2>2. DOMAIN EmptyBlob.jobs = {}
    BY DEF EmptyBlob
  <2>3. \A q \in Queues \ {queue} : Agree(storage'[q].jobs, storage[q].jobs, id)
    BY <2>1 DEF Agree
  <2> QED BY <1>6, <1>b, <2>1, <2>2, <2>3
<1>7. ASSUME NEW t \in Tabs, NEW job, NEW new, Changes(t, job, new), id \notin spoilt'
      PROVE  Lives(id)
  <2>0. Elsewhere(QueueOf[t], hand[t].id) /\ nextId' = nextId /\ hand[t] # Nothing
    BY <1>7 DEF Changes
  <2>1. CASE id # hand[t].id
    <3>2. \A q \in Queues : Agree(storage'[q].jobs, storage[q].jobs, id)
      BY <1>7, <2>0, <2>1 DEF Elsewhere
    <3> QED BY <1>7, <2>0, <2>1, <3>2, Remains DEF Lives
  <2>2. CASE id = hand[t].id
    <3>1. PICK queue \in Queues : queue = QueueOf[t]
      BY <1>0
    <3>2. /\ id \in DOMAIN storage[queue].jobs /\ storage[queue].jobs[id] = job
          /\ id \in DOMAIN storage'[queue].jobs /\ storage'[queue].jobs[id] = new
          /\ job \in Job /\ new \in {PutBack(job, RetryDelay), GiveUp(job)}
      BY <1>7, <2>2, <3>1 DEF Changes
    <3>3. job.status = "reserved"
      BY <1>7, <2>0, <2>2, <3>2, HeldIsReserved
    <3>4. new.attempts = job.attempts /\ new.status \in {"pending", "delayed", "failed"}
      BY <1>0, <3>2, PutBackWrites, GiveUpWrites
    <3>5. /\ PhaseOf(id) = PhaseOfJob(job) /\ TriesOf(id) = job.attempts
          /\ PhaseOf(id)' = PhaseOfJob(new) /\ TriesOf(id)' = new.attempts
      BY <1>7, <2>0, <3>2, ChangesAtHome
    <3> QED BY <3>3, <3>4, <3>5 DEF PhaseOfJob, IsSettled, Lives
  <2> QED BY <2>1, <2>2
<1>8. CASE Grows /\ id \notin spoilt'
  <2>1. CASE \E q \in Queues : id \in DOMAIN storage[q].jobs
    <3>1. PICK queue \in Queues : id \in DOMAIN storage[queue].jobs
      BY <2>1
    <3>2. PICK old \in Job : old = storage[queue].jobs[id]
      BY <3>1, StoredJob DEF StoreInv, WellFormed
    <3>3. /\ id \in DOMAIN storage'[queue].jobs /\ storage'[queue].jobs[id] = Later(old)
          /\ nextId' = nextId
      BY <1>8, <3>1, <3>2 DEF Grows
    <3>4. Later(old).status = old.status /\ Later(old).attempts = old.attempts
      BY <3>2, LaterWrites
    <3>5. /\ PhaseOf(id) = PhaseOfJob(old) /\ TriesOf(id) = old.attempts
          /\ PhaseOf(id)' = PhaseOfJob(Later(old)) /\ TriesOf(id)' = Later(old).attempts
      BY <1>8, <3>1, <3>2, <3>3, ChangesAtHome
    <3> QED BY <3>4, <3>5 DEF PhaseOfJob, Stays, Lives
  <2>2. CASE \A q \in Queues : id \notin DOMAIN storage[q].jobs
    <3>1. \A q \in Queues : Agree(storage'[q].jobs, storage[q].jobs, id)
      BY <1>8, <2>2 DEF Grows, Agree
    <3> QED BY <1>8, <3>1, Remains DEF Grows, Lives
  <2> QED BY <2>1, <2>2
<1> QED BY <1>1, <1>2, <1>3, <1>4, <1>5, <1>6, <1>7, <1>8, Zenon DEF StoreStep

(* Every job that is not spoilt keeps the promise of JobLifecycle, though  *)
(* the driver keeps one blob per queue and rewrites it whole: a reserved   *)
(* job is handed out again only after a release, at the price of one       *)
(* attempt each; a failed, removed or wiped job never comes back.  A stale *)
(* write may lose track of jobs, not make them live on in another way.     *)
THEOREM LocalStorageImplementsJobLifecycle == LocalStorageSpec => ImplementsJobLifecycle
<1>1. LocalStorageInit => \A id \in JobIds : Life(id)!LifeInit
  BY LifeInitial
<1>2. StoreInv /\ StoreInv' /\ [LocalStorageNext]_local
      => [\A id \in JobIds : Life(id)!LifeNext \/ UNCHANGED Life(id)!life]_local
  <2> SUFFICES ASSUME StoreInv, StoreInv', [LocalStorageNext]_local, NEW id \in JobIds
               PROVE  Life(id)!LifeNext \/ UNCHANGED Life(id)!life
    OBVIOUS
  <2>1. StoreStep /\ spoilt \subseteq spoilt' /\ spoilt' \subseteq 1..(nextId - 1)
    BY StepIsStoreStep, SpoiltStep DEF StoreInv
  <2> QED BY <2>1, StepLives, LivesIsLifeStep
<1> QED BY <1>1, <1>2, InvInit, InvStep, PTL DEF LocalStorageSpec, ImplementsJobLifecycle
=============================================================================
