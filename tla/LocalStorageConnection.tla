------------------------ MODULE LocalStorageConnection ------------------------
(***************************************************************************)
(* The localStorage driver (connections/local-storage.connection.ts): one  *)
(* JSON blob per queue, with its jobs and its pause flag, shared by all    *)
(* tabs of an origin and surviving their reloads.                          *)
(*                                                                         *)
(* Every method but clear reads a blob, changes it and writes it back, and *)
(* a tab does nothing else meanwhile; another tab may read, write or clear *)
(* between the two.  A write the quota does not admit is discarded in      *)
(* silence (Discards); only a write that makes the blob longer can exceed  *)
(* it, which release and remove never do.                                  *)
(*                                                                         *)
(* The history variable spoilt keeps the jobs that either of the two ever  *)
(* happened to: their record had changed between a read and the write that *)
(* put the old one back, or their reservation was not stored.  What the    *)
(* driver promises, it promises of the other jobs.                         *)
(*                                                                         *)
(* A missing key reads as the empty blob, so it is one.                    *)
(***************************************************************************)
EXTENDS QueuedJob, Functions

CONSTANTS
  Tabs,         \* each with a worker that polls, and callers that dispatch
  QueueOf,      \* the queue that each tab's worker polls
  MaxJobs,      \* bound: how many jobs are ever created
  RetryDelay,   \* the delay a failed job is released with
  Discards,     \* the writes that the quota may discard
  Nothing       \* no blob has been read, no job is held

ASSUME LocalStorageAssumption ==
  /\ MaxJobs \in Nat /\ RetryDelay \in Nat
  /\ QueueOf \in [Tabs -> Queues]
  /\ Discards \subseteq {"push", "pop", "fail", "flag"}

VARIABLES
  storage,   \* localStorage: from queue to blob
  nextId,    \* the id the next job gets
  read,      \* the blob a tab's current method has read, and of which queue
  hand,      \* the job that a tab's worker is working on
  spoilt     \* history: the jobs lost track of by a stale or discarded write

local == <<storage, nextId, read, hand, spoilt>>

JobIds == 1..MaxJobs

EmptyBlob == [jobs |-> [id \in {} |-> Undefined], paused |-> FALSE]

LocalStorageInit ==
  /\ storage = [queue \in Queues |-> EmptyBlob]
  /\ nextId = 1
  /\ read = [t \in Tabs |-> Nothing]
  /\ hand = [t \in Tabs |-> Nothing]
  /\ spoilt = {}

-----------------------------------------------------------------------------
(* A method begins: it reads the blob of a queue.                          *)
Read(t, queue) ==
  /\ read[t] = Nothing
  /\ read' = [read EXCEPT ![t] = [queue |-> queue, blob |-> storage[queue]]]
  /\ UNCHANGED <<storage, nextId, hand, spoilt>>

Ends(t) == read' = [read EXCEPT ![t] = Nothing]

(* Two blobs tell the same of a job.                                       *)
Agree(jobs, others, id) ==
  /\ id \in DOMAIN jobs <=> id \in DOMAIN others
  /\ id \in DOMAIN jobs => jobs[id] = others[id]

Stale(t) ==
  {id \in JobIds : ~Agree(read[t].blob.jobs, storage[read[t].queue].jobs, id)}

(* ... and ends, by writing a blob in place of what is there by then.      *)
Write(t, blob) ==
  /\ storage' = [storage EXCEPT ![read[t].queue] = blob]
  /\ spoilt' = spoilt \cup Stale(t)
  /\ Ends(t)

Returns(t) == Ends(t) /\ UNCHANGED <<storage, spoilt>>

WriteOrDiscard(t, blob, kind) ==
  Write(t, blob) \/ (kind \in Discards /\ Returns(t))

Insert(blob, id, job) ==
  [blob EXCEPT !.jobs = [other \in DOMAIN @ \cup {id} |-> IF other = id THEN job ELSE @[other]]]

\* Mutant of Duplicates: reserved jobs do not block a new dispatch.
DuplicatesWaiting(blob, uniqueId) ==
  {id \in DOMAIN blob.jobs : /\ uniqueId # Undefined /\ blob.jobs[id].uniqueId = uniqueId
                             /\ blob.jobs[id].status \in {"pending", "delayed"}}

Duplicates(blob, uniqueId) ==
  {id \in DOMAIN blob.jobs : /\ uniqueId # Undefined /\ blob.jobs[id].uniqueId = uniqueId
                             /\ InFlight(blob.jobs[id])}

(* Only the blob of the job's own queue is searched for duplicates.  The   *)
(* caller gets an id also for a job that is stored nowhere.                *)
Push(t, options) ==
  LET job == CreateQueuedJob(options)
  IN  /\ read[t] # Nothing /\ read[t].queue = job.queue
      /\ nextId <= MaxJobs
      /\ IF Duplicates(read[t].blob, job.uniqueId) # {}
           THEN Returns(t) /\ UNCHANGED nextId
           ELSE \/ Write(t, Insert(read[t].blob, nextId, job)) /\ nextId' = nextId + 1
                \/ "push" \in Discards /\ Returns(t) /\ UNCHANGED nextId
      /\ UNCHANGED hand

Poppable(blob, queue) == {id \in DOMAIN blob.jobs : CanBePopped(blob.jobs[id], queue)}

(* size(), and pendingSize(), delayedSize(), reservedSize().               *)
Size(queue) == CountBy(storage[queue].jobs, queue, JobStatus \ {"completed", "failed"})
SizeOf(queue, status) == CountBy(storage[queue].jobs, queue, {status})

Polls(t) == read[t] # Nothing /\ read[t].queue = QueueOf[t] /\ hand[t] = Nothing

\* Mutant of Pop: the reservation is not written.
PopOnlyReads(t) ==
  /\ Polls(t) /\ ~read[t].blob.paused
  /\ \E id \in Poppable(read[t].blob, QueueOf[t]) :
       hand' = [hand EXCEPT ![t] = [id |-> id, job |-> Reserve(read[t].blob.jobs[id])]]
  /\ Returns(t)
  /\ UNCHANGED nextId

(* The caller gets the reserved job whether or not the reservation could   *)
(* be stored.                                                              *)
Pop(t) ==
  /\ Polls(t) /\ ~read[t].blob.paused
  /\ \E id \in Poppable(read[t].blob, QueueOf[t]) :
       LET job == Reserve(read[t].blob.jobs[id])
       IN  /\ \A other \in Poppable(read[t].blob, QueueOf[t]) : id <= other
           /\ \/ Write(t, Insert(read[t].blob, id, job))
              \/ /\ "pop" \in Discards /\ Ends(t)
                 /\ spoilt' = spoilt \cup {id}
                 /\ UNCHANGED storage
           /\ hand' = [hand EXCEPT ![t] = [id |-> id, job |-> job]]
  /\ UNCHANGED nextId

PopNothing(t) ==
  /\ Polls(t)
  /\ read[t].blob.paused \/ Poppable(read[t].blob, QueueOf[t]) = {}
  /\ Returns(t)
  /\ UNCHANGED <<nextId, hand>>

-----------------------------------------------------------------------------
(* How a worker settles the job it holds (see WorkerPool).  The blobs of   *)
(* all queues are searched for it; the one that matters is its own.        *)
Settles(t) ==
  /\ read[t] # Nothing /\ read[t].queue = QueueOf[t] /\ hand[t] # Nothing
  /\ hand' = [hand EXCEPT ![t] = Nothing]
  /\ UNCHANGED nextId

Found(t) == hand[t].id \in DOMAIN read[t].blob.jobs

SettleMissing(t) == Settles(t) /\ ~Found(t) /\ Returns(t)

Remove(t) ==
  /\ Settles(t) /\ Found(t)
  /\ Write(t, [read[t].blob EXCEPT !.jobs = Restrict(@, DOMAIN @ \ {hand[t].id})])

Release(t) ==
  /\ Settles(t) /\ Found(t)
  /\ hand[t].job.maxAttempts - hand[t].job.attempts > 0
  /\ Write(t, [read[t].blob EXCEPT !.jobs[hand[t].id] = PutBack(@, RetryDelay)])

Fail(t) ==
  /\ Settles(t) /\ Found(t)
  /\ WriteOrDiscard(t, [read[t].blob EXCEPT !.jobs[hand[t].id] = GiveUp(@)], "fail")

-----------------------------------------------------------------------------
(* removeItem: the pause flag goes with the jobs.                          *)
Clear(queue) ==
  /\ storage' = [storage EXCEPT ![queue] = EmptyBlob]
  /\ UNCHANGED <<nextId, read, hand, spoilt>>

(* pause and resume.                                                       *)
SetPaused(t, flag) ==
  /\ read[t] # Nothing
  /\ WriteOrDiscard(t, [read[t].blob EXCEPT !.paused = flag], "flag")
  /\ UNCHANGED <<nextId, hand>>

(* The tab is reloaded: its worker and what it was doing are forgotten.    *)
Reload(t) ==
  /\ read' = [read EXCEPT ![t] = Nothing]
  /\ hand' = [hand EXCEPT ![t] = Nothing]
  /\ UNCHANGED <<storage, nextId, spoilt>>

(* A method does not last long enough for a job to fall due.               *)
Elapse ==
  /\ \A t \in Tabs : read[t] = Nothing
  /\ \E queue \in Queues : \E id \in DOMAIN storage[queue].jobs : storage[queue].jobs[id].dueIn > 0
  /\ storage' = [queue \in Queues |->
                   [storage[queue] EXCEPT !.jobs = [id \in DOMAIN @ |-> Later(@[id])]]]
  /\ UNCHANGED <<nextId, read, hand, spoilt>>

-----------------------------------------------------------------------------
TabStep(t) ==
  \/ \E queue \in Queues : Read(t, queue)
  \/ \E options \in Options : Push(t, options)
  \/ Pop(t) \/ PopNothing(t)
  \/ SettleMissing(t) \/ Remove(t) \/ Release(t) \/ Fail(t)
  \/ \E flag \in BOOLEAN : SetPaused(t, flag)
  \/ Reload(t)

LocalStorageNext ==
  \/ \E t \in Tabs : TabStep(t)
  \/ \E queue \in Queues : Clear(queue)
  \/ Elapse

LocalStorageSpec == LocalStorageInit /\ [][LocalStorageNext]_local

-----------------------------------------------------------------------------
(* uniqueFor, as push's comment has it ("same as the memory driver"): no   *)
(* two jobs that are in flight share a uniqueId, whatever their queues.    *)
UniqueInFlight ==
  \A q, r \in Queues : \A i \in DOMAIN storage[q].jobs, j \in DOMAIN storage[r].jobs :
    LET a == storage[q].jobs[i]
        b == storage[r].jobs[j]
    IN  InFlight(a) /\ InFlight(b) /\ a.uniqueId = b.uniqueId /\ a.uniqueId # Undefined
        => i = j

(* No job is in the hands of two tabs, and what a worker believes of the   *)
(* job it holds is what is stored (unless the queue was wiped meanwhile),  *)
(* however reads, writes, wipes and reloads of the tabs interleave: only a *)
(* stale write or a discarded reservation gives a job a second holder.     *)
SingleHolder ==
  \A t \in Tabs : hand[t] # Nothing /\ hand[t].id \notin spoilt =>
    LET stored == storage[QueueOf[t]].jobs
    IN  /\ \A u \in Tabs : hand[u] # Nothing /\ hand[u].id = hand[t].id => u = t
        /\ hand[t].id \in DOMAIN stored => stored[hand[t].id] = hand[t].job

(* size() = 0 answers "is the queue drained?": what it counts is pending,  *)
(* delayed or reserved, and whatever can be popped is among it.  What      *)
(* pendingSize() counts can be popped now: a pending job never waits for   *)
(* its availableAt.  (A job whose delay has elapsed stays "delayed" until  *)
(* it is popped, so delayedSize() counts some that can be popped, too.)    *)
CountsAgree ==
  \A queue \in Queues :
    /\ Size(queue) = SizeOf(queue, "pending") + SizeOf(queue, "delayed")
                                              + SizeOf(queue, "reserved")
    /\ SizeOf(queue, "pending") <= Cardinality(Poppable(storage[queue], queue))
    /\ Size(queue) = 0 => Poppable(storage[queue], queue) = {}

(* The driver implements JobLifecycle for each job, as one write may lose  *)
(* several jobs while it takes or settles another.  What becomes of a      *)
(* spoilt job is outside of it: it counts as forgotten.                    *)
JobOf(id) ==
  IF id \in spoilt THEN {}
  ELSE {storage[queue].jobs[id] : queue \in {q \in Queues : id \in DOMAIN storage[q].jobs}}

PhaseOf(id) ==
  CASE id >= nextId                                    -> "unborn"
    [] id < nextId /\ JobOf(id) = {}                   -> "gone"
    [] \E job \in JobOf(id) : job.status = "reserved"  -> "held"
    [] \E job \in JobOf(id) : job.status = "failed"    -> "buried"
    [] OTHER                                           -> "waiting"

TriesOf(id) == IF JobOf(id) = {} THEN 0 ELSE (CHOOSE job \in JobOf(id) : TRUE).attempts

Life(id) == INSTANCE JobLifecycle WITH
              MaxJobs <- 1, phase <- [one \in 1..1 |-> PhaseOf(id)],
              tries <- [one \in 1..1 |-> TriesOf(id)]

ImplementsJobLifecycle ==
  /\ \A id \in JobIds : Life(id)!LifeInit
  /\ [][\A id \in JobIds : Life(id)!LifeNext \/ UNCHANGED Life(id)!life]_local
=============================================================================
