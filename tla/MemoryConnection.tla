-------------------------- MODULE MemoryConnection --------------------------
(***************************************************************************)
(* The in-memory driver (connections/memory.connection.ts on top of        *)
(* connections/base.connection.ts): a Map of jobs and a Set of paused      *)
(* queues.  Every method runs to completion in the call that invokes it,   *)
(* so each one is a single action.                                         *)
(*                                                                         *)
(* The driver's methods check nothing about their caller.  The Spec of     *)
(* this module closes the driver with callers that keep to the protocol of *)
(* a worker: whoever popped a job settles it (remove, release or fail)     *)
(* once, and nobody else does.  WorkerPool shows that the workers do.      *)
(***************************************************************************)
EXTENDS QueuedJob, Functions

CONSTANTS
  MaxJobs,   \* bound: how many jobs are ever created
  Delays     \* the delays a caller may release a job with

ASSUME MemoryAssumption == MaxJobs \in Nat /\ Delays \subseteq Nat

VARIABLES
  jobs,          \* this.jobs: the Map from job id to job
  nextId,        \* the id the next job gets
  pausedQueues   \* this.pausedQueues

memory == <<jobs, nextId, pausedQueues>>

JobIds == 1..MaxJobs

MemoryTypeOK ==
  /\ nextId \in 1..(MaxJobs + 1)
  /\ DOMAIN jobs \subseteq 1..(nextId - 1)
  /\ jobs \in [DOMAIN jobs -> Job]
  /\ pausedQueues \subseteq Queues

MemoryInit ==
  /\ jobs = [id \in {} |-> Undefined]
  /\ nextId = 1
  /\ pausedQueues = {}

-----------------------------------------------------------------------------
\* Mutant of Duplicates: reserved jobs do not block a new dispatch.
DuplicatesWaiting(uniqueId) ==
  {id \in DOMAIN jobs : uniqueId # Undefined /\ jobs[id].uniqueId = uniqueId
                                             /\ jobs[id].status \in {"pending", "delayed"}}

Duplicates(uniqueId) ==
  {id \in DOMAIN jobs : uniqueId # Undefined /\ jobs[id].uniqueId = uniqueId
                                             /\ InFlight(jobs[id])}

(* push, and later(): a dispatch that finds an in-flight job with its      *)
(* uniqueId returns that job's id and stores nothing.                      *)
Push(options) ==
  LET job == CreateQueuedJob(options)
  IN  /\ nextId <= MaxJobs
      /\ IF Duplicates(job.uniqueId) # {}
           THEN UNCHANGED <<jobs, nextId>>
           ELSE /\ jobs' = [id \in DOMAIN jobs \cup {nextId} |->
                              IF id = nextId THEN job ELSE jobs[id]]
                /\ nextId' = nextId + 1
      /\ UNCHANGED pausedQueues

Poppable(queue) == {id \in DOMAIN jobs : CanBePopped(jobs[id], queue)}

(* pop that hands out job id: the oldest of the eligible ones.             *)
Pop(queue, id) ==
  /\ queue \notin pausedQueues
  /\ id \in Poppable(queue)
  /\ \A other \in Poppable(queue) : id <= other
  /\ jobs' = [jobs EXCEPT ![id] = Reserve(@)]
  /\ UNCHANGED <<nextId, pausedQueues>>

(* pop that returns null.                                                  *)
PopNothing(queue) ==
  /\ queue \in pausedQueues \/ Poppable(queue) = {}
  /\ UNCHANGED memory

(* size(), and pendingSize(), delayedSize(), reservedSize().               *)
Size(queue) == CountBy(jobs, queue, JobStatus \ {"completed", "failed"})
SizeOf(queue, status) == CountBy(jobs, queue, {status})

Remove(id) ==
  /\ jobs' = Restrict(jobs, DOMAIN jobs \ {id})
  /\ UNCHANGED <<nextId, pausedQueues>>

Release(id, delayMs) ==
  /\ jobs' = IF id \in DOMAIN jobs THEN [jobs EXCEPT ![id] = PutBack(@, delayMs)] ELSE jobs
  /\ UNCHANGED <<nextId, pausedQueues>>

Fail(id) ==
  /\ jobs' = IF id \in DOMAIN jobs THEN [jobs EXCEPT ![id] = GiveUp(@)] ELSE jobs
  /\ UNCHANGED <<nextId, pausedQueues>>

Clear(queue) ==
  /\ jobs' = Restrict(jobs, {id \in DOMAIN jobs : jobs[id].queue # queue})
  /\ UNCHANGED <<nextId, pausedQueues>>

Pause(queue) ==
  /\ pausedQueues' = pausedQueues \cup {queue}
  /\ UNCHANGED <<jobs, nextId>>

Resume(queue) ==
  /\ pausedQueues' = pausedQueues \ {queue}
  /\ UNCHANGED <<jobs, nextId>>

Close ==
  /\ jobs' = [id \in {} |-> Undefined]
  /\ pausedQueues' = {}
  /\ UNCHANGED nextId

(* One unit of time passes.                                                *)
Elapse ==
  /\ \E id \in DOMAIN jobs : jobs[id].dueIn > 0
  /\ jobs' = [id \in DOMAIN jobs |-> Later(jobs[id])]
  /\ UNCHANGED <<nextId, pausedQueues>>

-----------------------------------------------------------------------------
(* What a holder of a handle may do at any moment (QueueHandle), and the   *)
(* manager's close.                                                        *)
Dispatch ==
  \/ \E options \in Options : Push(options)
  \/ \E queue \in Queues : Clear(queue) \/ Pause(queue) \/ Resume(queue)
  \/ Close

(* A caller of remove, release or fail popped the job; it may be gone by   *)
(* now, cleared while the caller worked on it.                             *)
Settle(id) ==
  /\ id \in DOMAIN jobs => jobs[id].status = "reserved"
  /\ \/ Remove(id)
     \/ \E delayMs \in Delays : Release(id, delayMs)
     \/ Fail(id)

MemoryNext ==
  \/ Dispatch
  \/ \E queue \in Queues, id \in JobIds : Pop(queue, id)
  \/ \E id \in JobIds : Settle(id)
  \/ Elapse

MemorySpec == MemoryInit /\ [][MemoryNext]_memory

-----------------------------------------------------------------------------
(* uniqueFor: no two in-flight jobs of the connection share a uniqueId,    *)
(* whatever queue they are on and however often they are retried.          *)
UniqueInFlight ==
  \A i, j \in DOMAIN jobs :
    /\ InFlight(jobs[i]) /\ InFlight(jobs[j])
    /\ jobs[i].uniqueId = jobs[j].uniqueId /\ jobs[i].uniqueId # Undefined
    => i = j

(* size() = 0 answers "is the queue drained?": what it counts is pending,  *)
(* delayed or reserved, and whatever can be popped is among it.  What      *)
(* pendingSize() counts can be popped now: a pending job never waits for   *)
(* its availableAt.  (A job whose delay has elapsed stays "delayed" until  *)
(* it is popped, so delayedSize() counts some that can be popped, too.)    *)
CountsAgree ==
  \A queue \in Queues :
    /\ Size(queue) = SizeOf(queue, "pending") + SizeOf(queue, "delayed")
                                              + SizeOf(queue, "reserved")
    /\ SizeOf(queue, "pending") <= Cardinality(Poppable(queue))
    /\ Size(queue) = 0 => Poppable(queue) = {}

(* The driver implements JobLifecycle: a reserved job is handed out again  *)
(* only after it was released, each time at the price of one attempt; a    *)
(* failed job stays failed; a removed or wiped job never comes back.       *)
PhaseOf(id) ==
  CASE id >= nextId                                      -> "unborn"
    [] id < nextId /\ id \notin DOMAIN jobs              -> "gone"
    [] id \in DOMAIN jobs /\ jobs[id].status = "reserved" -> "held"
    [] id \in DOMAIN jobs /\ jobs[id].status = "failed"   -> "buried"
    [] OTHER                                             -> "waiting"

TriesOf(id) == IF id \in DOMAIN jobs THEN jobs[id].attempts ELSE 0

Life == INSTANCE JobLifecycle WITH
          phase <- [id \in JobIds |-> PhaseOf(id)],
          tries <- [id \in JobIds |-> TriesOf(id)]

ImplementsJobLifecycle == Life!LifeSpec
=============================================================================
