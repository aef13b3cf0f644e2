------------------------- MODULE IndexedDBConnection -------------------------
(***************************************************************************)
(* The IndexedDB driver (connections/indexeddb.connection.ts): one object  *)
(* store of jobs and one of pause flags, shared by all tabs of an origin   *)
(* and surviving their reloads.                                            *)
(*                                                                         *)
(* The unit of atomicity is the transaction: readwrite transactions on a   *)
(* store run one after the other.  push, remove, release, fail, clear,     *)
(* pause and resume are one transaction each, hence one action each.  pop  *)
(* is three: it reads the pause flag, it selects a job, and it writes the  *)
(* record it selected back as reserved; other transactions run in between. *)
(*                                                                         *)
(* Pops are called by the polling loops of workers, any number of them in  *)
(* every tab.  A loop that was handed a job settles it by the worker's     *)
(* policy and polls on.                                                    *)
(*                                                                         *)
(* Nothing makes the two writes of a pop one: a second loop, or a clear(), *)
(* may come in between, and the record that is written then is stale.  The *)
(* history variable `overwritten` keeps the jobs to which that happened,   *)
(* so that the properties say exactly of which jobs the driver keeps its   *)
(* promises.                                                               *)
(***************************************************************************)
EXTENDS QueuedJob, Functions

CONSTANTS
  Tabs,          \* the tabs that have this database open
  Loops,         \* the polling loops of the workers
  Layouts,       \* how the loops may be spread over the tabs
  QueueOf,       \* the queue each of them polls
  MaxJobs,       \* bound: how many jobs are ever created
  RetryDelay,    \* the delay a failed job is released with
  Disturbances   \* what may happen to a tab: "reload", "close" (of its database)

ASSUME IndexedDBAssumption ==
  /\ MaxJobs \in Nat /\ RetryDelay \in Nat
  /\ Layouts \subseteq [Loops -> Tabs] /\ QueueOf \in [Loops -> Queues]
  /\ Disturbances \subseteq {"reload", "close"}

VARIABLES
  tabOf,        \* the tab each loop runs in
  store,        \* the object store of jobs: from job id to job
  nextId,       \* the id the next job gets
  paused,       \* the object store of pause flags: the queues whose flag is set
  poll,         \* how far each loop's current pop or attempt has come
  overwritten   \* history: the jobs over which a stale record was written

idb == <<tabOf, store, nextId, paused, poll, overwritten>>

JobIds == 1..MaxJobs

(* "idle": between two ticks.  "asked": the pause flag was read and is not *)
(* set.  "selecting": the first transaction has chosen the job and its     *)
(* complete event is due.  "selected": the second transaction is queued.   *)
(* "holding": pop has returned the job.  "hung": pop will never answer.    *)
Idle  == [stage |-> "idle"]
Asked == [stage |-> "asked"]
Hung  == [stage |-> "hung"]
With(stage, id, job) == [stage |-> stage, id |-> id, job |-> job]

PollState ==
  {Idle, Asked, Hung} \cup
  [stage: {"selecting", "selected", "holding"}, id: JobIds, job: Job]

IndexedDBTypeOK ==
  /\ tabOf \in Layouts
  /\ nextId \in 1..(MaxJobs + 1)
  /\ DOMAIN store \subseteq 1..(nextId - 1)
  /\ store \in [DOMAIN store -> Job]
  /\ paused \subseteq Queues
  /\ DOMAIN poll = Loops /\ \A l \in Loops : poll[l] \in PollState
  /\ overwritten \subseteq JobIds

IndexedDBInit ==
  /\ tabOf \in Layouts
  /\ store = [id \in {} |-> Undefined]
  /\ nextId = 1
  /\ paused = {}
  /\ poll = [l \in Loops |-> Idle]
  /\ overwritten = {}

-----------------------------------------------------------------------------
Put(id, job) ==
  store' = [other \in DOMAIN store \cup {id} |-> IF other = id THEN job ELSE store[other]]

\* Mutant of Duplicates: reserved jobs do not block a new dispatch.
DuplicatesWaiting(uniqueId) ==
  {id \in DOMAIN store : uniqueId # Undefined /\ store[id].uniqueId = uniqueId
                                              /\ store[id].status \in {"pending", "delayed"}}

Duplicates(uniqueId) ==
  {id \in DOMAIN store : uniqueId # Undefined /\ store[id].uniqueId = uniqueId
                                              /\ InFlight(store[id])}

Push(options) ==
  LET job == CreateQueuedJob(options)
  IN  /\ nextId <= MaxJobs
      /\ IF Duplicates(job.uniqueId) # {}
           THEN UNCHANGED <<store, nextId>>
           ELSE Put(nextId, job) /\ nextId' = nextId + 1
      /\ UNCHANGED <<paused, poll, overwritten>>

Clear(queue) ==
  /\ store' = Restrict(store, {id \in DOMAIN store : store[id].queue # queue})
  /\ UNCHANGED <<nextId, paused, poll, overwritten>>

(* The records of the meta store: readMeta() and writeMeta().              *)
IsPaused(queue) == queue \in paused

WriteMeta(queue, flag) ==
  /\ paused' = IF flag THEN paused \cup {queue} ELSE paused \ {queue}
  /\ UNCHANGED <<store, nextId, poll, overwritten>>

Pause(queue) == WriteMeta(queue, TRUE)
Resume(queue) == WriteMeta(queue, FALSE)

-----------------------------------------------------------------------------
Moves(l, state) == poll' = [poll EXCEPT ![l] = state]

(* isPaused: a tick begins; a paused queue is answered with null.          *)
AskPaused(l) ==
  /\ poll[l] = Idle
  /\ ~IsPaused(QueueOf[l])
  /\ Moves(l, Asked)
  /\ UNCHANGED <<store, nextId, paused, overwritten>>

Poppable(queue) == {id \in DOMAIN store : CanBePopped(store[id], queue)}

(* size(), and pendingSize(), delayedSize(), reservedSize().               *)
Size(queue) == CountBy(store, queue, JobStatus \ {"completed", "failed"})
SizeOf(queue, status) == CountBy(store, queue, {status})

(* The first transaction: the oldest eligible job, or null.                *)
Select(l) ==
  /\ poll[l] = Asked
  /\ LET candidates == Poppable(QueueOf[l])
     IN  IF candidates = {}
           THEN Moves(l, Idle)
           ELSE \E id \in candidates :
                  /\ \A other \in candidates : id <= other
                  /\ Moves(l, With("selecting", id, store[id]))
  /\ UNCHANGED <<store, nextId, paused, overwritten>>

(* Its complete event opens the second transaction ...                     *)
SelectCompletes(l) ==
  /\ poll[l].stage = "selecting"
  /\ Moves(l, With("selected", poll[l].id, poll[l].job))
  /\ UNCHANGED <<store, nextId, paused, overwritten>>

(* ... unless the tab's database was closed meanwhile: db.transaction      *)
(* throws in the event handler, where nobody turns the exception into a    *)
(* rejection.                                                              *)
Close(tab) ==
  /\ \E l \in Loops : tabOf[l] = tab /\ poll[l].stage = "selecting"
  /\ poll' = [l \in Loops |-> IF tabOf[l] = tab /\ poll[l].stage = "selecting"
                                THEN Hung ELSE poll[l]]
  /\ UNCHANGED <<store, nextId, paused, overwritten>>

(* The second transaction puts the record that was read in the first, with *)
(* the changes a reservation makes, whatever the store holds by now.       *)
Current(id, job) == id \in DOMAIN store /\ store[id] = job

ReserveSelected(l) ==
  /\ poll[l].stage = "selected"
  /\ Put(poll[l].id, Reserve(poll[l].job))
  /\ Moves(l, With("holding", poll[l].id, Reserve(poll[l].job)))
  /\ overwritten' = IF Current(poll[l].id, poll[l].job) THEN overwritten
                                                        ELSE overwritten \cup {poll[l].id}
  /\ UNCHANGED <<nextId, paused>>

-----------------------------------------------------------------------------
(* How a worker settles the job it holds: see WorkerPool.                  *)
Remove(l) ==
  /\ poll[l].stage = "holding"
  /\ store' = Restrict(store, DOMAIN store \ {poll[l].id})
  /\ Moves(l, Idle)
  /\ UNCHANGED <<nextId, paused, overwritten>>

Mutate(id, job) ==
  store' = IF id \in DOMAIN store THEN [store EXCEPT ![id] = job] ELSE store

Release(l) ==
  /\ poll[l].stage = "holding"
  /\ poll[l].job.maxAttempts - poll[l].job.attempts > 0
  /\ Mutate(poll[l].id, PutBack(store[poll[l].id], RetryDelay))
  /\ Moves(l, Idle)
  /\ UNCHANGED <<nextId, paused, overwritten>>

Fail(l) ==
  /\ poll[l].stage = "holding"
  /\ Mutate(poll[l].id, GiveUp(store[poll[l].id]))
  /\ Moves(l, Idle)
  /\ UNCHANGED <<nextId, paused, overwritten>>

(* The tab is reloaded: what its loops were doing is forgotten, what they  *)
(* wrote stays.                                                            *)
Reload(tab) ==
  /\ poll' = [l \in Loops |-> IF tabOf[l] = tab THEN Idle ELSE poll[l]]
  /\ UNCHANGED <<store, nextId, paused, overwritten>>

Elapse ==
  /\ \E id \in DOMAIN store : store[id].dueIn > 0
  /\ store' = [id \in DOMAIN store |-> Later(store[id])]
  /\ UNCHANGED <<nextId, paused, poll, overwritten>>

-----------------------------------------------------------------------------
Proceed(l) ==
  \/ Select(l)
  \/ SelectCompletes(l)
  \/ ReserveSelected(l)
  \/ Remove(l) \/ Release(l) \/ Fail(l)

PollStep(l) == AskPaused(l) \/ Proceed(l)

Dispatch ==
  \/ \E options \in Options : Push(options)
  \/ \E queue \in Queues : Clear(queue) \/ Pause(queue) \/ Resume(queue)

Disturbance(tab) ==
  \/ "reload" \in Disturbances /\ Reload(tab)
  \/ "close" \in Disturbances /\ Close(tab)

IndexedDBNext ==
  /\ \/ Dispatch
     \/ \E tab \in Tabs : Disturbance(tab)
     \/ \E l \in Loops : PollStep(l)
     \/ Elapse
  /\ UNCHANGED tabOf

IndexedDBSpec == IndexedDBInit /\ [][IndexedDBNext]_idb

-----------------------------------------------------------------------------
(* uniqueFor: no two in-flight jobs share a uniqueId.  Only a job that a   *)
(* stale reservation brought back (wiped or settled when it was written)   *)
(* can be in flight beside the one that was dispatched in its place.       *)
UniqueInFlight ==
  \A i, j \in DOMAIN store \ overwritten :
    /\ InFlight(store[i]) /\ InFlight(store[j])
    /\ store[i].uniqueId = store[j].uniqueId /\ store[i].uniqueId # Undefined
    => i = j

(* A job is in the hands of one loop, and what that worker believes of it  *)
(* is what the store says (unless the queue was wiped meanwhile), however  *)
(* pops, wipes, reloads and closes interleave: the only way to a second    *)
(* holder is a reservation written over a record that had changed since    *)
(* it was selected.                                                        *)
SingleHolder ==
  \A l \in Loops : poll[l].stage = "holding" /\ poll[l].id \notin overwritten =>
    /\ \A m \in Loops : poll[m].stage = "holding" /\ poll[m].id = poll[l].id => m = l
    /\ poll[l].id \in DOMAIN store => store[poll[l].id] = poll[l].job

(* size() = 0 answers "is the queue drained?": what it counts is pending,  *)
(* delayed or reserved, and whatever can be popped is among it.  What      *)
(* pendingSize() counts can be popped now: a pending job never waits for   *)
(* its availableAt.  (A job whose delay has elapsed stays "delayed" until  *)
(* it is popped, so delayedSize() counts some that can be popped, too.)    *)
CountsAgree ==
  \A queue \in Queues :
    /\ Size(queue) = SizeOf(queue, "pending") + SizeOf(queue, "delayed")
                                              + SizeOf(queue, "reserved")
    /\ SizeOf(queue, "pending") <= Cardinality(Poppable(queue))
    /\ Size(queue) = 0 => Poppable(queue) = {}

(* The driver implements JobLifecycle; a selected job is still waiting.    *)
(* What becomes of a job after a stale reservation is outside of it: that  *)
(* job counts as forgotten.                                                *)
PhaseOf(id) ==
  CASE id >= nextId                                       -> "unborn"
    [] id < nextId /\ id \notin DOMAIN store \ overwritten -> "gone"
    [] id \in DOMAIN store \ overwritten /\ store[id].status = "reserved" -> "held"
    [] id \in DOMAIN store \ overwritten /\ store[id].status = "failed"   -> "buried"
    [] OTHER                                              -> "waiting"

TriesOf(id) == IF id \in DOMAIN store \ overwritten THEN store[id].attempts ELSE 0

Life == INSTANCE JobLifecycle WITH
          phase <- [id \in JobIds |-> PhaseOf(id)],
          tries <- [id \in JobIds |-> TriesOf(id)]

ImplementsJobLifecycle == Life!LifeSpec
=============================================================================
