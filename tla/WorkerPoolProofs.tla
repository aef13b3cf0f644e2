--------------------------- MODULE WorkerPoolProofs ---------------------------
(***************************************************************************)
(* What TLAPS proves of the workers on an in-memory connection: for any    *)
(* workers, loops, queues, options and jobs, any faults of the driver and  *)
(* both settings of failOnTimeout.                                         *)
(***************************************************************************)
EXTENDS WorkerPool, MemoryConnectionProofs

-----------------------------------------------------------------------------
(* Who holds a job.                                                        *)

Processing(l) == loop[l].stage = "processing"

(* A loop that processes a job works on what the store holds of it, unless *)
(* the job was wiped; the record cannot change under it, for nobody else   *)
(* settles it and a reserved job has no delay left to elapse.              *)
HoldsItsJob(l) ==
  /\ loop[l].id < nextId
  /\ loop[l].job.status = "reserved"
  /\ loop[l].job.attempts > 0
  /\ loop[l].job.dueIn = 0
  /\ loop[l].id \in DOMAIN jobs => jobs[loop[l].id] = loop[l].job

OneHolder ==
  \A l, m \in Loops : Processing(l) /\ Processing(m) /\ loop[l].id = loop[m].id => l = m

HoldersInv ==
  /\ MemoryTypeOK
  /\ WorkerTypeOK
  /\ \A l \in Loops : Processing(l) => HoldsItsJob(l)
  /\ OneHolder

(* How a tick that processed a job can end for it.                         *)
Concludes(id, job) ==
  \/ Remove(id) /\ Settles(id, "processed")
  \/ Fail(id) /\ Settles(id, "failed")
  \/ /\ job.attempts < job.maxAttempts
     /\ \E delayMs \in 0..MaxBackoff : Release(id, delayMs)
     /\ Settles(id, "released")
  \/ UNCHANGED <<memory, reported>> /\ unsettled' = unsettled \cup {id}

LEMMA FailureConcludes ==
  ASSUME NEW id \in JobIds, NEW job \in Job, job.attempts > 0, NEW timedOut,
         HandleFailure(id, job, timedOut)
  PROVE  Concludes(id, job)
<1> USE WorkerAssumption DEF Job
<1>1. CASE ShouldFailNow(job, timedOut)
  BY <1>1 DEF HandleFailure, Rejects, Concludes
<1>2. CASE ~ShouldFailNow(job, timedOut)
  <2>1. job.attempts < job.maxAttempts
    BY <1>2 DEF ShouldFailNow
  <2>2. ComputeBackoff(job.attempts + 1, job.backoffMs, MaxBackoff) \in 0..MaxBackoff
    BY BackoffBounded
  <2> QED BY <1>2, <2>1, <2>2 DEF HandleFailure, Rejects, Concludes
<1> QED BY <1>1, <1>2

(* The three ways a processor's tick ends have this in common.             *)
LEMMA TickConcludes ==
  ASSUME HoldersInv, NEW l \in Loops,
         ProcessorResolves(l) \/ ProcessorRejects(l) \/ ProcessorTimesOut(l)
  PROVE  /\ Processing(l) /\ loop[l].id \in JobIds /\ loop[l].job \in Job /\ HoldsItsJob(l)
         /\ Concludes(loop[l].id, loop[l].job)
         /\ loop' = [loop EXCEPT ![l] = Idle("ending")]
         /\ executing' \in {executing, executing \ {ExecutionOf(l)}}
         /\ UNCHANGED <<running, pendingTick>>
<1>1. /\ Processing(l) /\ loop' = [loop EXCEPT ![l] = Idle("ending")]
      /\ executing' \in {executing, executing \ {ExecutionOf(l)}}
      /\ UNCHANGED <<running, pendingTick>>
  BY DEF ProcessorResolves, ProcessorRejects, ProcessorTimesOut, Processing
<1>2. loop[l].id \in JobIds /\ loop[l].job \in Job /\ HoldsItsJob(l)
  BY <1>1 DEF HoldersInv, WorkerTypeOK, Processing, Idle
<1>3. Concludes(loop[l].id, loop[l].job)
  <2> DEFINE id == loop[l].id  job == loop[l].job
  <2>1. id \in JobIds /\ job \in Job /\ job.attempts > 0
    BY <1>2 DEF HoldsItsJob
  <2>2. \/ Remove(id) /\ Settles(id, "processed")
        \/ \E timedOut \in BOOLEAN : HandleFailure(id, job, timedOut)
    BY DEF ProcessorResolves, ProcessorRejects, ProcessorTimesOut
  <2> HIDE DEF id, job
  <2>3. Concludes(id, job)
    BY <2>1, <2>2, FailureConcludes DEF Concludes
  <2> QED BY <2>3 DEF id, job
<1> QED BY <1>1, <1>2, <1>3

(* What the driver does in a step of the pool is a step the driver allows: *)
(* the workers keep to the protocol that MemorySpec asks of its callers.   *)
LEMMA ConclusionIsSettlement ==
  ASSUME NEW l \in Loops, Processing(l), loop[l].id \in JobIds, HoldsItsJob(l),
         Concludes(loop[l].id, loop[l].job)
  PROVE  [MemoryNext]_memory
<1> DEFINE id == loop[l].id
<1>1. id \in DOMAIN jobs => jobs[id].status = "reserved"
  BY DEF HoldsItsJob
<1>2. \A delayMs \in 0..MaxBackoff : delayMs \in Delays
  BY WorkerAssumption
<1>3. id \in JobIds /\ Concludes(id, loop[l].job)
  OBVIOUS
<1> HIDE DEF id
<1>4. Settle(id) \/ UNCHANGED memory
  BY <1>1, <1>2, <1>3 DEF Concludes, Settle
<1> QED BY <1>3, <1>4 DEF MemoryNext

LEMMA PoolStepIsMemoryStep == HoldersInv /\ [PoolNext]_pool => [MemoryNext]_memory
<1> SUFFICES ASSUME HoldersInv, [PoolNext]_pool PROVE [MemoryNext]_memory
  OBVIOUS
<1>1. ASSUME NEW w \in Workers, Start(w) \/ Stop(w) PROVE [MemoryNext]_memory
  BY <1>1 DEF Start, Stop
<1>2. ASSUME NEW l \in Loops, ScheduleNext(l) PROVE [MemoryNext]_memory
  BY <1>2 DEF ScheduleNext
<1>3. ASSUME NEW l \in Loops, TickPops(l) PROVE [MemoryNext]_memory
  <2>1. QueueOf[l[1]] \in Queues
    BY WorkerAssumption DEF Loops
  <2>2. \E id \in JobIds : Pop(QueueOf[l[1]], id)
    BY <1>3 DEF TickPops
  <2> QED BY <2>1, <2>2 DEF MemoryNext
<1>4. ASSUME NEW l \in Loops, TickEndsWithoutJob(l) PROVE [MemoryNext]_memory
  BY <1>4 DEF TickEndsWithoutJob, PopNothing
<1>5. ASSUME NEW l \in Loops,
             ProcessorResolves(l) \/ ProcessorRejects(l) \/ ProcessorTimesOut(l)
      PROVE  [MemoryNext]_memory
  BY <1>5, TickConcludes, ConclusionIsSettlement
<1>6. ASSUME NEW execution \in executing, LateCompletion(execution) PROVE [MemoryNext]_memory
  BY <1>6 DEF LateCompletion
<1>7. CASE Dispatch \/ Elapse
  BY <1>7 DEF MemoryNext
<1>8. CASE UNCHANGED pool
  BY <1>8 DEF pool
<1> QED
  BY <1>1, <1>2, <1>3, <1>4, <1>5, <1>6, <1>7, <1>8 DEF PoolNext, LoopStep

-----------------------------------------------------------------------------
(* The state of the workers is well-formed.                                *)
LEMMA PoolTypeInit == PoolInit => MemoryTypeOK /\ WorkerTypeOK
<1> SUFFICES ASSUME PoolInit PROVE MemoryTypeOK /\ WorkerTypeOK
  OBVIOUS
<1>1. MemoryTypeOK
  BY TypeInit DEF PoolInit
<1>2. WorkerTypeOK
  BY DEF PoolInit, WorkersInit, WorkerTypeOK, Events
<1> QED BY <1>1, <1>2

LEMMA PoolTypeStep == HoldersInv /\ [PoolNext]_pool => MemoryTypeOK' /\ WorkerTypeOK'
<1> SUFFICES ASSUME HoldersInv, [PoolNext]_pool PROVE MemoryTypeOK' /\ WorkerTypeOK'
  OBVIOUS
<1>0. MemoryTypeOK'
  BY PoolStepIsMemoryStep, MemoryStepIsStoreStep, TypeStep DEF HoldersInv
<1> USE DEF HoldersInv, WorkerTypeOK
<1>1. ASSUME NEW w \in Workers, Start(w) PROVE WorkerTypeOK'
  <2>1. PICK s \in Slots : SetTimer(<<w, s>>)
    BY <1>1 DEF Start
  <2> QED BY <1>1, <2>1 DEF Start, SetTimer, Loops
<1>2. ASSUME NEW w \in Workers, Stop(w) PROVE WorkerTypeOK'
  BY <1>2 DEF Stop
<1>3. ASSUME NEW l \in Loops, ScheduleNext(l) PROVE WorkerTypeOK'
  BY <1>3 DEF ScheduleNext, SetTimer, Loops
<1>4. ASSUME NEW l \in Loops, TickPops(l) PROVE WorkerTypeOK'
  <2>1. PICK id \in JobIds : /\ Pop(QueueOf[l[1]], id)
                             /\ loop' = [loop EXCEPT ![l] = Busy(id, jobs'[id])]
                             /\ executing' = executing \cup {<<id, jobs'[id].attempts>>}
    BY <1>4 DEF TickPops
  <2>2. jobs'[id] \in Job
    BY <1>0, <2>1 DEF MemoryTypeOK, Pop, Poppable
  <2>3. jobs'[id].attempts \in Nat
    BY <2>2 DEF Job
  <2>4. Busy(id, jobs'[id]) \in [stage: {"processing"}, id: JobIds, job: Job]
    BY <2>2 DEF Busy
  <2> QED BY <1>4, <2>1, <2>3, <2>4 DEF TickPops
<1>5. ASSUME NEW l \in Loops, TickEndsWithoutJob(l) PROVE WorkerTypeOK'
  BY <1>5 DEF TickEndsWithoutJob
<1>6. ASSUME NEW l \in Loops,
             ProcessorResolves(l) \/ ProcessorRejects(l) \/ ProcessorTimesOut(l)
      PROVE  WorkerTypeOK'
  <2>1. /\ loop[l].id \in JobIds
        /\ Concludes(loop[l].id, loop[l].job)
        /\ loop' = [loop EXCEPT ![l] = Idle("ending")]
        /\ executing' \in {executing, executing \ {ExecutionOf(l)}}
        /\ UNCHANGED <<running, pendingTick>>
    BY <1>6, TickConcludes
  <2>2. reported' \in [JobIds -> Events] /\ unsettled' \subseteq JobIds
    BY <2>1 DEF Concludes, Settles, Report, Events
  <2> QED BY <2>1, <2>2
<1>7. ASSUME NEW execution \in executing, LateCompletion(execution) PROVE WorkerTypeOK'
  BY <1>7 DEF LateCompletion
<1>8. ASSUME UNCHANGED workers PROVE WorkerTypeOK'
  BY <1>8 DEF workers
<1>9. WorkerTypeOK'
  BY <1>1, <1>2, <1>3, <1>4, <1>5, <1>6, <1>7, <1>8 DEF PoolNext, LoopStep, pool
<1> QED BY <1>0, <1>9

-----------------------------------------------------------------------------
(* Mutual exclusion.  A settlement ends the hold of one loop and touches   *)
(* no job but that one.                                                    *)
LEMMA ConclusionTouchesOneJob ==
  ASSUME MemoryTypeOK, NEW id \in JobIds, NEW job, Concludes(id, job)
  PROVE  /\ nextId' = nextId
         /\ DOMAIN jobs' \subseteq DOMAIN jobs
         /\ \A other \in DOMAIN jobs' \ {id} : jobs'[other] = jobs[other]
<1> USE DEF MemoryTypeOK
<1>1. CASE Remove(id)
  BY <1>1 DEF Remove, Restrict
<1>2. CASE Fail(id)
  BY <1>2 DEF Fail
<1>3. ASSUME NEW delayMs, Release(id, delayMs)
      PROVE  /\ nextId' = nextId
             /\ DOMAIN jobs' \subseteq DOMAIN jobs
             /\ \A other \in DOMAIN jobs' \ {id} : jobs'[other] = jobs[other]
  BY <1>3 DEF Release
<1>4. CASE UNCHANGED memory
  BY <1>4 DEF memory
<1> QED BY <1>1, <1>2, <1>3, <1>4 DEF Concludes

(* A step in which no loop starts to process, no held job changes and no   *)
(* id is taken back preserves the invariant.                               *)
LEMMA HoldersUndisturbed ==
  ASSUME HoldersInv, MemoryTypeOK', WorkerTypeOK', nextId' >= nextId,
         \A l \in Loops : Processing(l)' =>
           /\ loop'[l] = loop[l]
           /\ loop[l].id \in DOMAIN jobs' => /\ loop[l].id \in DOMAIN jobs
                                             /\ jobs'[loop[l].id] = jobs[loop[l].id]
  PROVE  HoldersInv'
<1>1. \A l \in Loops : Processing(l)' => Processing(l) /\ HoldsItsJob(l)
  BY DEF HoldersInv, Processing
<1>2. ASSUME NEW l \in Loops, Processing(l)' PROVE HoldsItsJob(l)'
  <2>1. loop[l].id < nextId => loop[l].id < nextId'
    <3>1. loop[l].id \in Nat
      BY <1>1, <1>2, MemoryAssumption DEF HoldersInv, WorkerTypeOK, Processing, Idle, JobIds
    <3> QED BY <3>1, MemoryAssumption DEF HoldersInv, MemoryTypeOK
  <2> QED BY <1>1, <1>2, <2>1 DEF HoldsItsJob
<1>3. OneHolder'
  BY <1>1 DEF HoldersInv, OneHolder
<1> QED BY <1>2, <1>3 DEF HoldersInv

LEMMA DispatchSparesStoredJobs ==
  ASSUME MemoryTypeOK, Dispatch
  PROVE  /\ nextId' \in {nextId, nextId + 1}
         /\ \A id \in DOMAIN jobs' : id < nextId => id \in DOMAIN jobs /\ jobs'[id] = jobs[id]
         /\ \A id \in DOMAIN jobs' : id >= nextId => \E options \in Options : jobs'[id] = CreateQueuedJob(options)
<1> DEFINE Spared == /\ nextId' \in {nextId, nextId + 1}
                     /\ \A id \in DOMAIN jobs' :
                          id < nextId => id \in DOMAIN jobs /\ jobs'[id] = jobs[id]
                     /\ \A id \in DOMAIN jobs' :
                          id >= nextId => \E options \in Options : jobs'[id] = CreateQueuedJob(options)
<1>0. ASSUME NEW id \in DOMAIN jobs PROVE ~(id >= nextId)
  BY MemoryAssumption DEF MemoryTypeOK
<1>1. ASSUME NEW options \in Options, Push(options) PROVE Spared
  <2> DEFINE job == CreateQueuedJob(options)
  <2>1. CASE Duplicates(job.uniqueId) # {}
    BY <1>0, <1>1, <2>1 DEF Push
  <2>2. CASE Duplicates(job.uniqueId) = {}
    <3>1. /\ nextId' = nextId + 1
          /\ jobs' = [id \in DOMAIN jobs \cup {nextId} |->
                        IF id = nextId THEN job ELSE jobs[id]]
      BY <1>1, <2>2 DEF Push
    <3> HIDE DEF job
    <3>2. \A id \in DOMAIN jobs' : id < nextId => id \in DOMAIN jobs /\ jobs'[id] = jobs[id]
      BY <3>1, MemoryAssumption DEF MemoryTypeOK
    <3>3. \A id \in DOMAIN jobs' : id >= nextId => jobs'[id] = job
      BY <1>0, <3>1
    <3> QED BY <3>1, <3>2, <3>3 DEF job
  <2> QED BY <2>1, <2>2
<1>2. ASSUME NEW queue \in Queues, Clear(queue) PROVE Spared
  BY <1>0, <1>2 DEF Clear, Restrict
<1>3. ASSUME NEW queue \in Queues, Pause(queue) \/ Resume(queue) PROVE Spared
  BY <1>0, <1>3 DEF Pause, Resume
<1>4. CASE Close
  BY <1>4 DEF Close
<1> QED BY <1>1, <1>2, <1>3, <1>4 DEF Dispatch

LEMMA HoldersInitial == PoolInit => HoldersInv
<1> SUFFICES ASSUME PoolInit PROVE HoldersInv
  OBVIOUS
<1>1. \A l \in Loops : ~Processing(l)
  BY DEF PoolInit, WorkersInit, Processing, Idle
<1> QED BY <1>1, PoolTypeInit DEF HoldersInv, OneHolder

LEMMA HoldersStep == HoldersInv /\ [PoolNext]_pool => HoldersInv'
<1> SUFFICES ASSUME HoldersInv, [PoolNext]_pool PROVE HoldersInv'
  OBVIOUS
<1>0. MemoryTypeOK' /\ WorkerTypeOK'
  BY PoolTypeStep
<1>id. \A l \in Loops : Processing(l) => loop[l].id \in JobIds /\ loop[l].job \in Job
  BY DEF HoldersInv, WorkerTypeOK, Processing, Idle
<1>n. nextId \in Nat /\ JobIds \subseteq Nat
  BY MemoryAssumption DEF HoldersInv, MemoryTypeOK, JobIds
<1>s. ASSUME UNCHANGED memory,
             \A l \in Loops : Processing(l)' => loop'[l] = loop[l]
      PROVE  HoldersInv'
  <2>1. nextId' >= nextId
    BY <1>s, <1>n DEF memory
  <2> QED BY <1>0, <1>s, <2>1, HoldersUndisturbed DEF memory
<1>1. ASSUME NEW w \in Workers, Start(w) PROVE HoldersInv'
  <2>1. PICK s \in Slots : SetTimer(<<w, s>>)
    BY <1>1 DEF Start
  <2>2. \A l \in Loops : Processing(l)' => loop'[l] = loop[l]
    BY <2>1 DEF SetTimer, Processing, Idle, HoldersInv, WorkerTypeOK
  <2> QED BY <1>1, <1>s, <2>2 DEF Start
<1>2. ASSUME NEW w \in Workers, Stop(w) PROVE HoldersInv'
  <2>1. \A l \in Loops : Processing(l)' => loop'[l] = loop[l]
    BY <1>2 DEF Stop, Processing, Idle
  <2> QED BY <1>2, <1>s, <2>1 DEF Stop
<1>3. ASSUME NEW l \in Loops, ScheduleNext(l) PROVE HoldersInv'
  <2>1. \A m \in Loops : Processing(m)' => loop'[m] = loop[m]
    BY <1>3 DEF ScheduleNext, SetTimer, Processing, Idle, HoldersInv, WorkerTypeOK
  <2> QED BY <1>3, <1>s, <2>1 DEF ScheduleNext
<1>4. ASSUME NEW l \in Loops, TickPops(l) PROVE HoldersInv'
  <2>1. PICK id \in JobIds : /\ Pop(QueueOf[l[1]], id)
                             /\ loop' = [loop EXCEPT ![l] = Busy(id, jobs'[id])]
    BY <1>4 DEF TickPops
  <2>2. /\ id \in DOMAIN jobs /\ jobs[id] \in Job
        /\ jobs[id].status \in {"pending", "delayed"} /\ jobs[id].dueIn = 0
        /\ jobs' = [jobs EXCEPT ![id] = Reserve(jobs[id])] /\ nextId' = nextId
    BY <2>1 DEF Pop, Poppable, CanBePopped, HoldersInv, MemoryTypeOK
  <2>3. /\ jobs'[id].status = "reserved" /\ jobs'[id].dueIn = 0
        /\ jobs'[id].attempts > 0
    BY <2>2, ReserveWrites
  <2>4. id < nextId
    BY <2>2, <1>n DEF HoldersInv, MemoryTypeOK
  <2>5. \A m \in Loops : Processing(m) => loop[m].id # id
    BY <2>2 DEF HoldersInv, HoldsItsJob
  <2>6. /\ loop'[l] = Busy(id, jobs'[id])
        /\ \A m \in Loops \ {l} : loop'[m] = loop[m]
    BY <2>1 DEF HoldersInv, WorkerTypeOK
  <2>7. HoldsItsJob(l)'
    BY <2>2, <2>3, <2>4, <2>6 DEF HoldsItsJob, Busy
  <2>8. ASSUME NEW m \in Loops \ {l}, Processing(m)' PROVE HoldsItsJob(m)'
    <3>1. Processing(m) /\ loop'[m] = loop[m] /\ loop[m].id # id
      BY <2>5, <2>6, <2>8 DEF Processing
    <3>2. loop[m].id \in DOMAIN jobs => jobs'[loop[m].id] = jobs[loop[m].id]
      BY <2>2, <3>1
    <3> QED BY <2>2, <3>1, <3>2 DEF HoldersInv, HoldsItsJob
  <2>9. OneHolder'
    BY <2>5, <2>6 DEF HoldersInv, OneHolder, Processing, Busy
  <2> QED BY <1>0, <2>7, <2>8, <2>9 DEF HoldersInv
<1>5. ASSUME NEW l \in Loops, TickEndsWithoutJob(l) PROVE HoldersInv'
  <2>1. \A m \in Loops : Processing(m)' => loop'[m] = loop[m]
    BY <1>5 DEF TickEndsWithoutJob, Processing, Idle, HoldersInv, WorkerTypeOK
  <2> QED BY <1>5, <1>s, <2>1 DEF TickEndsWithoutJob, PopNothing
<1>6. ASSUME NEW l \in Loops,
             ProcessorResolves(l) \/ ProcessorRejects(l) \/ ProcessorTimesOut(l)
      PROVE  HoldersInv'
  <2>1. /\ Processing(l) /\ loop[l].id \in JobIds
        /\ Concludes(loop[l].id, loop[l].job)
        /\ loop' = [loop EXCEPT ![l] = Idle("ending")]
    BY <1>6, TickConcludes
  <2>2. /\ nextId' = nextId
        /\ DOMAIN jobs' \subseteq DOMAIN jobs
        /\ \A other \in DOMAIN jobs' \ {loop[l].id} : jobs'[other] = jobs[other]
    BY <2>1, ConclusionTouchesOneJob DEF HoldersInv
  <2>3. \A m \in Loops : Processing(m)' => m # l /\ loop'[m] = loop[m]
    BY <2>1 DEF Processing, Idle, HoldersInv, WorkerTypeOK
  <2>4. \A m \in Loops : Processing(m)' => loop[m].id # loop[l].id
    BY <2>1, <2>3 DEF HoldersInv, OneHolder, Processing
  <2> QED BY <1>0, <1>n, <2>2, <2>3, <2>4, HoldersUndisturbed
<1>7. ASSUME NEW execution \in executing, LateCompletion(execution) PROVE HoldersInv'
  BY <1>7, <1>s DEF LateCompletion
<1>8. ASSUME Dispatch, UNCHANGED workers PROVE HoldersInv'
  <2>1. nextId' >= nextId
    BY <1>8, <1>n, DispatchSparesStoredJobs DEF HoldersInv
  <2>2. \A l \in Loops : Processing(l) => loop[l].id < nextId
    BY DEF HoldersInv, HoldsItsJob
  <2>3. \A l \in Loops : Processing(l)' => Processing(l) /\ loop'[l] = loop[l]
    BY <1>8 DEF workers, Processing
  <2> QED BY <1>0, <1>8, <2>1, <2>2, <2>3, DispatchSparesStoredJobs, HoldersUndisturbed
          DEF HoldersInv
<1>9. ASSUME Elapse, UNCHANGED workers PROVE HoldersInv'
  <2>1. /\ jobs' = [id \in DOMAIN jobs |-> Later(jobs[id])] /\ nextId' = nextId
        /\ \A l \in Loops : Processing(l)' => Processing(l) /\ loop'[l] = loop[l]
    BY <1>9 DEF Elapse, workers, Processing
  <2>2. ASSUME NEW l \in Loops, Processing(l), loop[l].id \in DOMAIN jobs
        PROVE  Later(jobs[loop[l].id]) = jobs[loop[l].id]
    <3>1. jobs[loop[l].id] \in Job /\ jobs[loop[l].id].dueIn = 0
      BY <2>2, <1>id DEF HoldersInv, HoldsItsJob
    <3> QED BY <3>1, LaterWrites
  <2> QED BY <1>0, <1>n, <2>1, <2>2, HoldersUndisturbed
<1>10. ASSUME UNCHANGED pool PROVE HoldersInv'
  BY <1>10, <1>s DEF pool, workers
<1> QED
  BY <1>1, <1>2, <1>3, <1>4, <1>5, <1>6, <1>7, <1>8, <1>9, <1>10 DEF PoolNext, LoopStep

LEMMA HoldersAlways == PoolSpec => []HoldersInv
  BY HoldersInitial, HoldersStep, PTL DEF PoolSpec

(* The workers' state is well-formed.                                      *)
THEOREM WorkerTypeCorrect == PoolSpec => []WorkerTypeOK
  BY HoldersAlways, PTL DEF HoldersInv

(* Mutual exclusion over all workers and all of their loops, however they  *)
(* are stopped and restarted: a job has one holder, and it is reserved for *)
(* it on the attempt the holder believes to be on, unless it was wiped.    *)
THEOREM SingleHolderAlways == PoolSpec => []SingleHolder
<1>1. HoldersInv => SingleHolder
  <2> SUFFICES ASSUME HoldersInv PROVE SingleHolder
    OBVIOUS
  <2>1. ASSUME NEW id \in JobIds PROVE Cardinality(Holders(id)) <= 1
    <3>1. CASE Holders(id) = {}
      BY <3>1, FS_EmptySet
    <3>2. CASE Holders(id) # {}
      <4>1. PICK l \in Holders(id) : TRUE
        BY <3>2
      <4>2. Holders(id) = {l}
        BY <4>1 DEF Holders, HoldersInv, OneHolder, Processing
      <4> QED BY <4>2, FS_Singleton
    <3> QED BY <3>1, <3>2
  <2> QED BY <2>1 DEF SingleHolder, HoldersInv, HoldsItsJob, Processing
<1> QED BY <1>1, HoldersAlways, PTL

(* The workers keep to the protocol the driver relies on: nobody settles a *)
(* job it did not pop, or a second time, and no delay is beyond the bound. *)
THEOREM PoolImplementsMemory == PoolSpec => MemorySpec
<1>1. PoolInit => MemoryInit
  BY DEF PoolInit
<1> QED BY <1>1, HoldersAlways, PoolStepIsMemoryStep, PTL DEF PoolSpec, MemorySpec

-----------------------------------------------------------------------------
(* What a step of the pool does, for the invariants below.                 *)

Settling(l) == ProcessorResolves(l) \/ ProcessorRejects(l) \/ ProcessorTimesOut(l)

(* Timers, polls without a job and late completions: nobody takes or gives *)
(* up a job.                                                               *)
NobodyMoves ==
  /\ UNCHANGED <<memory, reported, unsettled>>
  /\ \A l \in Loops : /\ Processing(l)' <=> Processing(l)
                      /\ Processing(l) => loop'[l] = loop[l]
  /\ executing' \subseteq executing
  /\ \A l \in Loops : Processing(l) /\ ExecutionOf(l) \in executing
                      => ExecutionOf(l) \in executing'

LEMMA PoolStepCases ==
  ASSUME WorkerTypeOK, [PoolNext]_pool
  PROVE  \/ NobodyMoves
         \/ \E l \in Loops : TickPops(l) \/ Settling(l)
         \/ (Dispatch \/ Elapse) /\ UNCHANGED workers
<1> USE DEF WorkerTypeOK, NobodyMoves, Processing, Idle
<1>1. ASSUME NEW w \in Workers, Start(w) PROVE NobodyMoves
  <2>1. PICK s \in Slots : loop[<<w, s>>] = Idle("free") /\ SetTimer(<<w, s>>)
    BY <1>1 DEF Start
  <2> QED BY <1>1, <2>1 DEF Start, SetTimer, Loops
<1>2. ASSUME NEW w \in Workers, Stop(w) PROVE NobodyMoves
  BY <1>2 DEF Stop
<1>3. ASSUME NEW l \in Loops, ScheduleNext(l) PROVE NobodyMoves
  BY <1>3 DEF ScheduleNext, SetTimer
<1>4. ASSUME NEW l \in Loops, TickEndsWithoutJob(l) PROVE NobodyMoves
  BY <1>4 DEF TickEndsWithoutJob, PopNothing
<1>5. ASSUME NEW execution \in executing, LateCompletion(execution) PROVE NobodyMoves
  BY <1>5 DEF LateCompletion, HeldBy
<1>6. ASSUME UNCHANGED pool PROVE NobodyMoves
  BY <1>6 DEF pool, workers
<1> QED BY <1>1, <1>2, <1>3, <1>4, <1>5, <1>6 DEF PoolNext, LoopStep, Settling

(* A pop: a waiting job that nobody holds is reserved for the loop.        *)
LEMMA TickPopsJob ==
  ASSUME HoldersInv, NEW l \in Loops, TickPops(l)
  PROVE  \E id \in DOMAIN jobs :
           /\ id \in JobIds /\ id < nextId /\ jobs[id] \in Job
           /\ jobs[id].status \in {"pending", "delayed"}
           /\ \A m \in Loops : Processing(m) => loop[m].id # id
           /\ jobs' = [jobs EXCEPT ![id] = Reserve(jobs[id])] /\ nextId' = nextId
           /\ loop' = [loop EXCEPT ![l] = Busy(id, Reserve(jobs[id]))]
           /\ executing' = executing \cup {<<id, jobs[id].attempts + 1>>}
           /\ ~Processing(l) /\ UNCHANGED <<running, reported, unsettled>>
<1>1. PICK id \in JobIds : /\ Pop(QueueOf[l[1]], id)
                           /\ loop' = [loop EXCEPT ![l] = Busy(id, jobs'[id])]
                           /\ executing' = executing \cup {<<id, jobs'[id].attempts>>}
  BY DEF TickPops
<1>2. /\ id \in DOMAIN jobs /\ jobs[id] \in Job
      /\ jobs[id].status \in {"pending", "delayed"}
      /\ jobs' = [jobs EXCEPT ![id] = Reserve(jobs[id])] /\ nextId' = nextId
  BY <1>1 DEF Pop, Poppable, CanBePopped, HoldersInv, MemoryTypeOK
<1>3. jobs'[id] = Reserve(jobs[id]) /\ jobs'[id].attempts = jobs[id].attempts + 1
  BY <1>2, ReserveWrites
<1>4. id < nextId
  BY <1>2, MemoryAssumption DEF HoldersInv, MemoryTypeOK
<1>5. \A m \in Loops : Processing(m) => loop[m].id # id
  BY <1>2 DEF HoldersInv, HoldsItsJob
<1>6. ~Processing(l) /\ UNCHANGED <<running, reported, unsettled>>
  BY DEF TickPops, Processing, Idle
<1> QED BY <1>1, <1>2, <1>3, <1>4, <1>5, <1>6

(* A settlement, by the event that reports it or by the driver's refusal:  *)
(* what becomes of the job if it was not wiped meanwhile.                  *)
Becomes(id, status) ==
  id \in DOMAIN jobs' => /\ id \in DOMAIN jobs /\ jobs[id] \in Job
                         /\ jobs'[id].status \in status
                         /\ jobs'[id].attempts = jobs[id].attempts
                         /\ jobs'[id].maxAttempts = jobs[id].maxAttempts

LEMMA SettlingOutcome ==
  ASSUME HoldersInv, NEW l \in Loops, Settling(l), NEW id, id = loop[l].id
  PROVE  \/ id \notin DOMAIN jobs' /\ Settles(id, "processed")
         \/ Becomes(id, {"failed"}) /\ Settles(id, "failed")
         \/ /\ Becomes(id, {"pending", "delayed"}) /\ Settles(id, "released")
            /\ id \in DOMAIN jobs => jobs[id].attempts < jobs[id].maxAttempts
         \/ UNCHANGED <<memory, reported>> /\ unsettled' = unsettled \cup {id}
<1>1. id \in JobIds /\ HoldsItsJob(l) /\ Concludes(id, loop[l].job)
  BY TickConcludes DEF Settling
<1>2. id \in DOMAIN jobs => jobs[id] \in Job /\ jobs[id] = loop[l].job
  BY <1>1 DEF HoldersInv, MemoryTypeOK, HoldsItsJob
<1>3. CASE Remove(id) /\ Settles(id, "processed")
  BY <1>3 DEF Remove, Restrict
<1>4. CASE Fail(id) /\ Settles(id, "failed")
  <2>1. id \in DOMAIN jobs' => id \in DOMAIN jobs /\ jobs'[id] = GiveUp(jobs[id])
    BY <1>2, <1>4 DEF Fail, HoldersInv, MemoryTypeOK
  <2> QED BY <1>2, <1>4, <2>1, GiveUpWrites DEF Becomes
<1>5. ASSUME NEW delayMs \in 0..MaxBackoff, Release(id, delayMs), Settles(id, "released"),
             loop[l].job.attempts < loop[l].job.maxAttempts
      PROVE  /\ Becomes(id, {"pending", "delayed"}) /\ Settles(id, "released")
             /\ id \in DOMAIN jobs => jobs[id].attempts < jobs[id].maxAttempts
  <2>1. id \in DOMAIN jobs' => id \in DOMAIN jobs /\ jobs'[id] = PutBack(jobs[id], delayMs)
    BY <1>2, <1>5 DEF Release, HoldersInv, MemoryTypeOK
  <2>2. delayMs \in Nat
    BY WorkerAssumption
  <2> QED BY <1>2, <1>5, <2>1, <2>2, PutBackWrites DEF Becomes
<1> QED BY <1>1, <1>3, <1>4, <1>5 DEF Concludes

LEMMA SettlingMoves ==
  ASSUME HoldersInv, NEW l \in Loops, Settling(l)
  PROVE  /\ Processing(l) /\ loop[l].id \in JobIds /\ HoldsItsJob(l)
         /\ loop' = [loop EXCEPT ![l] = Idle("ending")]
         /\ executing' \in {executing, executing \ {ExecutionOf(l)}}
         /\ nextId' = nextId /\ DOMAIN jobs' \subseteq DOMAIN jobs
         /\ \A other \in DOMAIN jobs' \ {loop[l].id} : jobs'[other] = jobs[other]
         /\ \A m \in Loops \ {l} : Processing(m) => loop[m].id # loop[l].id
         /\ UNCHANGED running
  BY TickConcludes, ConclusionTouchesOneJob DEF Settling, HoldersInv, OneHolder

-----------------------------------------------------------------------------
(* A running worker keeps its polling loop.                                *)
LEMMA LoopAliveStep == WorkerTypeOK /\ LoopAlive /\ [PoolNext]_pool => LoopAlive'
<1> SUFFICES ASSUME WorkerTypeOK, LoopAlive, [PoolNext]_pool PROVE LoopAlive'
  OBVIOUS
<1> USE DEF WorkerTypeOK, Loops
<1>0. ASSUME UNCHANGED running,
             \A l \in Loops : loop[l] # Idle("free") => loop'[l] # Idle("free")
      PROVE  LoopAlive'
  BY <1>0 DEF LoopAlive
<1>i. Idle("armed") # Idle("free") /\ Idle("ending") # Idle("free")
  BY DEF Idle
<1>1. ASSUME NEW w \in Workers, Start(w) PROVE LoopAlive'
  <2>1. PICK s \in Slots : SetTimer(<<w, s>>)
    BY <1>1 DEF Start
  <2>2. loop'[<<w, s>>] # Idle("free")
    BY <1>i, <2>1 DEF SetTimer
  <2>3. \A l \in Loops : loop[l] # Idle("free") => loop'[l] # Idle("free")
    BY <1>i, <2>1 DEF SetTimer
  <2>4. \A v \in Workers : running'[v] => v = w \/ running[v]
    BY <1>1 DEF Start
  <2> QED BY <2>2, <2>3, <2>4 DEF LoopAlive
<1>2. ASSUME NEW w \in Workers, Stop(w) PROVE LoopAlive'
  <2>1. \A v \in Workers : running'[v] => v # w /\ running[v]
    BY <1>2 DEF Stop
  <2>2. \A v \in Workers \ {w}, s \in Slots : loop'[<<v, s>>] = loop[<<v, s>>]
    BY <1>2 DEF Stop
  <2> QED BY <2>1, <2>2 DEF LoopAlive
<1>3. ASSUME NEW l \in Loops, ScheduleNext(l) PROVE LoopAlive'
  <2>1. CASE running[l[1]]
    BY <1>0, <1>3, <1>i, <2>1 DEF ScheduleNext, SetTimer
  <2>2. CASE ~running[l[1]]
    <3>1. running' = running
      BY <1>3 DEF ScheduleNext
    <3>2. \A v \in Workers, s \in Slots : running[v] => loop'[<<v, s>>] = loop[<<v, s>>]
      BY <1>3, <2>2 DEF ScheduleNext
    <3>3. \A v \in Workers : running[v] => \E s \in Slots : loop[<<v, s>>] # Idle("free")
      BY DEF LoopAlive
    <3>4. ASSUME NEW v \in Workers, running[v]
          PROVE  \E s \in Slots : loop'[<<v, s>>] # Idle("free")
      BY <3>2, <3>3, <3>4
    <3> QED BY <3>1, <3>4 DEF LoopAlive
  <2> QED BY <2>1, <2>2
<1>4. ASSUME NEW l \in Loops, TickPops(l) PROVE LoopAlive'
  <2>1. PICK id : loop' = [loop EXCEPT ![l] = Busy(id, jobs'[id])]
    BY <1>4 DEF TickPops
  <2>2. Busy(id, jobs'[id]) # Idle("free")
    BY DEF Busy, Idle
  <2> QED BY <1>0, <1>4, <2>1, <2>2 DEF TickPops
<1>5. ASSUME NEW l \in Loops, TickEndsWithoutJob(l) \/ Settling(l) PROVE LoopAlive'
  BY <1>0, <1>5, <1>i
     DEF TickEndsWithoutJob, Settling, ProcessorResolves, ProcessorRejects, ProcessorTimesOut
<1>6. ASSUME NEW execution \in executing, LateCompletion(execution) PROVE LoopAlive'
  BY <1>0, <1>6 DEF LateCompletion
<1>7. ASSUME UNCHANGED workers PROVE LoopAlive'
  BY <1>0, <1>7 DEF workers
<1> QED
  BY <1>1, <1>2, <1>3, <1>4, <1>5, <1>6, <1>7 DEF PoolNext, LoopStep, Settling, pool

(* A running worker never loses its polling loop, whatever rejects and     *)
(* however often it is stopped and started again.                          *)
THEOREM LoopAliveAlways == PoolSpec => []LoopAlive
<1>1. PoolInit => LoopAlive
  BY DEF PoolInit, WorkersInit, LoopAlive
<1> QED BY <1>1, WorkerTypeCorrect, LoopAliveStep, PTL DEF PoolSpec

-----------------------------------------------------------------------------
(* Reservations end with their holder.                                     *)
LEMMA NoStrandedStep ==
  HoldersInv /\ NoStrandedReservation /\ [PoolNext]_pool => NoStrandedReservation'
<1> SUFFICES ASSUME HoldersInv, NoStrandedReservation, [PoolNext]_pool,
                    NEW id \in DOMAIN jobs', jobs'[id].status = "reserved"
             PROVE  (\E l \in Loops : Processing(l)' /\ loop'[l].id = id) \/ id \in unsettled'
  BY DEF NoStrandedReservation, Holders, Processing
<1>0. id \in DOMAIN jobs /\ jobs[id].status = "reserved"
      => (\E l \in Loops : Processing(l) /\ loop[l].id = id) \/ id \in unsettled
  BY DEF NoStrandedReservation, Holders, Processing
<1>1. CASE NobodyMoves
  BY <1>0, <1>1 DEF NobodyMoves, memory
<1>2. ASSUME NEW l \in Loops, TickPops(l)
      PROVE  (\E m \in Loops : Processing(m)' /\ loop'[m].id = id) \/ id \in unsettled'
  <2>1. PICK popped \in DOMAIN jobs :
          /\ jobs' = [jobs EXCEPT ![popped] = Reserve(jobs[popped])]
          /\ loop' = [loop EXCEPT ![l] = Busy(popped, Reserve(jobs[popped]))]
          /\ ~Processing(l) /\ unsettled' = unsettled
    BY <1>2, TickPopsJob
  <2>2. /\ loop'[l] = Busy(popped, Reserve(jobs[popped]))
        /\ \A m \in Loops \ {l} : loop'[m] = loop[m]
    BY <2>1 DEF HoldersInv, WorkerTypeOK
  <2>3. CASE id = popped
    BY <2>2, <2>3 DEF Processing, Busy
  <2>4. CASE id # popped
    BY <1>0, <2>1, <2>2, <2>4 DEF Processing
  <2> QED BY <2>3, <2>4
<1>3. ASSUME NEW l \in Loops, Settling(l)
      PROVE  (\E m \in Loops : Processing(m)' /\ loop'[m].id = id) \/ id \in unsettled'
  <2>1. /\ DOMAIN jobs' \subseteq DOMAIN jobs
        /\ \A other \in DOMAIN jobs' \ {loop[l].id} : jobs'[other] = jobs[other]
        /\ \A m \in Loops \ {l} : loop'[m] = loop[m]
    BY <1>3, SettlingMoves DEF HoldersInv, WorkerTypeOK
  <2>2. unsettled \subseteq unsettled'
    BY <1>3, SettlingOutcome DEF Settles
  <2>3. CASE id = loop[l].id
    BY <1>3, <2>3, SettlingOutcome DEF Becomes
  <2>4. CASE id # loop[l].id
    BY <1>0, <2>1, <2>2, <2>4 DEF Processing
  <2> QED BY <2>3, <2>4
<1>4. CASE Dispatch /\ UNCHANGED workers
  <2>1. id < nextId => id \in DOMAIN jobs /\ jobs'[id] = jobs[id]
    BY <1>4, DispatchSparesStoredJobs DEF HoldersInv
  <2>2. ~(id >= nextId)
    BY <1>4, DispatchSparesStoredJobs, CreatedJob DEF HoldersInv
  <2>3. nextId \in Int /\ id \in Int
    BY PoolTypeStep, MemoryAssumption DEF HoldersInv, MemoryTypeOK
  <2> QED BY <1>0, <1>4, <2>1, <2>2, <2>3 DEF workers, Processing
<1>5. CASE Elapse /\ UNCHANGED workers
  <2>1. id \in DOMAIN jobs /\ jobs'[id] = Later(jobs[id]) /\ jobs[id] \in Job
    BY <1>5 DEF Elapse, HoldersInv, MemoryTypeOK
  <2> QED BY <1>0, <1>5, <2>1, LaterWrites DEF workers, Processing
<1> QED
  BY <1>1, <1>2, <1>3, <1>4, <1>5, PoolStepCases DEF HoldersInv

(* No reservation is stranded but by the driver: every reserved job has a  *)
(* loop that will settle it, or its settlement was rejected.               *)
THEOREM NoStrandedReservationAlways == PoolSpec => []NoStrandedReservation
<1>1. PoolInit => NoStrandedReservation
  BY DEF PoolInit, MemoryInit, NoStrandedReservation
<1> QED BY <1>1, HoldersAlways, NoStrandedStep, PTL DEF PoolSpec

-----------------------------------------------------------------------------
(* The budget of attempts.  A job that waits has an attempt left: that is  *)
(* what keeps the next pop within the budget.                              *)
Budget(job) == IF job.maxAttempts > 1 THEN job.maxAttempts ELSE 1

WithinBudget(job) ==
  /\ job.attempts <= Budget(job)
  /\ job.status \in {"pending", "delayed"} => job.attempts < Budget(job)

BudgetInv == \A id \in DOMAIN jobs : WithinBudget(jobs[id])

LEMMA BudgetStep == HoldersInv /\ BudgetInv /\ [PoolNext]_pool => BudgetInv'
<1> SUFFICES ASSUME HoldersInv, BudgetInv, [PoolNext]_pool, NEW id \in DOMAIN jobs'
             PROVE  WithinBudget(jobs'[id])
  BY DEF BudgetInv
<1>t. \A other \in DOMAIN jobs : jobs[other] \in Job /\ WithinBudget(jobs[other])
  BY DEF HoldersInv, MemoryTypeOK, BudgetInv
<1>1. CASE NobodyMoves
  BY <1>1, <1>t DEF NobodyMoves, memory
<1>2. ASSUME NEW l \in Loops, TickPops(l) PROVE WithinBudget(jobs'[id])
  <2>1. PICK popped \in DOMAIN jobs :
          /\ jobs[popped].status \in {"pending", "delayed"}
          /\ jobs' = [jobs EXCEPT ![popped] = Reserve(jobs[popped])]
    BY <1>2, TickPopsJob
  <2>2. WithinBudget(Reserve(jobs[popped]))
    BY <1>t, <2>1, ReserveWrites DEF WithinBudget, Budget, Job
  <2> QED BY <1>t, <2>1, <2>2
<1>3. ASSUME NEW l \in Loops, Settling(l) PROVE WithinBudget(jobs'[id])
  <2>1. id \in DOMAIN jobs /\ (id # loop[l].id => jobs'[id] = jobs[id])
    BY <1>3, SettlingMoves
  <2>2. CASE id # loop[l].id
    BY <1>t, <2>1, <2>2
  <2>3. CASE id = loop[l].id
    <3>1. \/ /\ jobs'[id].attempts = jobs[id].attempts
             /\ jobs'[id].maxAttempts = jobs[id].maxAttempts
             /\ \/ jobs'[id].status = "failed"
                \/ jobs[id].attempts < jobs[id].maxAttempts
          \/ jobs'[id] = jobs[id]
      BY <1>3, <2>1, <2>3, SettlingOutcome DEF Becomes, memory
    <3> QED BY <1>t, <2>1, <3>1 DEF WithinBudget, Budget, Job
  <2> QED BY <2>2, <2>3
<1>4. CASE Dispatch
  <2>1. CASE id < nextId
    BY <1>4, <1>t, <2>1, DispatchSparesStoredJobs DEF HoldersInv
  <2>2. CASE id >= nextId
    <3>1. PICK options \in Options : jobs'[id] = CreateQueuedJob(options)
      BY <1>4, <2>2, DispatchSparesStoredJobs DEF HoldersInv
    <3>2. CreateQueuedJob(options) \in Job /\ CreateQueuedJob(options).attempts = 0
      BY CreateQueuedJobType, CreatedJob
    <3> QED BY <3>1, <3>2 DEF WithinBudget, Budget, Job
  <2>3. nextId \in Int /\ id \in Int
    BY PoolTypeStep, MemoryAssumption DEF HoldersInv, MemoryTypeOK
  <2> QED BY <2>1, <2>2, <2>3
<1>5. CASE Elapse
  <2>1. id \in DOMAIN jobs /\ jobs'[id] = Later(jobs[id])
    BY <1>5 DEF Elapse
  <2> QED BY <1>t, <2>1, LaterWrites DEF WithinBudget, Budget
<1> QED
  BY <1>1, <1>2, <1>3, <1>4, <1>5, PoolStepCases DEF HoldersInv

(* Retries stay within the job's budget, which always grants one attempt.  *)
THEOREM AttemptsWithinBudgetAlways == PoolSpec => []AttemptsWithinBudget
<1>1. PoolInit => BudgetInv
  BY DEF PoolInit, MemoryInit, BudgetInv
<1>2. BudgetInv => AttemptsWithinBudget
  BY DEF BudgetInv, WithinBudget, Budget, AttemptsWithinBudget
<1> QED BY <1>1, <1>2, HoldersAlways, BudgetStep, PTL DEF PoolSpec

-----------------------------------------------------------------------------
(* Executions.  With failOnTimeout, a job that waits has none: a timeout   *)
(* fails the job, and every other way to release it ends its execution.    *)
ExecutionsInv ==
  /\ \A l \in Loops : Processing(l) => ExecutionOf(l) \in executing
  /\ \A e \in executing : e[1] < nextId
  /\ FailOnTimeout =>
       /\ \A e, f \in executing : e[1] = f[1] => e = f
       /\ \A e \in executing : e[1] \in DOMAIN jobs
                               => jobs[e[1]].status \notin {"pending", "delayed"}

(* Under failOnTimeout, a released job was not timed out.                  *)
LEMMA ReleaseEndsExecution ==
  ASSUME FailOnTimeout, HoldersInv, NEW l \in Loops, Settling(l)
  PROVE  \/ executing' = executing \ {ExecutionOf(l)}
         \/ Becomes(loop[l].id, {"failed"})
         \/ UNCHANGED memory
<1> DEFINE id == loop[l].id
<1>1. CASE ProcessorTimesOut(l)
  <2>1. Fail(id) \/ UNCHANGED memory
    BY <1>1 DEF ProcessorTimesOut, HandleFailure, ShouldFailNow, Rejects
  <2>2. id \in DOMAIN jobs => jobs[id] \in Job
    BY DEF HoldersInv, MemoryTypeOK
  <2>3. ASSUME Fail(id) PROVE Becomes(id, {"failed"})
    <3>1. id \in DOMAIN jobs' => id \in DOMAIN jobs /\ jobs'[id] = GiveUp(jobs[id])
      BY <2>3 DEF Fail, HoldersInv, MemoryTypeOK
    <3> QED BY <2>2, <3>1, GiveUpWrites DEF Becomes
  <2> QED BY <2>1, <2>3
<1>2. CASE ProcessorResolves(l) \/ ProcessorRejects(l)
  BY <1>2 DEF ProcessorResolves, ProcessorRejects
<1> QED BY <1>1, <1>2 DEF Settling

LEMMA ExecutionsStep == HoldersInv /\ ExecutionsInv /\ [PoolNext]_pool => ExecutionsInv'
<1> SUFFICES ASSUME HoldersInv, ExecutionsInv, [PoolNext]_pool PROVE ExecutionsInv'
  OBVIOUS
<1>t. /\ nextId \in Int /\ \A e \in executing : e[1] \in Int /\ e = <<e[1], e[2]>>
      /\ \A id \in DOMAIN jobs : jobs[id] \in Job
  BY MemoryAssumption DEF HoldersInv, MemoryTypeOK, WorkerTypeOK, JobIds
<1>1. CASE NobodyMoves
  <2>1. \A l \in Loops : Processing(l)' => Processing(l) /\ ExecutionOf(l)' = ExecutionOf(l)
    BY <1>1 DEF NobodyMoves, ExecutionOf
  <2> QED BY <1>1, <2>1 DEF NobodyMoves, ExecutionsInv, memory
<1>2. ASSUME NEW l \in Loops, TickPops(l) PROVE ExecutionsInv'
  <2>1. PICK id \in DOMAIN jobs :
          /\ id < nextId /\ jobs[id] \in Job /\ jobs[id].status \in {"pending", "delayed"}
          /\ jobs' = [jobs EXCEPT ![id] = Reserve(jobs[id])] /\ nextId' = nextId
          /\ loop' = [loop EXCEPT ![l] = Busy(id, Reserve(jobs[id]))]
          /\ executing' = executing \cup {<<id, jobs[id].attempts + 1>>}
    BY <1>2, TickPopsJob
  <2>2. /\ loop'[l] = Busy(id, Reserve(jobs[id]))
        /\ \A m \in Loops \ {l} : loop'[m] = loop[m]
    BY <2>1 DEF HoldersInv, WorkerTypeOK
  <2>3. Reserve(jobs[id]).attempts = jobs[id].attempts + 1
        /\ Reserve(jobs[id]).status = "reserved"
    BY <2>1, ReserveWrites
  <2>4. \A m \in Loops : Processing(m)' => ExecutionOf(m)' \in executing'
    <3>1. ExecutionOf(l)' = <<id, jobs[id].attempts + 1>>
      BY <2>2, <2>3 DEF ExecutionOf, Busy
    <3>2. \A m \in Loops \ {l} : Processing(m)' => Processing(m) /\ ExecutionOf(m)' = ExecutionOf(m)
      BY <2>2 DEF Processing, ExecutionOf
    <3> QED BY <2>1, <3>1, <3>2 DEF ExecutionsInv
  <2>5. \A e \in executing' : e[1] < nextId'
    BY <2>1 DEF ExecutionsInv
  <2>6. FailOnTimeout => \A e \in executing : e[1] # id
    BY <2>1 DEF ExecutionsInv
  <2>7. FailOnTimeout => \A e, f \in executing' : e[1] = f[1] => e = f
    BY <2>1, <2>6 DEF ExecutionsInv
  <2>8. FailOnTimeout => \A e \in executing' : e[1] \in DOMAIN jobs'
                            => jobs'[e[1]].status \notin {"pending", "delayed"}
    BY <2>1, <2>3 DEF ExecutionsInv
  <2> QED BY <2>4, <2>5, <2>7, <2>8 DEF ExecutionsInv
<1>3. ASSUME NEW l \in Loops, Settling(l) PROVE ExecutionsInv'
  <2>1. /\ Processing(l) /\ nextId' = nextId /\ DOMAIN jobs' \subseteq DOMAIN jobs
        /\ executing' \in {executing, executing \ {ExecutionOf(l)}}
        /\ \A other \in DOMAIN jobs' \ {loop[l].id} : jobs'[other] = jobs[other]
        /\ \A m \in Loops \ {l} : Processing(m) => loop[m].id # loop[l].id
        /\ loop'[l] = Idle("ending") /\ \A m \in Loops \ {l} : loop'[m] = loop[m]
    BY <1>3, SettlingMoves DEF HoldersInv, WorkerTypeOK
  <2>2. \A m \in Loops : Processing(m)' => ExecutionOf(m)' \in executing'
    <3>1. ASSUME NEW m \in Loops, Processing(m)'
          PROVE  /\ m # l /\ Processing(m) /\ ExecutionOf(m)' = ExecutionOf(m)
                 /\ ExecutionOf(m) # ExecutionOf(l)
      BY <2>1, <3>1 DEF Processing, ExecutionOf, Idle
    <3> QED BY <2>1, <3>1 DEF ExecutionsInv
  <2>3. ASSUME FailOnTimeout, NEW e \in executing', e[1] \in DOMAIN jobs'
        PROVE  jobs'[e[1]].status \notin {"pending", "delayed"}
    <3>1. e \in executing /\ e[1] \in DOMAIN jobs
      BY <2>1, <2>3
    <3>2. CASE e[1] # loop[l].id
      BY <2>1, <2>3, <3>1, <3>2 DEF ExecutionsInv
    <3>3. CASE e[1] = loop[l].id
      <4>1. e = ExecutionOf(l)
        BY <2>1, <2>3, <3>1, <3>3 DEF ExecutionsInv, ExecutionOf
      <4> QED BY <1>3, <2>3, <3>1, <3>3, <4>1, ReleaseEndsExecution
              DEF ExecutionsInv, Becomes, memory
    <3> QED BY <3>2, <3>3
  <2> QED BY <2>1, <2>2, <2>3 DEF ExecutionsInv
<1>4. ASSUME Dispatch, UNCHANGED workers PROVE ExecutionsInv'
  <2>1. /\ nextId' \in {nextId, nextId + 1}
        /\ \A id \in DOMAIN jobs' : id < nextId => id \in DOMAIN jobs /\ jobs'[id] = jobs[id]
    BY <1>4, DispatchSparesStoredJobs DEF HoldersInv
  <2>2. \A e \in executing : e[1] < nextId'
    BY <1>t, <2>1 DEF ExecutionsInv
  <2> QED BY <1>4, <2>1, <2>2 DEF ExecutionsInv, workers, Processing, ExecutionOf
<1>5. ASSUME Elapse, UNCHANGED workers PROVE ExecutionsInv'
  <2>1. /\ DOMAIN jobs' = DOMAIN jobs /\ nextId' = nextId
        /\ \A id \in DOMAIN jobs : jobs'[id].status = jobs[id].status
    BY <1>5, <1>t, LaterWrites DEF Elapse
  <2> QED BY <1>5, <2>1 DEF ExecutionsInv, workers, Processing, ExecutionOf
<1> QED
  BY <1>1, <1>2, <1>3, <1>4, <1>5, PoolStepCases DEF HoldersInv

(* With failOnTimeout, a job's processor never runs twice at once: not     *)
(* even the execution that a timeout abandoned meets a later one.          *)
THEOREM NoConcurrentExecutionsAlways == PoolSpec => []NoConcurrentExecutions
<1>1. PoolInit => ExecutionsInv
  BY DEF PoolInit, WorkersInit, ExecutionsInv, Processing, Idle
<1>2. ExecutionsInv => NoConcurrentExecutions
  BY DEF ExecutionsInv, NoConcurrentExecutions
<1> QED BY <1>1, <1>2, HoldersAlways, ExecutionsStep, PTL DEF PoolSpec

-----------------------------------------------------------------------------
(* The events and the store.  Only jobs that were dispatched are reported, *)
(* and an id that was given once is never given again.                     *)
EventsInv ==
  /\ EventsMatchStore
  /\ \A id \in JobIds : reported[id] # "none" => id < nextId

LEMMA EventsStep == HoldersInv /\ EventsInv /\ [PoolNext]_pool => EventsInv'
<1> SUFFICES ASSUME HoldersInv, EventsInv, [PoolNext]_pool PROVE EventsInv'
  OBVIOUS
<1>t. /\ nextId \in Int /\ \A id \in JobIds : id \in Int
      /\ \A id \in DOMAIN jobs : jobs[id] \in Job /\ id \in JobIds
  BY MemoryAssumption DEF HoldersInv, MemoryTypeOK, JobIds
<1>0. ASSUME UNCHANGED reported, nextId' >= nextId, nextId' \in Int,
             \A id \in JobIds : reported[id] # "none" /\ id \in DOMAIN jobs' =>
               /\ id \in DOMAIN jobs
               /\ jobs[id].status = "failed" => jobs'[id].status = "failed"
               /\ InFlight(jobs[id]) => InFlight(jobs'[id])
      PROVE  EventsInv'
  BY <1>t, <1>0 DEF EventsInv, EventsMatchStore
<1>1. CASE NobodyMoves
  BY <1>0, <1>1, <1>t DEF NobodyMoves, memory
<1>2. ASSUME NEW l \in Loops, TickPops(l) PROVE EventsInv'
  <2>1. PICK id \in DOMAIN jobs :
          /\ jobs[id] \in Job /\ jobs[id].status \in {"pending", "delayed"}
          /\ jobs' = [jobs EXCEPT ![id] = Reserve(jobs[id])] /\ nextId' = nextId
          /\ reported' = reported
    BY <1>2, TickPopsJob
  <2>2. InFlight(Reserve(jobs[id]))
    BY <2>1, ReserveWrites DEF InFlight
  <2> QED BY <1>0, <1>t, <2>1, <2>2
<1>3. ASSUME NEW l \in Loops, Settling(l) PROVE EventsInv'
  <2> DEFINE id == loop[l].id
  <2>1. /\ id \in JobIds /\ id < nextId /\ nextId' = nextId /\ DOMAIN jobs' \subseteq DOMAIN jobs
        /\ \A other \in DOMAIN jobs' \ {id} : jobs'[other] = jobs[other]
    BY <1>3, SettlingMoves DEF HoldsItsJob
  <2>2. ASSUME NEW event \in {"processed", "failed", "released"}, Settles(id, event),
               event = "processed" => id \notin DOMAIN jobs',
               event = "failed" => Becomes(id, {"failed"}),
               event = "released" => Becomes(id, {"pending", "delayed"})
        PROVE  EventsInv'
    <3>1. reported' = [reported EXCEPT ![id] = event] /\ reported \in [JobIds -> Events]
      BY <2>2 DEF Settles, Report, HoldersInv, WorkerTypeOK
    <3>2. ASSUME NEW other \in JobIds \ {id}
          PROVE  /\ reported'[other] = reported[other]
                 /\ other \in DOMAIN jobs' => other \in DOMAIN jobs /\ jobs'[other] = jobs[other]
      BY <2>1, <3>1
    <3>3. /\ reported'[id] = event
          /\ event = "failed" /\ id \in DOMAIN jobs' => jobs'[id].status = "failed"
          /\ event = "released" /\ id \in DOMAIN jobs' => InFlight(jobs'[id])
      BY <2>1, <2>2, <3>1 DEF Becomes, InFlight
    <3> QED BY <2>1, <2>2, <3>2, <3>3 DEF EventsInv, EventsMatchStore
  <2>3. CASE UNCHANGED <<memory, reported>>
    BY <1>0, <1>t, <2>3 DEF memory
  <2> QED BY <1>3, <2>2, <2>3, SettlingOutcome
<1>4. ASSUME Dispatch, UNCHANGED workers PROVE EventsInv'
  <2>1. /\ nextId' \in {nextId, nextId + 1}
        /\ \A id \in DOMAIN jobs' : id < nextId => id \in DOMAIN jobs /\ jobs'[id] = jobs[id]
    BY <1>4, DispatchSparesStoredJobs DEF HoldersInv
  <2> QED BY <1>0, <1>4, <1>t, <2>1 DEF EventsInv, workers
<1>5. ASSUME Elapse, UNCHANGED workers PROVE EventsInv'
  <2>1. /\ DOMAIN jobs' = DOMAIN jobs /\ nextId' = nextId
        /\ \A id \in DOMAIN jobs : jobs'[id].status = jobs[id].status
    BY <1>5, <1>t, LaterWrites DEF Elapse
  <2> QED BY <1>0, <1>5, <1>t, <2>1 DEF workers, InFlight
<1> QED
  BY <1>1, <1>2, <1>3, <1>4, <1>5, PoolStepCases DEF HoldersInv

(* What the event bus said last about a job is what the store holds.       *)
THEOREM EventsMatchStoreAlways == PoolSpec => []EventsMatchStore
<1>1. PoolInit => EventsInv
  BY DEF PoolInit, WorkersInit, EventsInv, EventsMatchStore
<1>2. EventsInv => EventsMatchStore
  BY DEF EventsInv
<1> QED BY <1>1, <1>2, HoldersAlways, EventsStep, PTL DEF PoolSpec

-----------------------------------------------------------------------------
(* What the driver guarantees to callers that keep to its protocol, the    *)
(* workers therefore get: no duplicate in flight, whatever is retried or   *)
(* abandoned, and for every job the life that JobLifecycle describes.      *)
THEOREM PoolKeepsUniqueness == PoolSpec => []UniqueInFlight
  BY PoolImplementsMemory, UniqueInFlightAlways, PTL

THEOREM PoolImplementsJobLifecycle == PoolSpec => ImplementsJobLifecycle
  BY PoolImplementsMemory, MemoryImplementsJobLifecycle, PTL
=============================================================================
