----------------------- MODULE MemoryConnectionProofs -----------------------
(***************************************************************************)
(* What TLAPS proves of the in-memory driver, for every set of queues,     *)
(* options and delays and any number of jobs.                              *)
(***************************************************************************)
EXTENDS MemoryConnection, QueuedJobProofs

(* Which of the eligible jobs pop hands out, and whether it looks at the   *)
(* pause flag, matters to none of the invariants below: they hold of any   *)
(* driver whose pop reserves some job that waits.  The proofs about the    *)
(* IndexedDB driver use them again.                                        *)
Take(id) ==
  /\ id \in DOMAIN jobs
  /\ jobs[id].status \in {"pending", "delayed"}
  /\ jobs' = [jobs EXCEPT ![id] = Reserve(@)]
  /\ UNCHANGED <<nextId, pausedQueues>>

StoreNext ==
  \/ Dispatch
  \/ \E id \in JobIds : Take(id) \/ Settle(id)
  \/ Elapse

LEMMA MemoryStepIsStoreStep == [MemoryNext]_memory => [StoreNext]_memory
<1>1. ASSUME NEW queue, NEW id, Pop(queue, id) PROVE Take(id)
  BY <1>1 DEF Pop, Take, Poppable, CanBePopped
<1> QED BY <1>1 DEF MemoryNext, StoreNext

(* Every change to jobs is of one of three kinds: jobs disappear, a new    *)
(* one is added under a fresh id, or jobs are replaced one by one.         *)
LEMMA TypeInit == MemoryInit => MemoryTypeOK
  BY MemoryAssumption DEF MemoryInit, MemoryTypeOK

LEMMA TypeStep == MemoryTypeOK /\ [StoreNext]_memory => MemoryTypeOK'
<1> SUFFICES ASSUME MemoryTypeOK, [StoreNext]_memory PROVE MemoryTypeOK'
  OBVIOUS
<1> USE MemoryAssumption DEF MemoryTypeOK
<1>1. ASSUME NEW options \in Options, Push(options) PROVE MemoryTypeOK'
  <2> DEFINE job == CreateQueuedJob(options)
  <2>1. job \in Job
    BY CreateQueuedJobType
  <2> HIDE DEF job
  <2>2. CASE Duplicates(job.uniqueId) # {}
    BY <1>1, <2>2 DEF Push, job
  <2>3. CASE Duplicates(job.uniqueId) = {}
    <3>1. /\ nextId <= MaxJobs /\ nextId' = nextId + 1 /\ pausedQueues' = pausedQueues
          /\ jobs' = [id \in DOMAIN jobs \cup {nextId} |->
                        IF id = nextId THEN job ELSE jobs[id]]
      BY <1>1, <2>3 DEF Push, job
    <3> QED BY <2>1, <3>1
  <2> QED BY <2>2, <2>3
<1>2. ASSUME NEW queue \in Queues, Clear(queue) PROVE MemoryTypeOK'
  BY <1>2 DEF Clear, Restrict
<1>3. ASSUME NEW queue \in Queues, Pause(queue) \/ Resume(queue) PROVE MemoryTypeOK'
  BY <1>3 DEF Pause, Resume
<1>4. CASE Close
  BY <1>4 DEF Close
<1>5. ASSUME NEW id \in JobIds, Take(id) PROVE MemoryTypeOK'
  <2>1. id \in DOMAIN jobs /\ jobs[id] \in Job
    BY <1>5 DEF Take
  <2>2. Reserve(jobs[id]) \in Job
    BY <2>1, JobOperationsType
  <2> QED BY <1>5, <2>1, <2>2 DEF Take
<1>6. ASSUME NEW id \in JobIds, Remove(id) PROVE MemoryTypeOK'
  BY <1>6 DEF Remove, Restrict
<1>7. ASSUME NEW id \in JobIds, NEW delayMs \in Delays, Release(id, delayMs)
      PROVE  MemoryTypeOK'
  <2>1. id \in DOMAIN jobs => PutBack(jobs[id], delayMs) \in Job
    BY JobOperationsType
  <2> QED BY <1>7, <2>1 DEF Release
<1>8. ASSUME NEW id \in JobIds, Fail(id) PROVE MemoryTypeOK'
  <2>1. id \in DOMAIN jobs => GiveUp(jobs[id]) \in Job
    BY JobOperationsType
  <2> QED BY <1>8, <2>1 DEF Fail
<1>9. CASE Elapse
  <2>1. \A id \in DOMAIN jobs : Later(jobs[id]) \in Job
    BY JobOperationsType
  <2> QED BY <1>9, <2>1 DEF Elapse
<1>10. CASE UNCHANGED memory
  BY <1>10 DEF memory
<1> QED
  BY <1>1, <1>2, <1>3, <1>4, <1>5, <1>6, <1>7, <1>8, <1>9, <1>10
     DEF StoreNext, Dispatch, Settle

(* The driver's state is well-formed.                                      *)
THEOREM MemoryTypeCorrect == MemorySpec => []MemoryTypeOK
<1>1. MemoryInit => MemoryTypeOK
  BY TypeInit
<1>2. MemoryTypeOK /\ [MemoryNext]_memory => MemoryTypeOK'
  BY MemoryStepIsStoreStep, TypeStep
<1> QED BY <1>1, <1>2, PTL DEF MemorySpec

-----------------------------------------------------------------------------
(* Uniqueness.  A step that neither adds a job, nor changes a uniqueId, nor *)
(* puts a finished job back in flight, cannot create a duplicate.           *)
LEMMA NoNewDuplicate ==
  ASSUME UniqueInFlight,
         DOMAIN jobs' \subseteq DOMAIN jobs,
         \A id \in DOMAIN jobs' : /\ jobs'[id].uniqueId = jobs[id].uniqueId
                                  /\ InFlight(jobs'[id]) => InFlight(jobs[id])
  PROVE  UniqueInFlight'
  BY DEF UniqueInFlight

LEMMA UniqueStep ==
  MemoryTypeOK /\ UniqueInFlight /\ [StoreNext]_memory => UniqueInFlight'
<1> SUFFICES ASSUME MemoryTypeOK, UniqueInFlight, [StoreNext]_memory PROVE UniqueInFlight'
  OBVIOUS
<1> USE DEF MemoryTypeOK
<1>1. ASSUME NEW options \in Options, Push(options) PROVE UniqueInFlight'
  <2> DEFINE job == CreateQueuedJob(options)
  <2>1. CASE Duplicates(job.uniqueId) # {}
    BY <1>1, <2>1 DEF Push, UniqueInFlight
  <2>2. CASE Duplicates(job.uniqueId) = {}
    <3>1. jobs' = [id \in DOMAIN jobs \cup {nextId} |->
                     IF id = nextId THEN job ELSE jobs[id]]
      BY <1>1, <2>2 DEF Push
    <3>2. nextId \notin DOMAIN jobs
      BY MemoryAssumption
    <3>3. \A id \in DOMAIN jobs : InFlight(jobs[id]) /\ job.uniqueId # Undefined
                                  => jobs[id].uniqueId # job.uniqueId
      BY <2>2 DEF Duplicates
    <3> HIDE DEF job
    <3> QED BY <3>1, <3>2, <3>3 DEF UniqueInFlight
  <2> QED BY <2>1, <2>2
<1>2. ASSUME NEW queue \in Queues, Clear(queue) PROVE UniqueInFlight'
  BY <1>2, NoNewDuplicate DEF Clear, Restrict
<1>3. ASSUME NEW queue \in Queues, Pause(queue) \/ Resume(queue) PROVE UniqueInFlight'
  BY <1>3, NoNewDuplicate DEF Pause, Resume
<1>4. CASE Close
  BY <1>4, NoNewDuplicate DEF Close
<1>5. ASSUME NEW id \in JobIds, Take(id) PROVE UniqueInFlight'
  <2>1. id \in DOMAIN jobs /\ InFlight(jobs[id]) /\ jobs[id] \in Job
    BY <1>5 DEF Take, InFlight
  <2>2. Reserve(jobs[id]).uniqueId = jobs[id].uniqueId
    BY <2>1 DEF Reserve, Job
  <2> QED BY <1>5, <2>1, <2>2, NoNewDuplicate DEF Take
<1>6. ASSUME NEW id \in JobIds, Remove(id) PROVE UniqueInFlight'
  BY <1>6, NoNewDuplicate DEF Remove, Restrict
<1>7. ASSUME NEW id \in JobIds, NEW delayMs \in Delays, Release(id, delayMs),
             id \in DOMAIN jobs => jobs[id].status = "reserved"
      PROVE  UniqueInFlight'
  <2>1. id \in DOMAIN jobs => /\ InFlight(jobs[id])
                              /\ PutBack(jobs[id], delayMs).uniqueId = jobs[id].uniqueId
    BY <1>7 DEF InFlight, PutBack, Job
  <2> QED BY <1>7, <2>1, NoNewDuplicate DEF Release
<1>8. ASSUME NEW id \in JobIds, Fail(id) PROVE UniqueInFlight'
  <2>1. id \in DOMAIN jobs => /\ ~InFlight(GiveUp(jobs[id]))
                              /\ GiveUp(jobs[id]).uniqueId = jobs[id].uniqueId
    BY DEF InFlight, GiveUp, Job
  <2> QED BY <1>8, <2>1, NoNewDuplicate DEF Fail
<1>9. CASE Elapse
  <2>1. \A id \in DOMAIN jobs : /\ InFlight(Later(jobs[id])) = InFlight(jobs[id])
                                /\ Later(jobs[id]).uniqueId = jobs[id].uniqueId
    BY DEF InFlight, Later, Job
  <2> QED BY <1>9, <2>1, NoNewDuplicate DEF Elapse
<1>10. CASE UNCHANGED memory
  BY <1>10, NoNewDuplicate DEF memory
<1> QED
  BY <1>1, <1>2, <1>3, <1>4, <1>5, <1>6, <1>7, <1>8, <1>9, <1>10
     DEF StoreNext, Dispatch, Settle

(* uniqueFor holds across all queues of the connection: push never stores  *)
(* a second in-flight job with the same uniqueId, and no release or retry  *)
(* brings one back.                                                        *)
THEOREM UniqueInFlightAlways == MemorySpec => []UniqueInFlight
<1>1. MemoryInit => MemoryTypeOK /\ UniqueInFlight
  BY TypeInit DEF MemoryInit, UniqueInFlight
<1>2. MemoryTypeOK /\ UniqueInFlight /\ [MemoryNext]_memory
      => MemoryTypeOK' /\ UniqueInFlight'
  BY MemoryStepIsStoreStep, TypeStep, UniqueStep
<1> QED BY <1>1, <1>2, PTL DEF MemorySpec

-----------------------------------------------------------------------------
(* The counters.  What they rest on: every job waits, is reserved or       *)
(* failed, and a pending one is due.                                       *)
AllStoredProperly == \A id \in DOMAIN jobs : StoredProperly(jobs[id])

LEMMA StoredStep ==
  MemoryTypeOK /\ AllStoredProperly /\ [StoreNext]_memory => AllStoredProperly'
<1> SUFFICES ASSUME MemoryTypeOK, AllStoredProperly, [StoreNext]_memory
             PROVE  AllStoredProperly'
  OBVIOUS
<1> USE DEF MemoryTypeOK, AllStoredProperly
<1>0. ASSUME \A id \in DOMAIN jobs' : \/ StoredProperly(jobs'[id])
                                      \/ id \in DOMAIN jobs /\ jobs'[id] = jobs[id]
      PROVE  AllStoredProperly'
  BY <1>0
<1>1. ASSUME NEW options \in Options, Push(options) PROVE AllStoredProperly'
  <2> DEFINE job == CreateQueuedJob(options)
  <2>1. StoredProperly(job)
    BY CreatedJob DEF StoredProperly
  <2>2. \/ jobs' = jobs
        \/ jobs' = [id \in DOMAIN jobs \cup {nextId} |-> IF id = nextId THEN job ELSE jobs[id]]
    BY <1>1 DEF Push
  <2> HIDE DEF job
  <2> QED BY <1>0, <2>1, <2>2
<1>2. ASSUME NEW queue \in Queues, Clear(queue) PROVE AllStoredProperly'
  BY <1>0, <1>2 DEF Clear, Restrict
<1>3. ASSUME NEW queue \in Queues, Pause(queue) \/ Resume(queue) PROVE AllStoredProperly'
  BY <1>3 DEF Pause, Resume
<1>4. CASE Close
  BY <1>4 DEF Close
<1>5. ASSUME NEW id \in JobIds, Take(id) PROVE AllStoredProperly'
  <2>1. id \in DOMAIN jobs /\ jobs' = [jobs EXCEPT ![id] = Reserve(jobs[id])]
    BY <1>5 DEF Take
  <2>2. StoredProperly(Reserve(jobs[id]))
    BY <2>1, ReserveWrites DEF StoredProperly
  <2> QED BY <1>0, <2>1, <2>2
<1>6. ASSUME NEW id \in JobIds, Remove(id) PROVE AllStoredProperly'
  BY <1>0, <1>6 DEF Remove, Restrict
<1>7. ASSUME NEW id \in JobIds, NEW delayMs \in Delays, Release(id, delayMs)
      PROVE  AllStoredProperly'
  <2>1. id \in DOMAIN jobs => StoredProperly(PutBack(jobs[id], delayMs))
    BY PutBackWrites, MemoryAssumption DEF StoredProperly
  <2> QED BY <1>0, <1>7, <2>1 DEF Release
<1>8. ASSUME NEW id \in JobIds, Fail(id) PROVE AllStoredProperly'
  <2>1. id \in DOMAIN jobs => StoredProperly(GiveUp(jobs[id]))
    BY GiveUpWrites DEF StoredProperly
  <2> QED BY <1>0, <1>8, <2>1 DEF Fail
<1>9. CASE Elapse
  <2>1. \A id \in DOMAIN jobs : StoredProperly(Later(jobs[id]))
    BY LaterWrites DEF StoredProperly
  <2> QED BY <1>0, <1>9, <2>1 DEF Elapse
<1>10. CASE UNCHANGED memory
  BY <1>10 DEF memory
<1> QED
  BY <1>1, <1>2, <1>3, <1>4, <1>5, <1>6, <1>7, <1>8, <1>9, <1>10
     DEF StoreNext, Dispatch, Settle

(* size() counts what waits or is reserved, whatever pendingSize() counts  *)
(* can be popped, and a drained queue has nothing to pop.                  *)
THEOREM CountsAgreeAlways == MemorySpec => []CountsAgree
<1>1. MemoryInit => AllStoredProperly
  BY DEF MemoryInit, AllStoredProperly
<1>2. MemoryTypeOK /\ AllStoredProperly => CountsAgree
  <2> SUFFICES ASSUME MemoryTypeOK, AllStoredProperly PROVE CountsAgree
    OBVIOUS
  <2>1. IsFiniteSet(DOMAIN jobs)
    <3>1. nextId - 1 \in Int
      BY MemoryAssumption DEF MemoryTypeOK
    <3> QED BY <3>1, FiniteIds DEF MemoryTypeOK
  <2> QED BY <2>1, CountersAgree DEF AllStoredProperly, CountsAgree, Size, SizeOf, Poppable
<1> QED BY <1>1, <1>2, MemoryTypeCorrect, MemoryStepIsStoreStep, StoredStep, PTL DEF MemorySpec

-----------------------------------------------------------------------------
(* The driver implements JobLifecycle.                                     *)

(* How the phases of the jobs follow from what the driver stores.          *)
Phases == [id \in JobIds |-> PhaseOf(id)]
Tries  == [id \in JobIds |-> TriesOf(id)]

LEMMA LifeInitial == MemoryInit => Life!LifeInit
<1> SUFFICES ASSUME MemoryInit PROVE Life!LifeInit
  OBVIOUS
<1>1. \A id \in JobIds : PhaseOf(id) = "unborn" /\ TriesOf(id) = 0
  BY MemoryAssumption DEF MemoryInit, JobIds, PhaseOf, TriesOf
<1> QED BY <1>1 DEF Life!LifeInit, JobIds

(* A step that changes the record of one stored job and nothing else       *)
(* changes the phase and the tries of no other job.                        *)
LEMMA OneJobChanges ==
  ASSUME MemoryTypeOK, NEW id \in DOMAIN jobs, NEW job,
         jobs' = [jobs EXCEPT ![id] = job], nextId' = nextId
  PROVE  /\ id \in JobIds
         /\ Phases' = [Phases EXCEPT ![id] = IF job.status = "reserved" THEN "held"
                                             ELSE IF job.status = "failed" THEN "buried"
                                             ELSE "waiting"]
         /\ Tries' = [Tries EXCEPT ![id] = job.attempts]
<1> USE MemoryAssumption DEF MemoryTypeOK, JobIds
<1>1. id \in JobIds /\ id < nextId /\ jobs'[id] = job /\ DOMAIN jobs' = DOMAIN jobs
  OBVIOUS
<1>2. \A other \in JobIds \ {id} : other \in DOMAIN jobs => jobs'[other] = jobs[other]
  OBVIOUS
<1>3. \A other \in JobIds \ {id} : PhaseOf(other)' = PhaseOf(other)
                                 /\ TriesOf(other)' = TriesOf(other)
  BY <1>1, <1>2 DEF PhaseOf, TriesOf
<1>4. /\ PhaseOf(id)' = IF job.status = "reserved" THEN "held"
                        ELSE IF job.status = "failed" THEN "buried" ELSE "waiting"
      /\ TriesOf(id)' = job.attempts
  BY <1>1 DEF PhaseOf, TriesOf
<1> QED BY <1>1, <1>3, <1>4 DEF Phases, Tries

(* A step that only forgets stored jobs is the abstract Forget.            *)
LEMMA JobsDisappear ==
  ASSUME MemoryTypeOK, NEW kept \in SUBSET DOMAIN jobs,
         jobs' = [id \in kept |-> jobs[id]], nextId' = nextId
  PROVE  Life!Forget(DOMAIN jobs \ kept) /\ DOMAIN jobs \ kept \in SUBSET JobIds
<1> USE MemoryAssumption DEF MemoryTypeOK, JobIds
<1>1. \A id \in JobIds : id \in DOMAIN jobs => id < nextId
  OBVIOUS
<1>2. \A id \in DOMAIN jobs \ kept : PhaseOf(id) # "unborn"
  BY <1>1 DEF PhaseOf
<1>3. \A id \in JobIds : /\ PhaseOf(id)' = IF id \in DOMAIN jobs \ kept THEN "gone" ELSE PhaseOf(id)
                         /\ TriesOf(id)' = IF id \in DOMAIN jobs \ kept THEN 0 ELSE TriesOf(id)
  BY <1>1 DEF PhaseOf, TriesOf
<1> QED BY <1>2, <1>3 DEF Life!Forget

LEMMA LifeStep ==
  MemoryTypeOK /\ [StoreNext]_memory => [Life!LifeNext]_Life!life
<1> SUFFICES ASSUME MemoryTypeOK, [StoreNext]_memory
             PROVE  Life!LifeNext \/ UNCHANGED <<Phases, Tries>>
  BY DEF Life!life, Phases, Tries
<1> USE MemoryAssumption DEF MemoryTypeOK, JobIds
<1>0. ASSUME jobs' = jobs, nextId' = nextId PROVE UNCHANGED <<Phases, Tries>>
  BY <1>0 DEF Phases, Tries, PhaseOf, TriesOf
<1>1. ASSUME NEW options \in Options, Push(options)
      PROVE  Life!LifeNext \/ UNCHANGED <<Phases, Tries>>
  <2> DEFINE job == CreateQueuedJob(options)
  <2>1. CASE Duplicates(job.uniqueId) # {}
    BY <1>0, <1>1, <2>1 DEF Push
  <2>2. CASE Duplicates(job.uniqueId) = {}
    <3>1. PICK new \in JobIds : new = nextId
      BY <1>1, <2>2 DEF Push
    <3>2. /\ nextId' = new + 1
          /\ jobs' = [id \in DOMAIN jobs \cup {new} |-> IF id = new THEN job ELSE jobs[id]]
      BY <1>1, <2>2, <3>1 DEF Push
    <3>3. job.status \in {"pending", "delayed"} /\ job.attempts = 0
      BY DEF CreateQueuedJob
    <3> HIDE DEF job
    <3>4. PhaseOf(new) = "unborn" /\ PhaseOf(new)' = "waiting"
      BY <3>1, <3>2, <3>3 DEF PhaseOf
    <3>5. \A id \in 1..(new - 1) : PhaseOf(id) # "unborn"
      BY <3>1 DEF PhaseOf
    <3>6. \A id \in JobIds \ {new} : PhaseOf(id)' = PhaseOf(id)
      BY <3>1, <3>2 DEF PhaseOf
    <3>7. \A id \in JobIds : TriesOf(id)' = TriesOf(id)
      BY <3>1, <3>2, <3>3 DEF TriesOf
    <3>8. Phases' = [Phases EXCEPT ![new] = "waiting"] /\ Tries' = Tries
      BY <3>4, <3>6, <3>7 DEF Phases, Tries
    <3>9. /\ Phases[new] = "unborn"
          /\ \A id \in 1..(new - 1) : Phases[id] # "unborn"
      BY <3>4, <3>5 DEF Phases
    <3>10. Life!Arrive(new)
      BY <3>8, <3>9 DEF Life!Arrive, Phases, Tries
    <3> QED BY <3>10 DEF Life!LifeNext
  <2> QED BY <2>1, <2>2
<1>2. ASSUME NEW kept \in SUBSET DOMAIN jobs,
             jobs' = [id \in kept |-> jobs[id]], nextId' = nextId
      PROVE  Life!LifeNext
  BY <1>2, JobsDisappear DEF Life!LifeNext
<1>3. ASSUME NEW queue \in Queues, Clear(queue) PROVE Life!LifeNext
  BY <1>2, <1>3 DEF Clear, Restrict
<1>4. ASSUME Close PROVE Life!LifeNext
  <2>1. jobs' = [id \in {} |-> jobs[id]] /\ nextId' = nextId
    BY <1>4 DEF Close
  <2> QED BY <1>2, <2>1
<1>5. ASSUME NEW id \in JobIds, Remove(id) PROVE Life!LifeNext
  BY <1>2, <1>5 DEF Remove, Restrict
<1>6. ASSUME NEW id \in JobIds, Take(id) PROVE Life!LifeNext
  <2>1. /\ id \in DOMAIN jobs /\ jobs[id] \in Job
        /\ jobs[id].status \in {"pending", "delayed"}
    BY <1>6 DEF Take
  <2>2. /\ Reserve(jobs[id]).status = "reserved"
        /\ Reserve(jobs[id]).attempts = jobs[id].attempts + 1
    BY <2>1 DEF Reserve, Job
  <2>3. jobs' = [jobs EXCEPT ![id] = Reserve(jobs[id])] /\ nextId' = nextId
    BY <1>6 DEF Take
  <2>4. /\ Phases' = [Phases EXCEPT ![id] = "held"]
        /\ Tries' = [Tries EXCEPT ![id] = jobs[id].attempts + 1]
    BY <2>1, <2>2, <2>3, OneJobChanges
  <2>5. Phases[id] = "waiting" /\ Tries[id] = jobs[id].attempts
    BY <2>1 DEF Phases, Tries, PhaseOf, TriesOf
  <2>6. Life!Take(id)
    BY <2>4, <2>5 DEF Life!Take, Phases, Tries
  <2> QED BY <2>6 DEF Life!LifeNext
<1>7. ASSUME NEW id \in JobIds, NEW delayMs \in Delays, Release(id, delayMs),
             id \in DOMAIN jobs => jobs[id].status = "reserved"
      PROVE  Life!LifeNext \/ UNCHANGED <<Phases, Tries>>
  <2>1. CASE id \notin DOMAIN jobs
    BY <1>0, <1>7, <2>1 DEF Release
  <2>2. CASE id \in DOMAIN jobs
    <3> PICK job : job = PutBack(jobs[id], delayMs)
      OBVIOUS
    <3>1. job.status \in {"pending", "delayed"} /\ job.attempts = jobs[id].attempts
      BY <2>2 DEF PutBack, Job
    <3>2. jobs' = [jobs EXCEPT ![id] = job] /\ nextId' = nextId
      BY <1>7, <2>2 DEF Release
    <3>3. /\ Phases' = [Phases EXCEPT ![id] = "waiting"]
          /\ Tries' = [Tries EXCEPT ![id] = jobs[id].attempts]
      <4>1. /\ Phases' = [Phases EXCEPT ![id] = IF job.status = "reserved" THEN "held"
                                                ELSE IF job.status = "failed" THEN "buried"
                                                ELSE "waiting"]
            /\ Tries' = [Tries EXCEPT ![id] = job.attempts]
        BY <2>2, <3>2, OneJobChanges
      <4> QED BY <3>1, <4>1
    <3>4. Phases[id] = "held" /\ Tries[id] = jobs[id].attempts
      BY <1>7, <2>2 DEF Phases, Tries, PhaseOf, TriesOf
    <3>5. Life!GiveBack(id)
      BY <3>3, <3>4 DEF Life!GiveBack, Phases, Tries
    <3> QED BY <3>5 DEF Life!LifeNext
  <2> QED BY <2>1, <2>2
<1>8. ASSUME NEW id \in JobIds, Fail(id),
             id \in DOMAIN jobs => jobs[id].status = "reserved"
      PROVE  Life!LifeNext \/ UNCHANGED <<Phases, Tries>>
  <2>1. CASE id \notin DOMAIN jobs
    BY <1>0, <1>8, <2>1 DEF Fail
  <2>2. CASE id \in DOMAIN jobs
    <3> PICK job : job = GiveUp(jobs[id])
      OBVIOUS
    <3>1. job.status = "failed" /\ job.attempts = jobs[id].attempts
      BY <2>2 DEF GiveUp, Job
    <3>2. jobs' = [jobs EXCEPT ![id] = job] /\ nextId' = nextId
      BY <1>8, <2>2 DEF Fail
    <3>3. /\ Phases' = [Phases EXCEPT ![id] = "buried"]
          /\ Tries' = [Tries EXCEPT ![id] = jobs[id].attempts]
      <4>1. /\ Phases' = [Phases EXCEPT ![id] = IF job.status = "reserved" THEN "held"
                                                ELSE IF job.status = "failed" THEN "buried"
                                                ELSE "waiting"]
            /\ Tries' = [Tries EXCEPT ![id] = job.attempts]
        BY <2>2, <3>2, OneJobChanges
      <4> QED BY <3>1, <4>1
    <3>4. Phases[id] = "held" /\ Tries[id] = jobs[id].attempts
      BY <1>8, <2>2 DEF Phases, Tries, PhaseOf, TriesOf
    <3>5. Life!Bury(id)
      BY <3>3, <3>4 DEF Life!Bury, Phases, Tries
    <3> QED BY <3>5 DEF Life!LifeNext
  <2> QED BY <2>1, <2>2
<1>9. ASSUME Elapse PROVE UNCHANGED <<Phases, Tries>>
  <2>1. \A id \in DOMAIN jobs : /\ Later(jobs[id]).status = jobs[id].status
                                /\ Later(jobs[id]).attempts = jobs[id].attempts
    BY DEF Later, Job
  <2>2. \A id \in JobIds : PhaseOf(id)' = PhaseOf(id) /\ TriesOf(id)' = TriesOf(id)
    BY <1>9, <2>1 DEF Elapse, PhaseOf, TriesOf
  <2> QED BY <2>2 DEF Phases, Tries
<1>10. ASSUME NEW queue \in Queues, Pause(queue) \/ Resume(queue)
       PROVE  UNCHANGED <<Phases, Tries>>
  BY <1>0, <1>10 DEF Pause, Resume
<1>11. CASE UNCHANGED memory
  BY <1>0, <1>11 DEF memory
<1> QED
  BY <1>1, <1>3, <1>4, <1>5, <1>6, <1>7, <1>8, <1>9, <1>10, <1>11
     DEF StoreNext, Dispatch, Settle

(* The driver keeps the promise of JobLifecycle: a reserved job is handed  *)
(* out again only after a release, at the price of one attempt each; a     *)
(* failed job stays failed; a removed or wiped job never comes back.       *)
THEOREM MemoryImplementsJobLifecycle == MemorySpec => ImplementsJobLifecycle
<1>1. MemoryInit => Life!LifeInit
  BY LifeInitial
<1>2. MemoryTypeOK /\ [MemoryNext]_memory => [Life!LifeNext]_Life!life
  BY MemoryStepIsStoreStep, LifeStep
<1> QED BY <1>1, <1>2, MemoryTypeCorrect, PTL
        DEF MemorySpec, ImplementsJobLifecycle, Life!LifeSpec
=============================================================================
