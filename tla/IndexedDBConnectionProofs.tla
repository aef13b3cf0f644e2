---------------------- MODULE IndexedDBConnectionProofs ----------------------
(***************************************************************************)
(* What TLAPS proves of the IndexedDB driver and of the cross-tab driver   *)
(* built on it: for any tabs, loops spread over them, queues, options and  *)
(* any number of jobs, however pops, wipes, settlements, reloads and       *)
(* closes interleave.                                                      *)
(*                                                                         *)
(* Nothing keeps two pops apart.  What holds of every job is that the      *)
(* records are well-formed and the counters add up; what holds of a job    *)
(* over which no stale reservation was written is everything the in-memory *)
(* driver promises.  The bridge is `Kept`, the store without the           *)
(* overwritten jobs: a step of the driver is a step of the in-memory       *)
(* driver on it, or it loses a job.                                        *)
(***************************************************************************)
EXTENDS BroadcastChannelConnection, QueuedJobProofs

Selecting(l) == poll[l].stage \in {"selecting", "selected"}
Holding(l) == poll[l].stage = "holding"

(* The record a loop read or was handed has an id that push gave out: the  *)
(* second transaction of a pop, which may put a wiped job back, never      *)
(* takes an id of the future.                                              *)
KnownIds ==
  /\ \A l \in Loops : Selecting(l) \/ Holding(l) => poll[l].id < nextId
  /\ overwritten \subseteq 1..(nextId - 1)

WellFormed == IndexedDBTypeOK /\ KnownIds

LEMMA PollParts ==
  ASSUME IndexedDBTypeOK, NEW l \in Loops, Selecting(l) \/ Holding(l)
  PROVE  poll[l].id \in JobIds /\ poll[l].job \in Job
  BY DEF IndexedDBTypeOK, PollState, Selecting, Holding, Idle, Asked, Hung

LEMMA StagesType ==
  /\ Idle \in PollState /\ Idle.stage = "idle"
  /\ Asked \in PollState /\ Asked.stage = "asked"
  /\ Hung \in PollState /\ Hung.stage = "hung"
  /\ \A stage \in {"selecting", "selected", "holding"}, id \in JobIds, job \in Job :
       /\ With(stage, id, job) \in PollState
       /\ With(stage, id, job).stage = stage
       /\ With(stage, id, job).id = id
       /\ With(stage, id, job).job = job
  BY DEF PollState, Idle, Asked, Hung, With

(* A step that stores well-formed jobs under known ids and leaves every    *)
(* loop where it was or in a well-formed state keeps everything            *)
(* well-formed.                                                            *)
LEMMA FormKept ==
  ASSUME WellFormed, tabOf' = tabOf, paused' \subseteq Queues,
         nextId' \in 1..(MaxJobs + 1), nextId' >= nextId,
         DOMAIN store' \subseteq 1..(nextId' - 1), store' \in [DOMAIN store' -> Job],
         overwritten' \subseteq 1..(nextId' - 1),
         DOMAIN poll' = Loops,
         \A l \in Loops :
           \/ poll'[l] = poll[l]
           \/ /\ poll'[l] \in PollState
              /\ poll'[l].stage \in {"selecting", "selected", "holding"} => poll'[l].id < nextId'
  PROVE  WellFormed'
<1> USE IndexedDBAssumption DEF WellFormed, IndexedDBTypeOK
<1>1. overwritten' \subseteq JobIds
  BY DEF JobIds
<1>2. IndexedDBTypeOK'
  BY <1>1
<1>3. \A l \in Loops : Selecting(l) \/ Holding(l) => poll[l].id \in Int
  BY PollParts DEF JobIds
<1>4. \A l \in Loops : Selecting(l)' \/ Holding(l)' => poll'[l].id < nextId'
  BY <1>3 DEF KnownIds, Selecting, Holding
<1> QED BY <1>2, <1>4 DEF KnownIds

LEMMA MoveKeepsForm ==
  ASSUME WellFormed, NEW l \in Loops, NEW state \in PollState, Moves(l, state),
         state.stage \in {"selecting", "selected", "holding"} => state.id < nextId,
         tabOf' = tabOf, nextId' = nextId, paused' = paused,
         overwritten' \subseteq 1..(nextId - 1),
         DOMAIN store' \subseteq 1..(nextId - 1), store' \in [DOMAIN store' -> Job]
  PROVE  WellFormed'
<1>1. /\ DOMAIN poll' = Loops
      /\ \A m \in Loops : poll'[m] = IF m = l THEN state ELSE poll[m]
  BY DEF Moves, WellFormed, IndexedDBTypeOK
<1>2. nextId \in Int /\ nextId \in 1..(MaxJobs + 1) /\ paused \subseteq Queues
  BY IndexedDBAssumption DEF WellFormed, IndexedDBTypeOK
<1> QED BY <1>1, <1>2, FormKept

LEMMA WellFormedInit == IndexedDBInit => WellFormed
<1> SUFFICES ASSUME IndexedDBInit PROVE WellFormed
  OBVIOUS
<1>1. poll = [l \in Loops |-> Idle] /\ store = [id \in {} |-> Undefined]
  BY DEF IndexedDBInit
<1>2. IndexedDBTypeOK
  BY <1>1, StagesType, IndexedDBAssumption DEF IndexedDBInit, IndexedDBTypeOK
<1>3. KnownIds
  BY <1>1, StagesType DEF IndexedDBInit, KnownIds, Selecting, Holding
<1> QED BY <1>2, <1>3 DEF WellFormed

LEMMA WellFormedStep == WellFormed /\ [IndexedDBNext]_idb => WellFormed'
<1> SUFFICES ASSUME WellFormed, [IndexedDBNext]_idb PROVE WellFormed'
  OBVIOUS
<1> USE IndexedDBAssumption DEF WellFormed
<1>t. tabOf' = tabOf
  BY DEF IndexedDBNext, idb
<1>k. overwritten \subseteq 1..(nextId - 1) /\ nextId \in Int
  BY DEF KnownIds, IndexedDBTypeOK
<1>0. ASSUME nextId' \in 1..(MaxJobs + 1), nextId' >= nextId, paused' \subseteq Queues,
             DOMAIN store' \subseteq 1..(nextId' - 1),
             store' \in [DOMAIN store' -> Job], poll' = poll, overwritten' = overwritten
      PROVE  WellFormed'
  BY <1>0, <1>t, <1>k, FormKept DEF IndexedDBTypeOK
<1>1. ASSUME NEW options \in Options, Push(options) PROVE WellFormed'
  <2> DEFINE job == CreateQueuedJob(options)
  <2>1. job \in Job
    BY CreateQueuedJobType
  <2>2. /\ nextId \in Nat /\ nextId <= MaxJobs
        /\ paused' = paused /\ poll' = poll /\ overwritten' = overwritten
    BY <1>1 DEF Push, IndexedDBTypeOK
  <2>3. CASE store' = store /\ nextId' = nextId
    BY <1>0, <2>2, <2>3 DEF IndexedDBTypeOK
  <2>4. CASE Put(nextId, job) /\ nextId' = nextId + 1
    <3> HIDE DEF job
    <3> QED BY <1>0, <2>1, <2>2, <2>4 DEF Put, IndexedDBTypeOK
  <2> QED BY <1>1, <2>3, <2>4 DEF Push
<1>2. ASSUME NEW queue \in Queues, Clear(queue) PROVE WellFormed'
  BY <1>0, <1>2 DEF Clear, Restrict, IndexedDBTypeOK
<1>3. ASSUME NEW queue \in Queues, Pause(queue) \/ Resume(queue) PROVE WellFormed'
  BY <1>0, <1>3 DEF Pause, Resume, WriteMeta, IndexedDBTypeOK
<1>4. CASE Elapse
  <2>1. \A id \in DOMAIN store : Later(store[id]) \in Job
    BY JobOperationsType DEF IndexedDBTypeOK
  <2> QED BY <1>0, <1>4, <2>1 DEF Elapse, IndexedDBTypeOK
<1>5. ASSUME NEW tab \in Tabs, Reload(tab) \/ Close(tab) PROVE WellFormed'
  <2>1. UNCHANGED <<store, nextId, paused, overwritten>>
    BY <1>5 DEF Reload, Close
  <2>2. DOMAIN poll' = Loops /\ \A l \in Loops : poll'[l] \in {poll[l], Idle, Hung}
    BY <1>5 DEF Reload, Close
  <2> QED BY <1>t, <1>k, <2>1, <2>2, StagesType, FormKept DEF IndexedDBTypeOK
<1>6. ASSUME NEW l \in Loops, AskPaused(l) PROVE WellFormed'
  BY <1>t, <1>k, <1>6, StagesType, MoveKeepsForm DEF AskPaused, IndexedDBTypeOK
<1>7. ASSUME NEW l \in Loops, Select(l) PROVE WellFormed'
  <2>1. UNCHANGED <<store, nextId, paused, overwritten>>
    BY <1>7 DEF Select
  <2>2. CASE Moves(l, Idle)
    BY <1>t, <1>k, <2>1, <2>2, StagesType, MoveKeepsForm DEF IndexedDBTypeOK
  <2>3. ASSUME NEW id \in Poppable(QueueOf[l]), Moves(l, With("selecting", id, store[id]))
        PROVE  WellFormed'
    <3>1. id \in JobIds /\ id < nextId /\ store[id] \in Job
      BY <2>3 DEF Poppable, IndexedDBTypeOK, JobIds
    <3> QED BY <1>t, <1>k, <2>1, <2>3, <3>1, StagesType, MoveKeepsForm DEF IndexedDBTypeOK
  <2> QED BY <1>7, <2>2, <2>3 DEF Select
<1>8. ASSUME NEW l \in Loops, SelectCompletes(l) PROVE WellFormed'
  <2>1. Selecting(l) /\ poll[l].id < nextId
    BY <1>8 DEF SelectCompletes, Selecting, KnownIds
  <2>2. poll[l].id \in JobIds /\ poll[l].job \in Job
    BY <2>1, PollParts
  <2> QED
    BY <1>t, <1>k, <1>8, <2>1, <2>2, StagesType, MoveKeepsForm DEF SelectCompletes, IndexedDBTypeOK
<1>9. ASSUME NEW l \in Loops, ReserveSelected(l) PROVE WellFormed'
  <2>1. Selecting(l) /\ poll[l].id < nextId
    BY <1>9 DEF ReserveSelected, Selecting, KnownIds
  <2>2. poll[l].id \in JobIds /\ Reserve(poll[l].job) \in Job
    BY <2>1, PollParts, JobOperationsType
  <2>3. DOMAIN store' \subseteq 1..(nextId - 1) /\ store' \in [DOMAIN store' -> Job]
    BY <1>9, <2>1, <2>2 DEF ReserveSelected, Put, IndexedDBTypeOK, JobIds
  <2>4. overwritten' \subseteq 1..(nextId - 1)
    BY <1>9, <1>k, <2>1, <2>2 DEF ReserveSelected, JobIds
  <2> QED
    BY <1>t, <1>9, <2>1, <2>2, <2>3, <2>4, StagesType, MoveKeepsForm
       DEF ReserveSelected, IndexedDBTypeOK
<1>10. ASSUME NEW l \in Loops, Remove(l) \/ Release(l) \/ Fail(l) PROVE WellFormed'
  <2>1. \A id \in DOMAIN store : PutBack(store[id], RetryDelay) \in Job /\ GiveUp(store[id]) \in Job
    BY JobOperationsType DEF IndexedDBTypeOK
  <2>2. DOMAIN store' \subseteq 1..(nextId - 1) /\ store' \in [DOMAIN store' -> Job]
    BY <1>10, <2>1 DEF Remove, Release, Fail, Mutate, Restrict, IndexedDBTypeOK
  <2>3. Moves(l, Idle) /\ UNCHANGED <<nextId, paused, overwritten>>
    BY <1>10 DEF Remove, Release, Fail
  <2> QED BY <1>t, <1>k, <2>2, <2>3, StagesType, MoveKeepsForm
<1>11. CASE UNCHANGED idb
  BY <1>0, <1>11 DEF idb, IndexedDBTypeOK
<1> QED
  BY <1>1, <1>2, <1>3, <1>4, <1>5, <1>6, <1>7, <1>8, <1>9, <1>10, <1>11
     DEF IndexedDBNext, Dispatch, Disturbance, PollStep, Proceed

(* Whatever the tabs do, wipes, reloads and a closed database in the       *)
(* middle of a pop included, the two stores hold well-formed records under *)
(* ids that push gave out, and every poll is in one of its stages.         *)
THEOREM IndexedDBTypeCorrect == IndexedDBSpec => []IndexedDBTypeOK
<1>1. IndexedDBInit => WellFormed
  BY WellFormedInit
<1>2. WellFormed /\ [IndexedDBNext]_idb => WellFormed'
  BY WellFormedStep
<1>3. WellFormed => IndexedDBTypeOK
  BY DEF WellFormed
<1> QED BY <1>1, <1>2, <1>3, PTL DEF IndexedDBSpec

-----------------------------------------------------------------------------
(* The counters, whatever the tabs do: even a record put back by a pop     *)
(* that raced a wipe is reserved.                                          *)
AllStoredProperly == \A id \in DOMAIN store : StoredProperly(store[id])

LEMMA StoredStep ==
  WellFormed /\ AllStoredProperly /\ [IndexedDBNext]_idb => AllStoredProperly'
<1> SUFFICES ASSUME WellFormed, AllStoredProperly, [IndexedDBNext]_idb
             PROVE  AllStoredProperly'
  OBVIOUS
<1> USE IndexedDBAssumption DEF WellFormed, IndexedDBTypeOK, AllStoredProperly
<1>0. ASSUME \A id \in DOMAIN store' : \/ StoredProperly(store'[id])
                                       \/ id \in DOMAIN store /\ store'[id] = store[id]
      PROVE  AllStoredProperly'
  BY <1>0
<1>1. ASSUME NEW options \in Options, Push(options) PROVE AllStoredProperly'
  <2> DEFINE job == CreateQueuedJob(options)
  <2>1. StoredProperly(job)
    BY CreatedJob DEF StoredProperly
  <2>2. store' = store \/ Put(nextId, job)
    BY <1>1 DEF Push
  <2> HIDE DEF job
  <2> QED BY <1>0, <2>1, <2>2 DEF Put
<1>2. ASSUME NEW queue \in Queues, Clear(queue) PROVE AllStoredProperly'
  BY <1>0, <1>2 DEF Clear, Restrict
<1>3. ASSUME NEW queue \in Queues, Pause(queue) \/ Resume(queue) PROVE AllStoredProperly'
  BY <1>3 DEF Pause, Resume, WriteMeta
<1>4. CASE Elapse
  <2>1. \A id \in DOMAIN store : StoredProperly(Later(store[id]))
    BY LaterWrites DEF StoredProperly
  <2> QED BY <1>0, <1>4, <2>1 DEF Elapse
<1>5. ASSUME store' = store PROVE AllStoredProperly'
  BY <1>5
<1>6. ASSUME NEW l \in Loops, ReserveSelected(l) PROVE AllStoredProperly'
  <2>1. poll[l].job \in Job
    BY <1>6, PollParts DEF ReserveSelected, Selecting
  <2>2. StoredProperly(Reserve(poll[l].job))
    BY <2>1, ReserveWrites DEF StoredProperly
  <2> QED BY <1>0, <1>6, <2>2 DEF ReserveSelected, Put
<1>7. ASSUME NEW l \in Loops, Remove(l) \/ Release(l) \/ Fail(l) PROVE AllStoredProperly'
  <2>1. \A id \in DOMAIN store : /\ StoredProperly(PutBack(store[id], RetryDelay))
                                 /\ StoredProperly(GiveUp(store[id]))
    BY PutBackWrites, GiveUpWrites DEF StoredProperly
  <2> QED BY <1>0, <1>7, <2>1 DEF Remove, Release, Fail, Mutate, Restrict
<1>8. CASE UNCHANGED idb
  BY <1>8 DEF idb
<1> QED
  BY <1>1, <1>2, <1>3, <1>4, <1>5, <1>6, <1>7, <1>8
     DEF IndexedDBNext, Dispatch, Disturbance, PollStep, Proceed,
         Reload, Close, AskPaused, Select, SelectCompletes

(* size() counts what waits or is reserved, whatever pendingSize() counts  *)
(* can be popped, and a drained queue has nothing to pop.                  *)
THEOREM IndexedDBCountsAgree == IndexedDBSpec => []CountsAgree
<1>1. IndexedDBInit => WellFormed /\ AllStoredProperly
  BY WellFormedInit DEF IndexedDBInit, AllStoredProperly
<1>2. WellFormed /\ AllStoredProperly /\ [IndexedDBNext]_idb
      => WellFormed' /\ AllStoredProperly'
  BY WellFormedStep, StoredStep
<1>3. WellFormed /\ AllStoredProperly => CountsAgree
  <2> SUFFICES ASSUME WellFormed, AllStoredProperly PROVE CountsAgree
    OBVIOUS
  <2>1. IsFiniteSet(DOMAIN store)
    <3>1. nextId - 1 \in Int
      BY IndexedDBAssumption DEF WellFormed, IndexedDBTypeOK
    <3> QED BY <3>1, FiniteIds DEF WellFormed, IndexedDBTypeOK
  <2> QED BY <2>1, CountersAgree DEF AllStoredProperly, CountsAgree, Size, SizeOf, Poppable
<1> QED BY <1>1, <1>2, <1>3, PTL DEF IndexedDBSpec

-----------------------------------------------------------------------------
(* Pops that may overlap.                                                  *)

(* A job that was selected was waiting when it was read, with no delay     *)
(* left to elapse.  What the store holds by now is another matter.         *)
Waited(job) == job.status \in {"pending", "delayed"} /\ job.dueIn = 0

(* A job that was handed out is reserved, and unless it was overwritten it *)
(* is in the store as its holder has it, or wiped.                         *)
HeldReserved(l) ==
  /\ poll[l].job.status = "reserved"
  /\ poll[l].job.dueIn = 0
  /\ poll[l].id \notin overwritten =>
       (poll[l].id \in DOMAIN store => store[poll[l].id] = poll[l].job)

OneHolder ==
  \A l, m \in Loops :
    Holding(l) /\ Holding(m) /\ poll[l].id = poll[m].id /\ poll[l].id \notin overwritten => l = m

PopInv ==
  /\ WellFormed
  /\ \A l \in Loops : Selecting(l) => Waited(poll[l].job)
  /\ \A l \in Loops : Holding(l) => HeldReserved(l)
  /\ OneHolder

(* A step that hands out no job keeps the invariant if it leaves the       *)
(* records of the jobs alone that are in somebody's hands, or wipes them.  *)
LEMMA NoNewHolder ==
  ASSUME PopInv, WellFormed', overwritten' = overwritten,
         \A l \in Loops :
           \/ poll'[l] = poll[l]
           \/ ~Holding(l)' /\ (Selecting(l)' => Waited(poll'[l].job)),
         \A l \in Loops :
           Holding(l) /\ poll'[l] = poll[l] /\ poll[l].id \notin overwritten =>
             (poll[l].id \in DOMAIN store' => /\ poll[l].id \in DOMAIN store
                                              /\ store'[poll[l].id] = store[poll[l].id])
  PROVE  PopInv'
<1>1. \A l \in Loops : Selecting(l)' => Waited(poll'[l].job)
  BY DEF PopInv, Selecting
<1>2. \A l \in Loops : Holding(l)' => Holding(l) /\ poll'[l] = poll[l]
  BY DEF Holding
<1>3. \A l \in Loops : Holding(l)' => HeldReserved(l)'
  BY <1>2 DEF PopInv, HeldReserved
<1>4. OneHolder'
  BY <1>2 DEF PopInv, OneHolder
<1> QED BY <1>1, <1>3, <1>4 DEF PopInv, Waited

LEMMA PopInvStep == PopInv /\ [IndexedDBNext]_idb => PopInv'
<1> SUFFICES ASSUME PopInv, [IndexedDBNext]_idb PROVE PopInv'
  OBVIOUS
<1>0. WellFormed /\ WellFormed' /\ IndexedDBTypeOK
  BY WellFormedStep DEF PopInv, WellFormed
<1>1. ASSUME poll' = poll, overwritten' = overwritten,
             \A l \in Loops : Holding(l) =>
               (poll[l].id \in DOMAIN store' => /\ poll[l].id \in DOMAIN store
                                                /\ store'[poll[l].id] = store[poll[l].id])
      PROVE  PopInv'
  BY <1>0, <1>1, NoNewHolder
<1>2. ASSUME store' = store, overwritten' = overwritten,
             \A l \in Loops :
               \/ poll'[l] = poll[l]
               \/ ~Holding(l)' /\ (Selecting(l)' => Waited(poll'[l].job))
      PROVE  PopInv'
  BY <1>0, <1>2, NoNewHolder
<1>3. ASSUME NEW l \in Loops, NEW state, Moves(l, state)
      PROVE  poll'[l] = state /\ \A m \in Loops \ {l} : poll'[m] = poll[m]
  BY <1>0, <1>3 DEF Moves, IndexedDBTypeOK
<1>4. ASSUME NEW options \in Options, Push(options) PROVE PopInv'
  <2>1. \A l \in Loops : Holding(l) => poll[l].id # nextId
    BY <1>0, PollParts DEF WellFormed, IndexedDBTypeOK, KnownIds, JobIds
  <2>2. PICK job : job = CreateQueuedJob(options)
    OBVIOUS
  <2>3. poll' = poll /\ overwritten' = overwritten /\ (store' = store \/ Put(nextId, job))
    BY <1>4, <2>2 DEF Push
  <2> QED BY <1>1, <2>1, <2>3 DEF Put
<1>5. ASSUME NEW queue \in Queues, Clear(queue) PROVE PopInv'
  BY <1>1, <1>5 DEF Clear, Restrict
<1>6. ASSUME NEW queue \in Queues, Pause(queue) \/ Resume(queue) PROVE PopInv'
  BY <1>1, <1>6 DEF Pause, Resume, WriteMeta
<1>7. CASE Elapse
  <2>1. poll' = poll /\ overwritten' = overwritten /\ DOMAIN store' = DOMAIN store
    BY <1>7 DEF Elapse
  <2>2. \A id \in DOMAIN store : store[id].dueIn = 0 => store'[id] = store[id]
    BY <1>0, <1>7, LaterWrites DEF Elapse, IndexedDBTypeOK
  <2>3. ASSUME NEW l \in Loops, Holding(l), poll[l].id \notin overwritten,
               poll[l].id \in DOMAIN store
        PROVE  store'[poll[l].id] = store[poll[l].id]
    BY <2>2, <2>3 DEF PopInv, HeldReserved
  <2> QED BY <1>0, <2>1, <2>3, NoNewHolder
<1>8. ASSUME NEW tab \in Tabs, Reload(tab) \/ Close(tab) PROVE PopInv'
  <2>1. store' = store /\ overwritten' = overwritten
    BY <1>8 DEF Reload, Close
  <2>2. \A l \in Loops : poll'[l] \in {poll[l], Idle, Hung}
    BY <1>8 DEF Reload, Close
  <2>3. \A l \in Loops : poll'[l] = poll[l] \/ (~Holding(l)' /\ ~Selecting(l)')
    BY <2>2, StagesType DEF Holding, Selecting
  <2> QED BY <1>2, <2>1, <2>3
<1>9. ASSUME NEW l \in Loops, AskPaused(l) PROVE PopInv'
  <2>1. store' = store /\ overwritten' = overwritten /\ Moves(l, Asked)
    BY <1>9 DEF AskPaused
  <2>2. ~Holding(l)' /\ ~Selecting(l)'
    BY <1>3, <2>1, StagesType DEF Holding, Selecting
  <2> QED BY <1>2, <1>3, <2>1, <2>2
<1>10. ASSUME NEW l \in Loops, Select(l) PROVE PopInv'
  <2>1. store' = store /\ overwritten' = overwritten
    BY <1>10 DEF Select
  <2>2. CASE Moves(l, Idle)
    <3>1. ~Holding(l)' /\ ~Selecting(l)'
      BY <1>3, <2>2, StagesType DEF Holding, Selecting
    <3> QED BY <1>2, <1>3, <2>1, <2>2, <3>1
  <2>3. ASSUME NEW id \in Poppable(QueueOf[l]), Moves(l, With("selecting", id, store[id]))
        PROVE  PopInv'
    <3>1. id \in JobIds /\ store[id] \in Job /\ Waited(store[id])
      BY <1>0, IndexedDBAssumption
         DEF Poppable, CanBePopped, IndexedDBTypeOK, JobIds, Waited
    <3>2. PICK state : state = With("selecting", id, store[id])
      OBVIOUS
    <3>3. poll'[l] = state /\ state.stage = "selecting" /\ state.job = store[id]
      BY <1>3, <2>3, <3>1, <3>2, StagesType
    <3>4. ~Holding(l)' /\ Waited(poll'[l].job)
      BY <3>1, <3>3 DEF Holding
    <3> QED BY <1>2, <1>3, <2>1, <2>3, <3>4
  <2> QED BY <1>10, <2>2, <2>3 DEF Select
<1>11. ASSUME NEW l \in Loops, SelectCompletes(l) PROVE PopInv'
  <2>1. store' = store /\ overwritten' = overwritten /\ Selecting(l)
    BY <1>11 DEF SelectCompletes, Selecting
  <2>2. poll[l].id \in JobIds /\ poll[l].job \in Job /\ Waited(poll[l].job)
    BY <1>0, <2>1, PollParts DEF PopInv
  <2>3. PICK state : state = With("selected", poll[l].id, poll[l].job)
    OBVIOUS
  <2>4. state.stage = "selected" /\ state.job = poll[l].job /\ Moves(l, state)
    BY <1>11, <2>2, <2>3, StagesType DEF SelectCompletes
  <2>5. poll'[l] = state
    BY <1>3, <2>4
  <2>6. ~Holding(l)' /\ Waited(poll'[l].job)
    BY <2>2, <2>4, <2>5 DEF Holding
  <2> QED BY <1>2, <1>3, <2>1, <2>4, <2>6
<1>12. ASSUME NEW l \in Loops, ReserveSelected(l) PROVE PopInv'
  <2>1. Selecting(l) /\ ~Holding(l)
    BY <1>12 DEF ReserveSelected, Selecting, Holding
  <2>2. PICK id \in JobIds : id = poll[l].id
    BY <1>0, <2>1, PollParts
  <2>3. PICK job \in Job : job = poll[l].job
    BY <1>0, <2>1, PollParts
  <2>4. PICK reserved \in Job : reserved = Reserve(job)
    BY JobOperationsType
  <2>5. Waited(job) /\ reserved.status = "reserved" /\ reserved.dueIn = 0
    BY <2>1, <2>3, <2>4, ReserveWrites DEF PopInv, Waited
  <2>6. Put(id, reserved) /\ Moves(l, With("holding", id, reserved))
    BY <1>12, <2>2, <2>3, <2>4 DEF ReserveSelected
  <2>7. PICK state : state = With("holding", id, reserved)
    OBVIOUS
  <2>8. state.stage = "holding" /\ state.id = id /\ state.job = reserved
    BY <2>7, StagesType
  <2>9. poll'[l] = state /\ \A m \in Loops \ {l} : poll'[m] = poll[m]
    BY <1>3, <2>6, <2>7
  <2>10. /\ overwritten \subseteq overwritten'
         /\ id \notin overwritten' => id \in DOMAIN store /\ store[id] = job
    BY <1>12, <2>2, <2>3 DEF ReserveSelected, Current
  <2>11. ASSUME NEW m \in Loops, Holding(m), poll[m].id = id, id \notin overwritten'
         PROVE  FALSE
    BY <2>5, <2>10, <2>11 DEF PopInv, HeldReserved, Waited
  <2>12. \A m \in Loops : Selecting(m)' => Waited(poll'[m].job)
    BY <2>8, <2>9 DEF PopInv, Selecting
  <2>13. \A m \in Loops : Holding(m)' => HeldReserved(m)'
    <3>1. ASSUME NEW m \in Loops \ {l}, Holding(m) PROVE HeldReserved(m)'
      BY <2>6, <2>9, <2>10, <2>11, <3>1 DEF PopInv, HeldReserved, Put
    <3>2. HeldReserved(l)'
      BY <2>5, <2>6, <2>8, <2>9 DEF HeldReserved, Put
    <3> QED BY <2>9, <3>1, <3>2 DEF Holding
  <2>14. OneHolder'
    BY <2>8, <2>9, <2>10, <2>11 DEF PopInv, OneHolder, Holding
  <2> QED BY <1>0, <2>12, <2>13, <2>14 DEF PopInv, Waited
<1>13. ASSUME NEW l \in Loops, Remove(l) \/ Release(l) \/ Fail(l) PROVE PopInv'
  <2>1. Holding(l) /\ Moves(l, Idle) /\ overwritten' = overwritten
    BY <1>13 DEF Remove, Release, Fail, Holding
  <2>2. ~Holding(l)' /\ ~Selecting(l)' /\ poll'[l] # poll[l]
    BY <1>3, <2>1, StagesType DEF Holding, Selecting
  <2>3. \A m \in Loops \ {l} : Holding(m) /\ poll[m].id \notin overwritten => poll[m].id # poll[l].id
    BY <2>1 DEF PopInv, OneHolder
  <2>4. \A id \in DOMAIN store' : id \in DOMAIN store /\ (id # poll[l].id => store'[id] = store[id])
    BY <1>13 DEF Remove, Release, Fail, Mutate, Restrict
  <2> QED BY <1>0, <1>3, <2>1, <2>2, <2>3, <2>4, NoNewHolder
<1>14. CASE UNCHANGED idb
  BY <1>1, <1>14 DEF idb
<1> QED
  BY <1>4, <1>5, <1>6, <1>7, <1>8, <1>9, <1>10, <1>11, <1>12, <1>13, <1>14
     DEF IndexedDBNext, Dispatch, Disturbance, PollStep, Proceed

LEMMA PopInvInit == IndexedDBInit => PopInv
<1> SUFFICES ASSUME IndexedDBInit PROVE PopInv
  OBVIOUS
<1>1. \A l \in Loops : poll[l] = Idle
  BY DEF IndexedDBInit
<1> QED BY <1>1, StagesType, WellFormedInit DEF PopInv, Selecting, Holding, OneHolder

(* Two loops hold one job, or a worker's idea of its job differs from the  *)
(* store's, only if a reservation was written over a record that had       *)
(* changed since it was selected.                                          *)
THEOREM IndexedDBSingleHolder == IndexedDBSpec => []SingleHolder
<1>1. PopInv => SingleHolder
  BY DEF PopInv, OneHolder, HeldReserved, Holding, SingleHolder
<1> QED BY <1>1, PopInvInit, PopInvStep, PTL DEF IndexedDBSpec

-----------------------------------------------------------------------------
(* What the in-memory driver would do with the jobs that were never        *)
(* overwritten.                                                            *)
Kept == Restrict(store, DOMAIN store \ overwritten)

M == INSTANCE MemoryConnectionProofs
       WITH jobs <- Kept, pausedQueues <- paused, Delays <- {RetryDelay}

LEMMA MemoryAssumptions == M!MemoryAssumption /\ M!OptionsAssumption
  BY IndexedDBAssumption, OptionsAssumption
     DEF M!MemoryAssumption, M!OptionsAssumption, M!OptionRecord, OptionRecord

LEMMA SameOperations ==
  /\ \A options : M!CreateQueuedJob(options) = CreateQueuedJob(options)
  /\ \A job : /\ M!Reserve(job) = Reserve(job) /\ M!GiveUp(job) = GiveUp(job)
              /\ M!Later(job) = Later(job) /\ M!InFlight(job) = InFlight(job)
              /\ \A delayMs : M!PutBack(job, delayMs) = PutBack(job, delayMs)
  /\ M!Job = Job /\ M!JobIds = JobIds
  BY DEF M!CreateQueuedJob, CreateQueuedJob, M!DefaultBackoffMs, DefaultBackoffMs,
         M!Reserve, Reserve, M!GiveUp, GiveUp, M!Later, Later, M!InFlight, InFlight,
         M!PutBack, PutBack, M!Job, Job, M!JobStatus, JobStatus, M!JobIds, JobIds

LEMMA KeptParts ==
  /\ DOMAIN Kept = DOMAIN store \ overwritten
  /\ \A id \in DOMAIN Kept : Kept[id] = store[id]
  BY DEF Kept, Restrict

(* The in-memory driver does the same with Kept, except that a stale       *)
(* reservation takes a job out of it.                                      *)
Loses == nextId' = nextId /\ \E kept \in SUBSET DOMAIN Kept : Kept' = [id \in kept |-> Kept[id]]

LEMMA StepIsStoreStep ==
  PopInv /\ [IndexedDBNext]_idb => [M!StoreNext]_(M!memory) \/ Loses
<1> SUFFICES ASSUME PopInv, [IndexedDBNext]_idb
             PROVE  M!StoreNext \/ UNCHANGED M!memory \/ Loses
  OBVIOUS
<1>0. WellFormed /\ IndexedDBTypeOK
  BY DEF PopInv, WellFormed
<1>1. ASSUME NEW options \in Options, Push(options)
      PROVE  M!Push(options) \/ UNCHANGED M!memory
  <2>1. PICK job : job = CreateQueuedJob(options)
    OBVIOUS
  <2>2. nextId \notin overwritten /\ nextId <= MaxJobs /\ overwritten' = overwritten /\ paused' = paused
    BY <1>0, <1>1, IndexedDBAssumption DEF Push, WellFormed, KnownIds, IndexedDBTypeOK
  <2>3. CASE store' = store /\ nextId' = nextId
    BY <2>2, <2>3 DEF Kept, M!memory
  <2>4. CASE Duplicates(job.uniqueId) = {} /\ Put(nextId, job) /\ nextId' = nextId + 1
    <3>1. M!Duplicates(job.uniqueId) = {}
      BY <2>4, KeptParts, SameOperations DEF Duplicates, M!Duplicates
    <3>2. Kept' = [id \in DOMAIN Kept \cup {nextId} |-> IF id = nextId THEN job ELSE Kept[id]]
      BY <2>2, <2>4 DEF Put, Kept, Restrict
    <3> QED BY <2>1, <2>2, <2>4, <3>1, <3>2, SameOperations DEF M!Push
  <2> QED BY <1>1, <2>1, <2>3, <2>4 DEF Push
<1>2. ASSUME NEW queue \in Queues, Clear(queue) PROVE M!Clear(queue)
  <2>1. Kept' = Restrict(Kept, {id \in DOMAIN Kept : Kept[id].queue # queue})
    BY <1>2 DEF Clear, Kept, Restrict
  <2> QED BY <1>2, <2>1 DEF Clear, M!Clear, Restrict, M!Restrict
<1>3. ASSUME NEW queue \in Queues, Pause(queue) \/ Resume(queue)
      PROVE  M!Pause(queue) \/ M!Resume(queue)
  BY <1>3 DEF Pause, Resume, WriteMeta, M!Pause, M!Resume, Kept
<1>4. ASSUME Elapse PROVE M!Elapse \/ UNCHANGED M!memory
  <2>1. Kept' = [id \in DOMAIN Kept |-> Later(Kept[id])] /\ UNCHANGED <<nextId, paused>>
    BY <1>4 DEF Elapse, Kept, Restrict
  <2>2. CASE \E id \in DOMAIN Kept : Kept[id].dueIn > 0
    BY <2>1, <2>2, SameOperations DEF M!Elapse
  <2>3. CASE \A id \in DOMAIN Kept : ~(Kept[id].dueIn > 0)
    <3>1. \A id \in DOMAIN Kept : Kept[id] \in Job /\ Kept[id].dueIn = 0
      BY <1>0, <2>3, KeptParts DEF IndexedDBTypeOK, Job
    <3>2. \A id \in DOMAIN Kept : Later(Kept[id]) = Kept[id]
      BY <3>1, LaterWrites
    <3>3. Kept' = Kept
      BY <2>1, <3>2 DEF Kept, Restrict
    <3> QED BY <2>1, <3>3 DEF M!memory
  <2> QED BY <2>2, <2>3
<1>5. ASSUME UNCHANGED <<store, nextId, paused, overwritten>> PROVE UNCHANGED M!memory
  BY <1>5 DEF M!memory, Kept
<1>6. ASSUME NEW l \in Loops, ReserveSelected(l)
      PROVE  (\E id \in M!JobIds : M!Take(id)) \/ UNCHANGED M!memory \/ Loses
  <2>1. Selecting(l) /\ Waited(poll[l].job)
    BY <1>6 DEF ReserveSelected, Selecting, PopInv
  <2>2. PICK id \in JobIds : id = poll[l].id
    BY <1>0, <2>1, PollParts
  <2>3. PICK job \in Job : job = poll[l].job
    BY <1>0, <2>1, PollParts
  <2>4. /\ Put(id, Reserve(job)) /\ UNCHANGED <<nextId, paused>>
        /\ overwritten' = IF Current(id, job) THEN overwritten ELSE overwritten \cup {id}
    BY <1>6, <2>2, <2>3 DEF ReserveSelected
  <2>5. CASE Current(id, job) /\ id \notin overwritten
    <3>1. id \in DOMAIN Kept /\ Kept[id] = job /\ Kept[id].status \in {"pending", "delayed"}
      BY <2>1, <2>3, <2>5, KeptParts DEF Current, Waited
    <3>2. Kept' = [Kept EXCEPT ![id] = Reserve(Kept[id])]
      BY <2>4, <2>5, <3>1 DEF Put, Kept, Restrict, Current
    <3>3. M!Take(id)
      BY <2>4, <3>1, <3>2, SameOperations DEF M!Take
    <3> QED BY <3>3, SameOperations
  <2>6. CASE Current(id, job) /\ id \in overwritten
    <3>1. Kept' = Kept
      BY <2>4, <2>6 DEF Put, Kept, Restrict, Current
    <3> QED BY <2>4, <3>1 DEF M!memory
  <2>7. CASE ~Current(id, job)
    <3>1. Kept' = [other \in DOMAIN Kept \ {id} |-> Kept[other]]
      BY <2>4, <2>7 DEF Put, Kept, Restrict
    <3> QED BY <2>4, <3>1 DEF Loses
  <2> QED BY <2>5, <2>6, <2>7
<1>7. ASSUME NEW l \in Loops, Remove(l) \/ Release(l) \/ Fail(l)
      PROVE  (\E id \in M!JobIds : M!Settle(id)) \/ UNCHANGED M!memory
  <2>1. Holding(l) /\ HeldReserved(l)
    BY <1>7 DEF Remove, Release, Fail, Holding, PopInv
  <2>2. PICK id \in JobIds : id = poll[l].id
    BY <1>0, <2>1, PollParts
  <2>3. id \in DOMAIN Kept => Kept[id].status = "reserved"
    BY <2>1, <2>2, KeptParts DEF HeldReserved
  <2>4. /\ UNCHANGED <<nextId, paused, overwritten>>
        /\ \/ store' = Restrict(store, DOMAIN store \ {id})
           \/ Mutate(id, PutBack(store[id], RetryDelay))
           \/ Mutate(id, GiveUp(store[id]))
    BY <1>7, <2>2 DEF Remove, Release, Fail
  <2>5. CASE id \in DOMAIN Kept
    <3>1. \/ Kept' = Restrict(Kept, DOMAIN Kept \ {id})
          \/ Kept' = [Kept EXCEPT ![id] = PutBack(Kept[id], RetryDelay)]
          \/ Kept' = [Kept EXCEPT ![id] = GiveUp(Kept[id])]
      BY <2>4, <2>5 DEF Kept, Restrict, Mutate
    <3>2. M!Remove(id) \/ M!Release(id, RetryDelay) \/ M!Fail(id)
      BY <2>4, <2>5, <3>1, SameOperations
         DEF Restrict, M!Remove, M!Release, M!Fail, M!Restrict
    <3> QED BY <2>2, <2>3, <3>2, SameOperations DEF M!Settle
  <2>6. CASE id \notin DOMAIN Kept
    <3>1. Kept' = Kept
      BY <2>4, <2>6 DEF Kept, Restrict, Mutate
    <3> QED BY <2>4, <3>1 DEF M!memory
  <2> QED BY <2>5, <2>6
<1>8. CASE UNCHANGED idb
  BY <1>5, <1>8 DEF idb
<1> QED
  BY <1>1, <1>2, <1>3, <1>4, <1>5, <1>6, <1>7, <1>8
     DEF IndexedDBNext, Dispatch, Disturbance, PollStep, Proceed, M!StoreNext, M!Dispatch,
         Reload, Close, AskPaused, Select, SelectCompletes

LEMMA SameInvariants ==
  /\ WellFormed => M!MemoryTypeOK
  /\ UniqueInFlight <=> M!UniqueInFlight
<1>1. WellFormed => M!MemoryTypeOK
  BY SameOperations, KeptParts DEF WellFormed, IndexedDBTypeOK, M!MemoryTypeOK, Kept, Restrict
<1>2. UniqueInFlight <=> M!UniqueInFlight
  BY SameOperations, KeptParts DEF UniqueInFlight, M!UniqueInFlight
<1> QED BY <1>1, <1>2

LEMMA SamePhases ==
  \A id : PhaseOf(id) = M!PhaseOf(id) /\ TriesOf(id) = M!TriesOf(id)
  BY KeptParts DEF PhaseOf, M!PhaseOf, TriesOf, M!TriesOf

LEMMA SameLifeInit == M!Life!LifeInit => Life!LifeInit
  BY SamePhases DEF Life!LifeInit, M!Life!LifeInit, JobIds, M!JobIds

LEMMA SameLifeNext == [M!Life!LifeNext]_(M!Life!life) => [Life!LifeNext]_(Life!life)
<1>1. /\ [id \in JobIds |-> PhaseOf(id)] = [id \in M!JobIds |-> M!PhaseOf(id)]
      /\ [id \in JobIds |-> TriesOf(id)] = [id \in M!JobIds |-> M!TriesOf(id)]
  BY SamePhases DEF JobIds, M!JobIds
<1>2. \A id : PhaseOf(id)' = M!PhaseOf(id)' /\ TriesOf(id)' = M!TriesOf(id)'
  <2>1. DOMAIN Kept' = DOMAIN store' \ overwritten' /\ \A id \in DOMAIN Kept' : Kept'[id] = store'[id]
    BY DEF Kept, Restrict
  <2> QED BY <2>1 DEF PhaseOf, M!PhaseOf, TriesOf, M!TriesOf
<1>3. /\ [id \in JobIds |-> PhaseOf(id)]' = [id \in M!JobIds |-> M!PhaseOf(id)]'
      /\ [id \in JobIds |-> TriesOf(id)]' = [id \in M!JobIds |-> M!TriesOf(id)]'
  BY <1>2 DEF JobIds, M!JobIds
<1>4. ASSUME NEW id, M!Life!Arrive(id) PROVE Life!Arrive(id)
  BY <1>1, <1>3, <1>4, Zenon DEF Life!Arrive, M!Life!Arrive
<1>5. ASSUME NEW id, M!Life!Take(id) PROVE Life!Take(id)
  BY <1>1, <1>3, <1>5, Zenon DEF Life!Take, M!Life!Take
<1>6. ASSUME NEW id, M!Life!GiveBack(id) PROVE Life!GiveBack(id)
  BY <1>1, <1>3, <1>6, Zenon DEF Life!GiveBack, M!Life!GiveBack
<1>7. ASSUME NEW id, M!Life!Bury(id) PROVE Life!Bury(id)
  BY <1>1, <1>3, <1>7, Zenon DEF Life!Bury, M!Life!Bury
<1>8. ASSUME NEW ids, M!Life!Forget(ids) PROVE Life!Forget(ids)
  BY <1>1, <1>3, <1>8, Zenon DEF Life!Forget, M!Life!Forget
<1>9. ASSUME UNCHANGED M!Life!life PROVE UNCHANGED Life!life
  BY <1>1, <1>3, <1>9, Zenon DEF Life!life, M!Life!life
<1> QED BY <1>4, <1>5, <1>6, <1>7, <1>8, <1>9 DEF Life!LifeNext, M!Life!LifeNext

(* Hence what the in-memory driver's steps preserve, every step preserves. *)
LEMMA PromisesStep ==
  PopInv /\ UniqueInFlight /\ [IndexedDBNext]_idb
  => UniqueInFlight' /\ [Life!LifeNext]_(Life!life)
<1> SUFFICES ASSUME PopInv, UniqueInFlight, [IndexedDBNext]_idb
             PROVE  UniqueInFlight' /\ [Life!LifeNext]_(Life!life)
  OBVIOUS
<1>1. M!MemoryTypeOK /\ M!UniqueInFlight
  BY SameInvariants DEF PopInv
<1>2. CASE [M!StoreNext]_(M!memory)
  <2>1. M!UniqueInFlight'
    BY <1>1, <1>2, MemoryAssumptions, M!UniqueStep
  <2>2. [M!Life!LifeNext]_(M!Life!life)
    BY <1>1, <1>2, MemoryAssumptions, M!LifeStep
  <2>3. (UniqueInFlight <=> M!UniqueInFlight)'
    BY SameInvariants, PTL
  <2> QED BY <2>1, <2>2, <2>3, SameLifeNext
<1>3. CASE Loses
  <2>1. PICK kept \in SUBSET DOMAIN Kept : Kept' = [id \in kept |-> Kept[id]]
    BY <1>3 DEF Loses
  <2>2. M!UniqueInFlight'
    BY <1>1, <2>1 DEF M!UniqueInFlight
  <2>3. M!Life!Forget(DOMAIN Kept \ kept) /\ DOMAIN Kept \ kept \in SUBSET M!JobIds
    BY <1>1, <1>3, <2>1, MemoryAssumptions, M!JobsDisappear DEF Loses
  <2>4. M!Life!LifeNext
    BY <2>3 DEF M!Life!LifeNext, M!JobIds
  <2>5. (UniqueInFlight <=> M!UniqueInFlight)'
    BY SameInvariants, PTL
  <2> QED BY <2>2, <2>4, <2>5, SameLifeNext
<1> QED BY <1>2, <1>3, StepIsStoreStep

LEMMA PromisesInit == IndexedDBInit => UniqueInFlight /\ Life!LifeInit
<1> SUFFICES ASSUME IndexedDBInit PROVE UniqueInFlight /\ Life!LifeInit
  OBVIOUS
<1>1. UniqueInFlight
  BY DEF IndexedDBInit, UniqueInFlight
<1>2. Kept = [id \in {} |-> Undefined]
  BY DEF IndexedDBInit, Kept, Restrict
<1>3. M!MemoryInit
  BY <1>2 DEF IndexedDBInit, M!MemoryInit
<1>4. Life!LifeInit
  BY <1>3, MemoryAssumptions, M!LifeInitial, SameLifeInit
<1> QED BY <1>1, <1>4

(* uniqueFor holds among all jobs over which no stale reservation was      *)
(* written, however many loops, tabs and wipes there are.                  *)
THEOREM IndexedDBUnique == IndexedDBSpec => []UniqueInFlight
<1>1. IndexedDBInit => PopInv /\ UniqueInFlight
  BY PopInvInit, PromisesInit
<1>2. PopInv /\ UniqueInFlight /\ [IndexedDBNext]_idb => PopInv' /\ UniqueInFlight'
  BY PopInvStep, PromisesStep
<1> QED BY <1>1, <1>2, PTL DEF IndexedDBSpec

(* Each of those jobs waits, is held and is finished, given back or buried *)
(* by its holder, each attempt at the price of one try, although a pop     *)
(* takes two transactions and others run between them.                     *)
THEOREM IndexedDBImplementsJobLifecycle == IndexedDBSpec => ImplementsJobLifecycle
<1>1. IndexedDBInit => PopInv /\ UniqueInFlight /\ Life!LifeInit
  BY PopInvInit, PromisesInit
<1>2. PopInv /\ UniqueInFlight /\ [IndexedDBNext]_idb
      => PopInv' /\ UniqueInFlight' /\ [Life!LifeNext]_(Life!life)
  BY PopInvStep, PromisesStep
<1> QED BY <1>1, <1>2, PTL DEF IndexedDBSpec, ImplementsJobLifecycle, Life!LifeSpec

-----------------------------------------------------------------------------
(* The cross-tab driver: a follower's pop answers null before it reads     *)
(* anything; the rest is the IndexedDB driver, whose theorems carry over.  *)
LEMMA BroadcastStepIsIndexedDBStep == [BroadcastNext]_bc => [IndexedDBNext]_idb
  BY DEF BroadcastNext, bc, idb, Elect, LoopStep, TabIsReloaded, TabIsClosed, LeaderAsks,
         IndexedDBNext, PollStep, Disturbance

(* Whoever is in the middle of a pop runs in the leader's tab, or did and  *)
(* has been deposed since.                                                 *)
LeaderPops ==
  coordinated => \A l \in Loops : Popping(l) => tabOf[l] = leader \/ l \in deposed

LEMMA LeaderStep == IndexedDBTypeOK /\ LeaderPops /\ [BroadcastNext]_bc => LeaderPops'
<1> SUFFICES ASSUME IndexedDBTypeOK, LeaderPops, [BroadcastNext]_bc PROVE LeaderPops'
  OBVIOUS
<1>0. tabOf' = tabOf
  BY DEF BroadcastNext, bc, idb
<1>1. ASSUME NEW tab \in Tabs, Elect(tab) PROVE LeaderPops'
  BY <1>0, <1>1 DEF Elect, Handover, LeaderPops, Popping, idb
<1>2. ASSUME NEW tab \in Tabs, TabIsReloaded(tab) PROVE LeaderPops'
  <2>1. \A l \in Loops : poll'[l] = IF tabOf[l] = tab THEN Idle ELSE poll[l]
    BY <1>2 DEF TabIsReloaded, Reload
  <2>2. \A l \in Loops : Popping(l)' => Popping(l) /\ tabOf[l] # tab
    BY <2>1, StagesType DEF Popping
  <2>3. /\ leader' = IF leader = tab THEN NoLeader ELSE leader
        /\ deposed' = {l \in deposed : Popping(l)'} /\ coordinated' = coordinated
    BY <1>2 DEF TabIsReloaded
  <2> QED BY <1>0, <2>2, <2>3 DEF LeaderPops
<1>3. ASSUME NEW tab \in Tabs, TabIsClosed(tab) PROVE LeaderPops'
  <2>1. \A l \in Loops : poll'[l] \in {poll[l], Hung}
    BY <1>3 DEF TabIsClosed, Close
  <2>2. \A l \in Loops : Popping(l)' => Popping(l)
    BY <2>1, StagesType DEF Popping
  <2>3. deposed' = {l \in deposed : Popping(l)'} /\ coordinated' = coordinated /\ leader' = leader
    BY <1>3 DEF TabIsClosed
  <2> QED BY <1>0, <2>2, <2>3 DEF LeaderPops
<1>4. ASSUME NEW l \in Loops, LoopStep(l) PROVE LeaderPops'
  <2>1. deposed' = {m \in deposed : Popping(m)'} /\ coordinated' = coordinated /\ leader' = leader
    BY <1>4 DEF LoopStep
  <2>2. PICK state : Moves(l, state)
    BY <1>4 DEF LoopStep, LeaderAsks, AskPaused, Proceed, Select, SelectCompletes,
                ReserveSelected, Remove, Release, Fail
  <2>3. \A m \in Loops \ {l} : Popping(m)' => Popping(m)
    BY <2>2 DEF Moves, Popping, IndexedDBTypeOK
  <2>4. CASE LeaderAsks(l)
    BY <1>0, <2>1, <2>3, <2>4 DEF LeaderAsks, LeaderPops, IsLeader
  <2>5. CASE Select(l) \/ SelectCompletes(l) \/ ReserveSelected(l)
    <3>1. Popping(l)
      BY <2>5, StagesType DEF Select, SelectCompletes, ReserveSelected, Popping
    <3> QED BY <1>0, <2>1, <2>3, <3>1 DEF LeaderPops
  <2>6. CASE Remove(l) \/ Release(l) \/ Fail(l)
    <3>1. Moves(l, Idle)
      BY <2>6 DEF Remove, Release, Fail
    <3>2. ~Popping(l)'
      BY <3>1, StagesType DEF Moves, Popping, IndexedDBTypeOK
    <3> QED BY <1>0, <2>1, <2>3, <3>2 DEF LeaderPops
  <2> QED BY <1>4, <2>4, <2>5, <2>6 DEF LoopStep, Proceed
<1>5. ASSUME poll' = poll, UNCHANGED election PROVE LeaderPops'
  BY <1>0, <1>5 DEF LeaderPops, election, Popping
<1>6. ASSUME Dispatch \/ Elapse PROVE poll' = poll
  BY <1>6 DEF Dispatch, Push, Clear, Pause, Resume, WriteMeta, Elapse
<1>7. CASE UNCHANGED bc
  BY <1>5, <1>7 DEF bc, idb
<1> QED BY <1>1, <1>2, <1>3, <1>4, <1>5, <1>6, <1>7 DEF BroadcastNext

(* With a coordinator, two tabs are in the middle of a pop at once only if *)
(* one of them was deposed during its own, for any number of tabs and of   *)
(* loops in each of them.                                                  *)
THEOREM LeaderPopsAloneAlways == BroadcastSpec => []LeaderPopsAlone
<1>1. BroadcastInit => WellFormed /\ LeaderPops
  <2> SUFFICES ASSUME BroadcastInit PROVE WellFormed /\ LeaderPops
    OBVIOUS
  <2>1. IndexedDBInit
    BY DEF BroadcastInit
  <2>2. \A l \in Loops : ~Popping(l)
    BY <2>1, StagesType DEF IndexedDBInit, Popping
  <2> QED BY <2>1, <2>2, WellFormedInit DEF LeaderPops
<1>2. WellFormed /\ LeaderPops /\ [BroadcastNext]_bc => WellFormed' /\ LeaderPops'
  BY BroadcastStepIsIndexedDBStep, WellFormedStep, LeaderStep DEF WellFormed
<1>3. LeaderPops => LeaderPopsAlone
  BY DEF LeaderPops, LeaderPopsAlone
<1> QED BY <1>1, <1>2, <1>3, PTL DEF BroadcastSpec
=============================================================================
