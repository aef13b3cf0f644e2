----------------------------- MODULE WorkerPool -----------------------------
(***************************************************************************)
(* The workers of services/worker.service.ts, polling the queues of one    *)
(* connection (MemoryConnection).                                          *)
(*                                                                         *)
(* A worker is meant to be one polling loop: a timer fires, tick() pops a  *)
(* job, runs the processor against the job's timeout, settles the job with *)
(* the driver and schedules the next timer.  What the code keeps of that   *)
(* are two fields, `running` and `pendingTick`; a loop whose tick is under *)
(* way is visible in neither.  The model therefore gives a worker several  *)
(* slots for loops (MaxLoops) and lets the code decide how many it fills.  *)
(*                                                                         *)
(* A tick awaits three times: the pop, the processor, and the settlement.  *)
(* The driver's effect takes place at the call, so a loop has one stage    *)
(* between two effects: "armed" (its timer is set), "processing" (it       *)
(* popped a job whose processor runs), "ending" (it awaits the answer      *)
(* after which it reaches scheduleNext).  Timers fire at any time.         *)
(*                                                                         *)
(* A processor that lost the race against its timeout is not interrupted:  *)
(* `executing` keeps it until it ends by itself.                           *)
(***************************************************************************)
EXTENDS MemoryConnection

CONSTANTS
  Workers,        \* the workers created at bootstrap
  QueueOf,        \* config.queue of each of them
  FailOnTimeout,  \* config.options.failOnTimeout
  MaxBackoff,     \* config.options.maxBackoffMs
  Faults,         \* the driver's methods whose promise may reject without effect
  MaxLoops        \* bound: how many loops of one worker are followed at once

ASSUME WorkerAssumption ==
  /\ QueueOf \in [Workers -> Queues]
  /\ FailOnTimeout \in BOOLEAN
  /\ MaxBackoff \in Nat /\ MaxLoops \in Nat \ {0}
  /\ 0..MaxBackoff \subseteq Delays
  /\ Faults \subseteq {"pop", "remove", "release", "fail"}

VARIABLES
  running,      \* this.running of each worker
  pendingTick,  \* this.pendingTick: the loop whose timer it refers to, 0 for null
  loop,         \* the polling loops
  executing,    \* the executions of processors under way: <<job id, attempt>>
  reported,     \* the last event emitted about each job: JOB_PROCESSED, ...
  unsettled     \* history: the jobs whose release or fail the driver rejected

workers == <<running, pendingTick, loop, executing, reported, unsettled>>
pool    == <<memory, workers>>

Slots == 1..MaxLoops
Loops == Workers \X Slots

Idle(stage) == [stage |-> stage, id |-> 0, job |-> Undefined]
Busy(id, job) == [stage |-> "processing", id |-> id, job |-> job]

Events == {"none", "processed", "released", "failed"}

WorkerTypeOK ==
  /\ running \in [Workers -> BOOLEAN]
  /\ pendingTick \in [Workers -> {0} \cup Slots]
  /\ loop \in [Loops -> {Idle("free"), Idle("armed"), Idle("ending")}
                         \cup [stage: {"processing"}, id: JobIds, job: Job]]
  /\ executing \subseteq JobIds \X Nat
  /\ reported \in [JobIds -> Events]
  /\ unsettled \subseteq JobIds

WorkersInit ==
  /\ running = [w \in Workers |-> FALSE]
  /\ pendingTick = [w \in Workers |-> 0]
  /\ loop = [l \in Loops |-> Idle("free")]
  /\ executing = {}
  /\ reported = [id \in JobIds |-> "none"]
  /\ unsettled = {}

-----------------------------------------------------------------------------
SetTimer(l) ==
  /\ loop' = [loop EXCEPT ![l] = Idle("armed")]
  /\ pendingTick' = [pendingTick EXCEPT ![l[1]] = l[2]]

Start(w) ==
  /\ ~running[w]
  /\ running' = [running EXCEPT ![w] = TRUE]
  /\ \E s \in Slots : /\ loop[<<w, s>>] = Idle("free")
                      /\ \A t \in 1..(s - 1) : loop[<<w, t>>] # Idle("free")
                      /\ SetTimer(<<w, s>>)
  /\ UNCHANGED <<memory, executing, reported, unsettled>>

\* Mutant of Stop: it drops the worker's loops, whatever they are doing.
StopAbandons(w) ==
  /\ running[w]
  /\ running' = [running EXCEPT ![w] = FALSE]
  /\ pendingTick' = [pendingTick EXCEPT ![w] = 0]
  /\ loop' = [l \in Loops |-> IF l[1] = w THEN Idle("free") ELSE loop[l]]
  /\ UNCHANGED <<memory, executing, reported, unsettled>>

(* clearTimeout does nothing to a timer that has fired.                    *)
Stop(w) ==
  /\ running[w]
  /\ running' = [running EXCEPT ![w] = FALSE]
  /\ pendingTick' = [pendingTick EXCEPT ![w] = 0]
  /\ loop' = [l \in Loops |-> IF l = <<w, pendingTick[w]>> /\ loop[l] = Idle("armed")
                                THEN Idle("free") ELSE loop[l]]
  /\ UNCHANGED <<memory, executing, reported, unsettled>>

\* Mutant of ScheduleNext: it does not look at running.
ScheduleAlways(l) ==
  /\ loop[l] = Idle("ending")
  /\ SetTimer(l)
  /\ UNCHANGED <<memory, running, executing, reported, unsettled>>

(* The end of a tick, regular or by an error: the next timer is set if the *)
(* worker is running now, otherwise the loop is over.                      *)
ScheduleNext(l) ==
  /\ loop[l] = Idle("ending")
  /\ IF running[l[1]] THEN SetTimer(l)
                      ELSE /\ loop' = [loop EXCEPT ![l] = Idle("free")]
                           /\ UNCHANGED pendingTick
  /\ UNCHANGED <<memory, running, executing, reported, unsettled>>

-----------------------------------------------------------------------------
(* A timer fires and tick() calls pop, which returns a job, or null, or    *)
(* rejects.  The timer's callback does not look at running.                *)
TickPops(l) ==
  /\ loop[l] = Idle("armed")
  /\ \E id \in JobIds :
       /\ Pop(QueueOf[l[1]], id)
       /\ loop' = [loop EXCEPT ![l] = Busy(id, jobs'[id])]
       /\ executing' = executing \cup {<<id, jobs'[id].attempts>>}
  /\ UNCHANGED <<running, pendingTick, reported, unsettled>>

\* Mutant of TickEndsWithoutJob: nothing catches the rejection of pop.
RejectedPopKillsLoop(l) ==
  /\ loop[l] = Idle("armed")
  /\ \/ PopNothing(QueueOf[l[1]]) /\ loop' = [loop EXCEPT ![l] = Idle("ending")]
     \/ /\ "pop" \in Faults /\ UNCHANGED memory
        /\ loop' = [loop EXCEPT ![l] = Idle("free")]
  /\ UNCHANGED <<running, pendingTick, executing, reported, unsettled>>

TickEndsWithoutJob(l) ==
  /\ loop[l] = Idle("armed")
  /\ \/ PopNothing(QueueOf[l[1]])
     \/ "pop" \in Faults /\ UNCHANGED memory
  /\ loop' = [loop EXCEPT ![l] = Idle("ending")]
  /\ UNCHANGED <<running, pendingTick, executing, reported, unsettled>>

-----------------------------------------------------------------------------
ExecutionOf(l) == <<loop[l].id, loop[l].job.attempts>>

\* Mutant of Report: the job's status is emitted in place of the event.
ReportStatus(id, event) ==
  reported' = [reported EXCEPT ![id] = IF event = "processed" THEN "completed" ELSE event]

Report(id, event) == reported' = [reported EXCEPT ![id] = event]

(* A settlement the driver carries out, and one it rejects, which leaves   *)
(* everything as it was and ends the tick.                                 *)
Settles(id, event) == Report(id, event) /\ UNCHANGED unsettled
Rejects(operation, id) ==
  /\ operation \in Faults
  /\ unsettled' = unsettled \cup {id}
  /\ UNCHANGED <<memory, reported>>

\* Mutants of ShouldFailNow: one attempt too many; failOnTimeout ignored.
FailsOneLate(job, timedOut) ==
  (timedOut /\ FailOnTimeout) \/ job.maxAttempts - job.attempts < 0
FailsWhenExhausted(job, timedOut) ==
  job.maxAttempts - job.attempts <= 0

ShouldFailNow(job, timedOut) ==
  (timedOut /\ FailOnTimeout) \/ job.maxAttempts - job.attempts <= 0

HandleFailure(id, job, timedOut) ==
  IF ShouldFailNow(job, timedOut)
    THEN \/ Fail(id) /\ Settles(id, "failed")
         \/ Rejects("fail", id)
    ELSE \/ /\ Release(id, ComputeBackoff(job.attempts + 1, job.backoffMs, MaxBackoff))
            /\ Settles(id, "released")
         \/ Rejects("release", id)

\* Mutant of ProcessorResolves: the job is reported but not removed.
ResolvesWithoutRemove(l) ==
  /\ loop[l].stage = "processing"
  /\ Settles(loop[l].id, "processed")
  /\ executing' = executing \ {ExecutionOf(l)}
  /\ loop' = [loop EXCEPT ![l] = Idle("ending")]
  /\ UNCHANGED <<memory, running, pendingTick>>

(* The processor resolves in time; a remove that rejects then is handled   *)
(* like a processor that did.                                              *)
ProcessorResolves(l) ==
  /\ loop[l].stage = "processing"
  /\ \/ Remove(loop[l].id) /\ Settles(loop[l].id, "processed")
     \/ "remove" \in Faults /\ HandleFailure(loop[l].id, loop[l].job, FALSE)
  /\ executing' = executing \ {ExecutionOf(l)}
  /\ loop' = [loop EXCEPT ![l] = Idle("ending")]
  /\ UNCHANGED <<running, pendingTick>>

ProcessorRejects(l) ==
  /\ loop[l].stage = "processing"
  /\ HandleFailure(loop[l].id, loop[l].job, FALSE)
  /\ executing' = executing \ {ExecutionOf(l)}
  /\ loop' = [loop EXCEPT ![l] = Idle("ending")]
  /\ UNCHANGED <<running, pendingTick>>

(* The timeout wins the race; the processor goes on.                       *)
ProcessorTimesOut(l) ==
  /\ loop[l].stage = "processing"
  /\ HandleFailure(loop[l].id, loop[l].job, TRUE)
  /\ loop' = [loop EXCEPT ![l] = Idle("ending")]
  /\ UNCHANGED <<running, pendingTick, executing>>

HeldBy(l, execution) == loop[l].stage = "processing" /\ ExecutionOf(l) = execution

\* Mutant of LateCompletion: a late success still takes the job off the queue.
LateCompletionRemoves(execution) ==
  /\ \A l \in Loops : ~HeldBy(l, execution)
  /\ executing' = executing \ {execution}
  /\ Remove(execution[1])
  /\ UNCHANGED <<running, pendingTick, loop, reported, unsettled>>

(* A processor that timed out ends; nobody listens to its promise.         *)
LateCompletion(execution) ==
  /\ \A l \in Loops : ~HeldBy(l, execution)
  /\ executing' = executing \ {execution}
  /\ UNCHANGED <<memory, running, pendingTick, loop, reported, unsettled>>

-----------------------------------------------------------------------------
LoopStep(l) ==
  \/ ScheduleNext(l)
  \/ TickPops(l)
  \/ TickEndsWithoutJob(l)
  \/ ProcessorResolves(l)
  \/ ProcessorRejects(l)
  \/ ProcessorTimesOut(l)

PoolInit == MemoryInit /\ WorkersInit

PoolNext ==
  \/ \E w \in Workers : Start(w) \/ Stop(w)
  \/ \E l \in Loops : LoopStep(l)
  \/ \E execution \in executing : LateCompletion(execution)
  \/ (Dispatch \/ Elapse) /\ UNCHANGED workers

PoolSpec == PoolInit /\ [][PoolNext]_pool

(* The host runs its timers and promise continuations, and time passes.    *)
(* Nothing makes a processor end: the timeout does that.  A driver that    *)
(* may reject a pop does not reject every one for which it has a job: the  *)
(* loops that poll a queue, taken together, get one some time.             *)
PopsFrom(queue) == \E l \in Loops : QueueOf[l[1]] = queue /\ TickPops(l)

FairPoolSpec ==
  /\ PoolSpec
  /\ \A l \in Loops : WF_pool(LoopStep(l))
  /\ \A queue \in Queues : SF_pool(PopsFrom(queue))
  /\ WF_pool(Elapse /\ UNCHANGED workers)

-----------------------------------------------------------------------------
(* Safety.                                                                 *)

Holders(id) == {l \in Loops : loop[l].stage = "processing" /\ loop[l].id = id}

(* Mutual exclusion, over all workers and all of their loops, stopped and  *)
(* restarted in any order: no job has two holders, and a job a loop works  *)
(* on is reserved for it, on the attempt it believes to be on, unless it   *)
(* was wiped meanwhile.                                                    *)
SingleHolder ==
  /\ \A id \in JobIds : Cardinality(Holders(id)) <= 1
  /\ \A l \in Loops : loop[l].stage = "processing" /\ loop[l].id \in DOMAIN jobs
                       => jobs[loop[l].id] = loop[l].job

(* No reservation is stranded but by the driver: for every reserved job    *)
(* there is a loop that will settle it, or one whose settlement was        *)
(* rejected.                                                               *)
NoStrandedReservation ==
  \A id \in DOMAIN jobs :
    jobs[id].status = "reserved" => Holders(id) # {} \/ id \in unsettled

(* Retries stay within the job's budget, which always grants one attempt.  *)
AttemptsWithinBudget ==
  \A id \in DOMAIN jobs :
    jobs[id].attempts <= (IF jobs[id].maxAttempts > 1 THEN jobs[id].maxAttempts ELSE 1)

(* With failOnTimeout, a job's processor never runs twice at once: not     *)
(* even the execution that a timeout abandoned meets a later one.          *)
NoConcurrentExecutions ==
  FailOnTimeout => \A e, f \in executing : e[1] = f[1] => e = f

(* What the event bus said last about a job is what the store holds: a     *)
(* processed job is gone, a failed one is failed or wiped, a released one  *)
(* waits or is with a later attempt.                                       *)
EventsMatchStore ==
  \A id \in JobIds :
    /\ reported[id] = "processed" => id \notin DOMAIN jobs
    /\ reported[id] = "failed" => id \notin DOMAIN jobs \/ jobs[id].status = "failed"
    /\ reported[id] = "released" => id \notin DOMAIN jobs \/ InFlight(jobs[id])

(* A running worker never loses its polling loop, whatever rejects and     *)
(* however often it is stopped and started again.                          *)
LoopAlive ==
  \A w \in Workers : running[w] => \E s \in Slots : loop[<<w, s>>] # Idle("free")

-----------------------------------------------------------------------------
(* Liveness.                                                               *)

Serving(queue) ==
  /\ queue \notin pausedQueues
  /\ \E w \in Workers : running[w] /\ QueueOf[w] = queue

(* Once a queue is served for good, every job on it that is in flight gets *)
(* a final outcome, however its processor behaves and whatever the driver  *)
(* rejects, unless that was the job's own release or fail.                 *)
Drains ==
  \A queue \in Queues :
    <>[]Serving(queue) =>
      \A id \in JobIds :
        []<>~(/\ id \in DOMAIN jobs \ unsettled
              /\ jobs[id].queue = queue /\ InFlight(jobs[id]))

(* A reservation ends, even when its worker was stopped meanwhile, unless  *)
(* the driver rejected the call that was to end it.                        *)
ReservationsEnd ==
  \A id \in JobIds :
    []<>~(id \in DOMAIN jobs \ unsettled /\ jobs[id].status = "reserved")

(* A worker that stays stopped comes to rest.                              *)
StoppedWorkersQuiesce ==
  \A w \in Workers :
    <>[]~running[w] => <>[](\A s \in Slots : loop[<<w, s>>] = Idle("free"))

-----------------------------------------------------------------------------
(* What the documentation says and the code does not do.                   *)

(* worker.service.ts: on stop "we clear the pending timeout and no further *)
(* invocations happen".                                                    *)
StoppedMeansNoTimer ==
  \A l \in Loops : loop[l] = Idle("armed") => running[l[1]]
=============================================================================
