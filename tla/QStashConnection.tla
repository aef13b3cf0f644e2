--------------------------- MODULE QStashConnection ---------------------------
(***************************************************************************)
(* The QStash driver (connections/qstash.connection.ts): a producer that   *)
(* publishes a dispatch over HTTP, through the application's own endpoint  *)
(* (mode "proxy") or with the QStash client (mode "direct"), which it      *)
(* imports when it is first needed.  pop answers null and the settling     *)
(* methods do nothing, so there are no jobs here but messages.             *)
(*                                                                         *)
(* The network and the service are external: a request may be lost, its    *)
(* answer may be lost, it may arrive after its caller has given up; the    *)
(* service drops a message whose deduplicationId it has seen.              *)
(*                                                                         *)
(* A caller has a list of jobs, which bulk() pushes one after the other; a *)
(* push is a list of one.  When one of them rejects, so does the dispatch, *)
(* and the caller may dispatch the whole list again.                       *)
(***************************************************************************)
EXTENDS Integers, FiniteSets, Sequences

CONSTANTS
  Callers,       \* each with one dispatch to get through
  Options,       \* the IJobOptions a job may be dispatched with
  Lists,         \* the lists of jobs a caller may dispatch
  Configs,       \* the configurations a connection may be created with
  Destinations,
  UniqueIds,
  MaxAttempts,   \* bound: how often a caller dispatches
  Undefined

ASSUME QStashAssumption ==
  /\ Options \subseteq
       [delayMs: Nat \cup {Undefined}, laterMs: Nat \cup {Undefined},
        tries: Nat \cup {Undefined}, uniqueId: UniqueIds \cup {Undefined},
        destination: Destinations \cup {Undefined}]
  /\ Configs \subseteq
       [mode: {"proxy", "direct", Undefined}, proxyUrl: BOOLEAN, token: BOOLEAN,
        defaultDestination: Destinations \cup {Undefined}, sdkInstalled: BOOLEAN]
  /\ Lists \subseteq Seq(Options) \ {<< >>}
  /\ MaxAttempts \in Nat

VARIABLES
  config,     \* this.config; never changes
  jobs,       \* the list of each caller; never changes
  attempts,   \* how often it was dispatched
  at,         \* the job of the list that the current dispatch is at
  call,       \* where the push of that job is
  client,     \* whether this.directClient is set
  wire,       \* the requests on their way: [of, attempt, at]
  messages    \* what the service has accepted: [of, attempt, at, request]

vars == <<config, jobs, attempts, at, call, client, wire, messages>>

CallStage == {"idle", "next", "importing", "sent", "resolved", "rejected"}

-----------------------------------------------------------------------------
Or(value, default) == IF value # Undefined THEN value ELSE default

Mode == Or(config.mode, "proxy")

(* later() is push() with its delay in place of the options' own.          *)
DelayMs(o) == Or(o.laterMs, o.delayMs)

Destination(o) == Or(o.destination, config.defaultDestination)

\* Mutant of Request: without the deduplication id.
RequestUndeduplicated(o) ==
  [destination |-> Destination(o), retries |-> o.tries, deduplicationId |-> Undefined,
   delaySec |-> IF DelayMs(o) = Undefined THEN Undefined ELSE DelayMs(o) \div 1000]

\* Mutant of Request: the delay is sent in milliseconds.
RequestMilliseconds(o) ==
  [destination |-> Destination(o), retries |-> o.tries, deduplicationId |-> o.uniqueId,
   delaySec |-> DelayMs(o)]

(* The body of pushProxy and the argument of publishJSON in pushDirect.    *)
Request(o) ==
  [destination |-> Destination(o), retries |-> o.tries, deduplicationId |-> o.uniqueId,
   delaySec |-> IF DelayMs(o) = Undefined THEN Undefined ELSE DelayMs(o) \div 1000]

RequestType ==
  [destination: Destinations, retries: Nat \cup {Undefined},
   deduplicationId: UniqueIds \cup {Undefined}, delaySec: Nat \cup {Undefined}]

QStashTypeOK ==
  /\ config \in Configs /\ jobs \in [Callers -> Lists]
  /\ attempts \in [Callers -> 0..MaxAttempts]
  /\ \A c \in Callers : at[c] \in 1..Len(jobs[c])
  /\ call \in [Callers -> CallStage]
  /\ client \in BOOLEAN
  /\ \A r \in wire \cup messages :
       r.of \in Callers /\ r.attempt \in 1..MaxAttempts /\ r.at \in 1..Len(jobs[r.of])
  /\ \A m \in messages : m.request \in RequestType

QStashInit ==
  /\ config \in Configs
  /\ jobs \in [Callers -> Lists]
  /\ attempts = [c \in Callers |-> 0]
  /\ at = [c \in Callers |-> 1]
  /\ call = [c \in Callers |-> "idle"]
  /\ client = FALSE
  /\ wire = {}
  /\ messages = {}

-----------------------------------------------------------------------------
Moves(c, stage) == call' = [call EXCEPT ![c] = stage]

Job(c) == jobs[c][at'[c]]

(* A push begins: the first of a dispatch, or the next of a bulk().        *)
Begins(c) ==
  \/ /\ call[c] \in {"idle", "rejected"} /\ attempts[c] < MaxAttempts
     /\ attempts' = [attempts EXCEPT ![c] = @ + 1]
     /\ at' = [at EXCEPT ![c] = 1]
  \/ /\ call[c] = "next"
     /\ at' = [at EXCEPT ![c] = @ + 1]
     /\ UNCHANGED attempts

Current(c) == [of |-> c, attempt |-> attempts'[c], at |-> at'[c]]

Send(c) == Moves(c, "sent") /\ wire' = wire \cup {Current(c)}

(* What push() finds missing in the configuration.                         *)
Misconfigured(o) ==
  \/ Destination(o) = Undefined
  \/ Mode = "proxy" /\ ~config.proxyUrl
  \/ Mode = "direct" /\ ~config.token

\* Mutant of MayPush: the destination is not checked.
MayPushAnywhere(c) == Begins(c)

MayPush(c) == Begins(c) /\ ~Misconfigured(Job(c))

PushRefused(c) ==
  /\ Begins(c) /\ Misconfigured(Job(c))
  /\ Moves(c, "rejected")
  /\ UNCHANGED <<config, jobs, client, wire, messages>>

PushProxy(c) ==
  /\ MayPush(c) /\ Mode = "proxy"
  /\ Send(c)
  /\ UNCHANGED <<config, jobs, client, messages>>

PushDirect(c) ==
  /\ MayPush(c) /\ Mode = "direct"
  /\ IF client THEN Send(c) ELSE Moves(c, "importing") /\ UNCHANGED wire
  /\ UNCHANGED <<config, jobs, client, messages>>

(* getDirectClient: the import ends; two callers may both get this far.    *)
Imports(c) ==
  /\ call[c] = "importing" /\ config.sdkInstalled
  /\ client' = TRUE
  /\ UNCHANGED <<config, jobs, attempts, at, messages>>
  /\ Send(c)

ImportFails(c) ==
  /\ call[c] = "importing"
  /\ Moves(c, "rejected")
  /\ UNCHANGED <<config, jobs, attempts, at, client, wire, messages>>

(* close(): called at any time, also during an import.                     *)
Close ==
  /\ client
  /\ client' = FALSE
  /\ UNCHANGED <<config, jobs, attempts, at, call, wire, messages>>

-----------------------------------------------------------------------------
(* Whether a message stands for a job: it was made for it, or the service  *)
(* takes the two for duplicates.                                           *)
Duplicates(m, o) == o.uniqueId # Undefined /\ m.request.deduplicationId = o.uniqueId

(* The service gets a request; one it has seen leaves no second message.   *)
Accept(r) ==
  LET o == jobs[r.of][r.at]
      message == [of |-> r.of, attempt |-> r.attempt, at |-> r.at, request |-> Request(o)]
      seen    == {m \in messages : message.request.deduplicationId # Undefined
                                   /\ Duplicates(m, o)}
  IN  /\ r \in wire
      /\ wire' = wire \ {r}
      /\ messages' = IF seen = {} THEN messages \cup {message} ELSE messages
      /\ UNCHANGED <<config, jobs, attempts, at, call, client>>

Lose(r) ==
  /\ r \in wire
  /\ wire' = wire \ {r}
  /\ UNCHANGED <<config, jobs, attempts, at, call, client, messages>>

Delivered(c) ==
  \E m \in messages : \/ m.of = c /\ m.attempt = attempts[c] /\ m.at = at[c]
                      \/ Duplicates(m, jobs[c][at[c]])

(* A good answer to a request that the service has accepted or dropped as  *)
(* a duplicate: the dispatch is over, or bulk() goes on.                   *)
Resolves(c) ==
  /\ call[c] = "sent" /\ Delivered(c)
  /\ [of |-> c, attempt |-> attempts[c], at |-> at[c]] \notin wire
  /\ Moves(c, IF at[c] < Len(jobs[c]) THEN "next" ELSE "resolved")
  /\ UNCHANGED <<config, jobs, attempts, at, client, wire, messages>>

(* A network error or an HTTP error, whatever became of the request: the   *)
(* rest of a bulk() is not pushed.                                         *)
Rejects(c) ==
  /\ call[c] = "sent"
  /\ Moves(c, "rejected")
  /\ UNCHANGED <<config, jobs, attempts, at, client, wire, messages>>

-----------------------------------------------------------------------------
CallEnds(c) == Imports(c) \/ ImportFails(c) \/ Resolves(c) \/ Rejects(c)

Pushes(c) == PushRefused(c) \/ PushProxy(c) \/ PushDirect(c)

QStashNext ==
  \/ \E c \in Callers : Pushes(c) \/ CallEnds(c)
  \/ \E r \in wire : Accept(r) \/ Lose(r)
  \/ Close

QStashSpec == QStashInit /\ [][QStashNext]_vars

-----------------------------------------------------------------------------
JobOf(m) == jobs[m.of][m.at]

(* "QStash treats messages with matching ids as duplicates": a job with a  *)
(* uniqueId that is dispatched again after a lost answer or the failure of *)
(* another job of its bulk(), or by several callers, leaves one message,   *)
(* whatever arrives when.                                                  *)
OncePerUniqueId ==
  \A m, n \in messages :
    JobOf(m).uniqueId = JobOf(n).uniqueId /\ JobOf(m).uniqueId # Undefined => m = n

(* The delay that arrives is the caller's, that of later() before that of  *)
(* the options: less than a second short of it, and never longer.          *)
DelayKept(m, o) ==
  LET asked == DelayMs(o)
      sent  == m.request.delaySec
  IN  IF asked = Undefined THEN sent = Undefined
      ELSE sent * 1000 <= asked /\ asked < (sent + 1) * 1000

AsAsked(m) ==
  m.request.destination = Destination(JobOf(m)) /\ DelayKept(m, JobOf(m))

(* "The QStash messageId on success": whoever was told so has for each of  *)
(* its jobs a message at the service, made for that job or for one with    *)
(* the same uniqueId, and that goes where and when its job asked for.      *)
ResolvedIsPublished ==
  \A c \in Callers : call[c] = "resolved" =>
    \A i \in 1..Len(jobs[c]) : \E m \in messages :
      /\ AsAsked(m)
      /\ (m.of = c /\ m.at = i) \/ Duplicates(m, jobs[c][i])

=============================================================================
