----------------------- MODULE QStashConnectionProofs -----------------------
(***************************************************************************)
(* What TLAPS proves of the QStash driver: for any callers with lists of   *)
(* any length, any configuration, and requests lost, delayed and repeated  *)
(* in any order.                                                           *)
(***************************************************************************)
EXTENDS QStashConnection, SequenceTheorems, TLAPS

LEMMA ListForm ==
  ASSUME NEW list \in Lists
  PROVE  /\ Len(list) \in Nat /\ Len(list) >= 1
         /\ \A i \in 1..Len(list) : list[i] \in Options
  BY QStashAssumption

(* What a request for a job that push() does not refuse looks like: the    *)
(* delay that is cut down to whole seconds is less than one short.         *)
LEMMA RequestForm ==
  ASSUME NEW o \in Options, config \in Configs, ~Misconfigured(o)
  PROVE  /\ Request(o) \in RequestType
         /\ Request(o).deduplicationId = o.uniqueId
         /\ Request(o).destination = Destination(o)
         /\ LET asked == DelayMs(o)
                sent  == Request(o).delaySec
            IN  IF asked = Undefined THEN sent = Undefined
                ELSE sent * 1000 <= asked /\ asked < (sent + 1) * 1000
<1>1. /\ o.uniqueId \in UniqueIds \cup {Undefined} /\ o.tries \in Nat \cup {Undefined}
      /\ DelayMs(o) \in Nat \cup {Undefined}
  BY QStashAssumption DEF DelayMs, Or
<1>2. Destination(o) \in Destinations
  BY QStashAssumption DEF Misconfigured, Destination, Or
<1>3. \A ms \in Nat : /\ ms \div 1000 \in Nat
                      /\ (ms \div 1000) * 1000 <= ms
                      /\ ms < ((ms \div 1000) + 1) * 1000
  OBVIOUS
<1> QED BY <1>1, <1>2, <1>3 DEF Request, RequestType

-----------------------------------------------------------------------------
(* The state is well-formed, and nothing leaves for the service that push()*)
(* had to refuse.                                                          *)
Requested == [of: Callers, attempt: 1..MaxAttempts, at: Nat]

WireForm ==
  \A r \in wire :
    r \in Requested /\ r.at \in 1..Len(jobs[r.of]) /\ ~Misconfigured(jobs[r.of][r.at])

CallForm ==
  \A c \in Callers :
    /\ call[c] # "idle" => attempts[c] > 0
    /\ call[c] = "importing" => ~Misconfigured(jobs[c][at[c]])
    /\ call[c] = "next" => at[c] < Len(jobs[c])
    /\ call[c] = "resolved" => at[c] = Len(jobs[c])

WellFormed ==
  /\ QStashTypeOK
  /\ at \in [Callers -> Nat]
  /\ WireForm
  /\ CallForm

LEMMA JobsForm ==
  ASSUME QStashTypeOK, NEW c \in Callers
  PROVE  /\ jobs[c] \in Lists /\ Len(jobs[c]) \in Nat /\ Len(jobs[c]) >= 1
         /\ \A i \in 1..Len(jobs[c]) : jobs[c][i] \in Options
<1>1. jobs[c] \in Lists
  BY DEF QStashTypeOK
<1> QED BY <1>1, ListForm

LEMMA FormInit == QStashInit => WellFormed
<1> SUFFICES ASSUME QStashInit PROVE WellFormed
  OBVIOUS
<1>1. \A c \in Callers : at[c] \in 1..Len(jobs[c])
  BY ListForm DEF QStashInit
<1>2. attempts \in [Callers -> 0..MaxAttempts] /\ call \in [Callers -> CallStage]
  BY QStashAssumption DEF QStashInit, CallStage
<1>3. QStashTypeOK
  BY <1>1, <1>2 DEF QStashInit, QStashTypeOK
<1> QED BY <1>3 DEF QStashInit, WellFormed, WireForm, CallForm

(* Where a push begins.                                                    *)
LEMMA BeginsForm ==
  ASSUME WellFormed, NEW c \in Callers, Begins(c)
  PROVE  /\ attempts' \in [Callers -> 0..MaxAttempts] /\ attempts'[c] > 0
         /\ at' \in [Callers -> Nat] /\ at'[c] \in 1..Len(jobs[c])
         /\ \A d \in Callers \ {c} : attempts'[d] = attempts[d] /\ at'[d] = at[d]
         /\ \/ at'[c] = 1
            \/ call[c] = "next" /\ at'[c] = at[c] + 1
<1>1. /\ attempts \in [Callers -> 0..MaxAttempts] /\ at \in [Callers -> Nat]
      /\ Len(jobs[c]) \in Nat /\ Len(jobs[c]) >= 1 /\ MaxAttempts \in Nat
      /\ call[c] = "next" => attempts[c] > 0 /\ at[c] < Len(jobs[c])
  BY JobsForm, QStashAssumption DEF WellFormed, QStashTypeOK, CallForm
<1>2. CASE /\ attempts[c] < MaxAttempts
           /\ attempts' = [attempts EXCEPT ![c] = attempts[c] + 1]
           /\ at' = [at EXCEPT ![c] = 1]
  <2>1. attempts[c] + 1 \in 0..MaxAttempts /\ attempts[c] + 1 > 0 /\ 1 \in 1..Len(jobs[c])
    BY <1>1, <1>2
  <2> QED BY <1>1, <1>2, <2>1
<1>3. CASE call[c] = "next" /\ at' = [at EXCEPT ![c] = at[c] + 1] /\ attempts' = attempts
  <2>1. at[c] + 1 \in Nat /\ at[c] + 1 \in 1..Len(jobs[c])
    BY <1>1, <1>3
  <2> QED BY <1>1, <1>3, <2>1
<1> QED BY <1>2, <1>3 DEF Begins

LEMMA FormStep == WellFormed /\ [QStashNext]_vars => WellFormed'
<1> SUFFICES ASSUME WellFormed, [QStashNext]_vars PROVE WellFormed'
  OBVIOUS
<1>a. /\ config \in Configs /\ jobs \in [Callers -> Lists]
      /\ attempts \in [Callers -> 0..MaxAttempts] /\ MaxAttempts \in Nat
      /\ at \in [Callers -> Nat] /\ \A c \in Callers : at[c] \in 1..Len(jobs[c])
      /\ call \in [Callers -> CallStage] /\ client \in BOOLEAN
      /\ \A m \in messages : /\ m.of \in Callers /\ m.attempt \in 1..MaxAttempts
                             /\ m.at \in 1..Len(jobs[m.of]) /\ m.request \in RequestType
  BY QStashAssumption DEF WellFormed, QStashTypeOK
<1>0. ASSUME UNCHANGED <<config, jobs>>, client' \in BOOLEAN,
             attempts' \in [Callers -> 0..MaxAttempts],
             at' \in [Callers -> Nat], \A c \in Callers : at'[c] \in 1..Len(jobs[c]),
             call' \in [Callers -> CallStage],
             \A m \in messages' \ messages :
               /\ m.of \in Callers /\ m.attempt \in 1..MaxAttempts
               /\ m.at \in 1..Len(jobs[m.of]) /\ m.request \in RequestType,
             WireForm', CallForm'
      PROVE  WellFormed'
  BY <1>0, <1>a DEF WellFormed, QStashTypeOK, WireForm, Requested
<1>b. ASSUME UNCHANGED <<config, jobs>>,
             \A r \in wire' \ wire : /\ r \in Requested /\ r.at \in 1..Len(jobs[r.of])
                                     /\ ~Misconfigured(jobs[r.of][r.at])
      PROVE  WireForm'
  BY <1>b DEF WellFormed, WireForm, Misconfigured, Destination, Mode
<1>1. ASSUME NEW c \in Callers, Pushes(c) PROVE WellFormed'
  <2>1. Begins(c) /\ UNCHANGED <<config, jobs, client, messages>>
    BY <1>1 DEF Pushes, PushRefused, PushProxy, PushDirect, MayPush
  <2>2. \/ call' = [call EXCEPT ![c] = "rejected"] /\ wire' = wire
        \/ /\ ~Misconfigured(jobs[c][at'[c]])
           /\ \/ call' = [call EXCEPT ![c] = "sent"] /\ wire' = wire \cup {Current(c)}
              \/ call' = [call EXCEPT ![c] = "importing"] /\ wire' = wire
    BY <1>1 DEF Pushes, PushRefused, PushProxy, PushDirect, MayPush, Job, Moves, Send
  <2>3. WireForm'
    <3>1. Current(c) \in Requested /\ Current(c).of = c /\ Current(c).at = at'[c]
      BY <1>a, <2>1, BeginsForm DEF Current, Requested
    <3> QED BY <1>b, <2>1, <2>2, <3>1, BeginsForm
  <2>4. CallForm'
    <3>1. \A d \in Callers : call'[d] = IF d = c THEN call'[c] ELSE call[d]
      BY <1>a, <2>2
    <3>2. call'[c] \in {"rejected", "sent", "importing"}
      BY <1>a, <2>2
    <3>3. call'[c] = "importing" => ~Misconfigured(jobs[c][at'[c]])
      BY <1>a, <2>2
    <3>4. /\ attempts'[c] > 0
          /\ \A d \in Callers \ {c} : attempts'[d] = attempts[d] /\ at'[d] = at[d]
      BY <2>1, BeginsForm
    <3> QED BY <2>1, <3>1, <3>2, <3>3, <3>4
            DEF WellFormed, CallForm, Misconfigured, Destination, Mode
  <2>5. call' \in [Callers -> CallStage]
    BY <1>a, <2>2 DEF CallStage
  <2> QED BY <1>0, <1>a, <2>1, <2>3, <2>4, <2>5, BeginsForm
<1>2. ASSUME NEW c \in Callers, Imports(c) PROVE WellFormed'
  <2>1. /\ call[c] = "importing" /\ client' = TRUE
        /\ UNCHANGED <<config, jobs, attempts, at, messages>>
        /\ call' = [call EXCEPT ![c] = "sent"] /\ wire' = wire \cup {Current(c)}
    BY <1>2 DEF Imports, Send, Moves
  <2>2. attempts[c] > 0 /\ ~Misconfigured(jobs[c][at[c]])
    BY <2>1 DEF WellFormed, CallForm
  <2>3. WireForm'
    <3>1. Current(c) \in Requested /\ Current(c).of = c /\ Current(c).at = at[c]
      BY <1>a, <2>1, <2>2 DEF Current, Requested
    <3> QED BY <1>a, <1>b, <2>1, <2>2, <3>1
  <2>4. CallForm'
    BY <1>a, <2>1, <2>2 DEF WellFormed, CallForm, Misconfigured, Destination, Mode
  <2>5. call' \in [Callers -> CallStage]
    BY <1>a, <2>1 DEF CallStage
  <2> QED BY <1>0, <1>a, <2>1, <2>3, <2>4, <2>5
<1>3. ASSUME NEW c \in Callers, ImportFails(c) \/ Resolves(c) \/ Rejects(c) PROVE WellFormed'
  <2>1. /\ UNCHANGED <<config, jobs, attempts, at, client, wire, messages>>
        /\ call[c] # "idle"
        /\ \/ call' = [call EXCEPT ![c] = "rejected"]
           \/ at[c] < Len(jobs[c]) /\ call' = [call EXCEPT ![c] = "next"]
           \/ ~(at[c] < Len(jobs[c])) /\ call' = [call EXCEPT ![c] = "resolved"]
    BY <1>3 DEF ImportFails, Resolves, Rejects, Moves
  <2>2. at[c] \in 1..Len(jobs[c]) /\ Len(jobs[c]) \in Nat
    BY <1>a, JobsForm DEF WellFormed
  <2>3. WireForm'
    BY <1>b, <2>1
  <2>4. CallForm'
    BY <1>a, <2>1, <2>2 DEF WellFormed, CallForm, Misconfigured, Destination, Mode
  <2>5. call' \in [Callers -> CallStage]
    BY <1>a, <2>1 DEF CallStage
  <2> QED BY <1>0, <1>a, <2>1, <2>3, <2>4, <2>5
<1>4. ASSUME NEW r \in wire, Accept(r) \/ Lose(r) PROVE WellFormed'
  <2> DEFINE o == jobs[r.of][r.at]
             message == [of |-> r.of, attempt |-> r.attempt, at |-> r.at, request |-> Request(o)]
  <2>1. /\ UNCHANGED <<config, jobs, attempts, at, call, client>>
        /\ wire' = wire \ {r} /\ messages' \subseteq messages \cup {message}
    BY <1>4 DEF Accept, Lose
  <2>2. r \in Requested /\ r.at \in 1..Len(jobs[r.of]) /\ ~Misconfigured(o)
    BY DEF WellFormed, WireForm
  <2>3. o \in Options
    BY <2>2, JobsForm DEF WellFormed, Requested
  <2>4. Request(o) \in RequestType
    BY <1>a, <2>2, <2>3, RequestForm
  <2>5. /\ message.of \in Callers /\ message.attempt \in 1..MaxAttempts
        /\ message.at \in 1..Len(jobs[message.of]) /\ message.request \in RequestType
    BY <2>2, <2>4 DEF Requested
  <2> HIDE DEF message, o
  <2>6. WireForm'
    BY <1>b, <2>1
  <2>7. CallForm'
    BY <2>1 DEF WellFormed, CallForm, Misconfigured, Destination, Mode
  <2> QED BY <1>0, <1>a, <2>1, <2>5, <2>6, <2>7
<1>5. CASE Close
  <2>1. WireForm'
    BY <1>5, <1>b DEF Close
  <2>2. CallForm'
    BY <1>5 DEF Close, WellFormed, CallForm, Misconfigured, Destination, Mode
  <2> QED BY <1>0, <1>5, <1>a, <2>1, <2>2 DEF Close
<1>6. CASE UNCHANGED vars
  <2>1. WireForm'
    BY <1>6, <1>b DEF vars
  <2>2. CallForm'
    BY <1>6 DEF vars, WellFormed, CallForm, Misconfigured, Destination, Mode
  <2> QED BY <1>0, <1>6, <1>a, <2>1, <2>2 DEF vars
<1> QED BY <1>1, <1>2, <1>3, <1>4, <1>5, <1>6 DEF QStashNext, CallEnds

(* What is on the wire, at the service and under way stands for jobs of    *)
(* the callers' lists, and every message has a destination.                *)
THEOREM QStashTypeCorrect == QStashSpec => []QStashTypeOK
<1>1. WellFormed => QStashTypeOK
  BY DEF WellFormed
<1> QED BY <1>1, FormInit, FormStep, PTL DEF QStashSpec

-----------------------------------------------------------------------------
(* A message says what its job's options say.                              *)
Faithful(m) == m.request = Request(JobOf(m))

AllFaithful == \A m \in messages : Faithful(m)

LEMMA ConstantsStay == [QStashNext]_vars => UNCHANGED <<config, jobs>>
  BY DEF QStashNext, vars, Pushes, PushRefused, PushProxy, PushDirect, CallEnds, Imports,
         ImportFails, Resolves, Rejects, Accept, Lose, Close

(* A message appears only when the service accepts a request.              *)
LEMMA MessagesGrow ==
  ASSUME WellFormed, [QStashNext]_vars
  PROVE  \/ messages' = messages
         \/ \E r \in wire : Accept(r)
  BY DEF QStashNext, vars, Pushes, PushRefused, PushProxy, PushDirect, CallEnds, Imports,
         ImportFails, Resolves, Rejects, Lose, Close

LEMMA AcceptForm ==
  ASSUME WellFormed, NEW r \in wire, Accept(r)
  PROVE  \/ messages' = messages
         \/ \E m : /\ messages' = messages \cup {m} /\ Faithful(m)
                   /\ m.request.deduplicationId = JobOf(m).uniqueId
                   /\ JobOf(m).uniqueId # Undefined =>
                        \A n \in messages : ~Duplicates(n, JobOf(m))
<1> DEFINE o == jobs[r.of][r.at]
           message == [of |-> r.of, attempt |-> r.attempt, at |-> r.at, request |-> Request(o)]
<1>1. JobOf(message) = o /\ message.request = Request(o)
  BY DEF JobOf
<1>2. r \in Requested /\ r.at \in 1..Len(jobs[r.of]) /\ ~Misconfigured(o)
  BY DEF WellFormed, WireForm
<1>3. o \in Options /\ config \in Configs
  BY <1>2, JobsForm DEF WellFormed, Requested, QStashTypeOK
<1>4. Request(o).deduplicationId = o.uniqueId
  BY <1>2, <1>3, RequestForm
<1>5. \/ messages' = messages
      \/ /\ messages' = messages \cup {message}
         /\ o.uniqueId # Undefined => \A n \in messages : ~Duplicates(n, o)
  BY <1>1, <1>4 DEF Accept
<1> QED BY <1>1, <1>4, <1>5 DEF Faithful

LEMMA FaithfulStep ==
  WellFormed /\ AllFaithful /\ [QStashNext]_vars => AllFaithful'
<1> SUFFICES ASSUME WellFormed, AllFaithful, [QStashNext]_vars PROVE AllFaithful'
  OBVIOUS
<1>1. \A m : Faithful(m) => Faithful(m)'
  BY ConstantsStay DEF Faithful, JobOf, Request, Destination
<1>2. messages' = messages \/ \E m : messages' = messages \cup {m} /\ Faithful(m)
  BY MessagesGrow, AcceptForm
<1> QED BY <1>1, <1>2 DEF AllFaithful

LEMMA OnceStep ==
  WellFormed /\ AllFaithful /\ OncePerUniqueId /\ [QStashNext]_vars => OncePerUniqueId'
<1> SUFFICES ASSUME WellFormed, AllFaithful, OncePerUniqueId, [QStashNext]_vars
             PROVE  OncePerUniqueId'
  OBVIOUS
<1>1. \A m : JobOf(m)' = JobOf(m)
  BY ConstantsStay DEF JobOf
<1>2. CASE messages' = messages
  BY <1>1, <1>2 DEF OncePerUniqueId
<1>3. ASSUME NEW r \in wire, Accept(r), messages' # messages PROVE OncePerUniqueId'
  <2>1. PICK m : /\ messages' = messages \cup {m}
                 /\ JobOf(m).uniqueId # Undefined =>
                      \A n \in messages : ~Duplicates(n, JobOf(m))
    BY <1>3, AcceptForm
  <2>2. ASSUME NEW n \in messages PROVE n.request.deduplicationId = JobOf(n).uniqueId
    <3>1. n.request = Request(JobOf(n))
      BY DEF AllFaithful, Faithful
    <3>2. Request(JobOf(n)).deduplicationId = JobOf(n).uniqueId
      BY DEF Request
    <3> QED BY <3>1, <3>2
  <2>3. \A n \in messages :
          JobOf(m).uniqueId # Undefined => JobOf(n).uniqueId # JobOf(m).uniqueId
    BY <2>1, <2>2 DEF Duplicates
  <2> QED BY <1>1, <2>1, <2>3 DEF OncePerUniqueId
<1> QED BY <1>2, <1>3, MessagesGrow

(* "QStash treats messages with matching ids as duplicates": a job with a  *)
(* uniqueId leaves at most one message, however often it is dispatched,    *)
(* by however many callers and whatever arrives when.                      *)
THEOREM OncePerUniqueIdAlways == QStashSpec => []OncePerUniqueId
<1>1. QStashInit => WellFormed /\ AllFaithful /\ OncePerUniqueId
  BY FormInit DEF QStashInit, AllFaithful, OncePerUniqueId
<1>2. WellFormed /\ AllFaithful /\ OncePerUniqueId /\ [QStashNext]_vars
      => WellFormed' /\ AllFaithful' /\ OncePerUniqueId'
  BY FormStep, FaithfulStep, OnceStep
<1> QED BY <1>1, <1>2, PTL DEF QStashSpec

-----------------------------------------------------------------------------
(* Progress of a dispatch: every job of the list before the one it is at   *)
(* has a message, and that one too once its push has resolved.             *)
Published(c, i) ==
  \E m \in messages :
    /\ AsAsked(m)
    /\ (m.of = c /\ m.at = i) \/ Duplicates(m, jobs[c][i])

PublishedSoFar ==
  \A c \in Callers :
    /\ \A i \in 1..(at[c] - 1) : Published(c, i)
    /\ call[c] \in {"next", "resolved"} => Published(c, at[c])

(* Only requests that push() did not refuse become messages.               *)
MessagesConfigured ==
  \A m \in messages :
    m.of \in Callers /\ m.at \in 1..Len(jobs[m.of]) /\ ~Misconfigured(JobOf(m))

Progress == WellFormed /\ AllFaithful /\ MessagesConfigured /\ PublishedSoFar

LEMMA MessagesConfiguredStep ==
  WellFormed /\ MessagesConfigured /\ [QStashNext]_vars => MessagesConfigured'
<1> SUFFICES ASSUME WellFormed, MessagesConfigured, [QStashNext]_vars
             PROVE  MessagesConfigured'
  OBVIOUS
<1>1. UNCHANGED <<config, jobs>>
  BY ConstantsStay
<1>2. ASSUME messages' = messages PROVE MessagesConfigured'
  BY <1>1, <1>2 DEF MessagesConfigured, JobOf, Misconfigured, Destination, Mode
<1>3. ASSUME NEW r \in wire, Accept(r) PROVE MessagesConfigured'
  <2> DEFINE message == [of |-> r.of, attempt |-> r.attempt, at |-> r.at,
                         request |-> Request(jobs[r.of][r.at])]
  <2>1. messages' \subseteq messages \cup {message}
    BY <1>3 DEF Accept
  <2>2. /\ message.of \in Callers /\ message.at \in 1..Len(jobs[message.of])
        /\ ~Misconfigured(JobOf(message))
    BY DEF WellFormed, WireForm, Requested, JobOf
  <2> HIDE DEF message
  <2> QED BY <1>1, <2>1, <2>2
          DEF MessagesConfigured, JobOf, Misconfigured, Destination, Mode
<1> QED BY <1>2, <1>3, MessagesGrow

(* A good answer means that the job it answers for is published.           *)
LEMMA DeliveredIsPublished ==
  ASSUME WellFormed, AllFaithful, MessagesConfigured, NEW c \in Callers, Delivered(c)
  PROVE  Published(c, at[c])
<1>1. PICK m \in messages : \/ m.of = c /\ m.at = at[c]
                            \/ Duplicates(m, jobs[c][at[c]])
  BY DEF Delivered
<1>2. AsAsked(m)
  <2>1. PICK o \in Options : o = JobOf(m)
    BY JobsForm DEF MessagesConfigured, JobOf, WellFormed, QStashTypeOK
  <2>2. ~Misconfigured(o) /\ m.request = Request(o)
    BY <2>1 DEF MessagesConfigured, AllFaithful, Faithful
  <2>3. Request(o).destination = Destination(o) /\ DelayKept(m, o)
    BY <2>2, RequestForm DEF DelayKept, WellFormed, QStashTypeOK
  <2> QED BY <2>1, <2>2, <2>3 DEF AsAsked
<1> QED BY <1>1, <1>2 DEF Published

LEMMA PublishedStep == Progress /\ [QStashNext]_vars => PublishedSoFar'
<1> SUFFICES ASSUME Progress, [QStashNext]_vars PROVE PublishedSoFar'
  OBVIOUS
<1> USE DEF Progress
<1>1. UNCHANGED <<config, jobs>>
  BY ConstantsStay
<1>2. messages \subseteq messages'
  BY MessagesGrow DEF Accept
<1>3. \A c, i : Published(c, i) => Published(c, i)'
  BY <1>1, <1>2 DEF Published, AsAsked, JobOf, Destination, DelayKept, Duplicates
<1>4. ASSUME UNCHANGED <<at, call>> PROVE PublishedSoFar'
  BY <1>3, <1>4 DEF PublishedSoFar
<1>a. at \in [Callers -> Nat] /\ call \in [Callers -> CallStage]
  BY DEF WellFormed, QStashTypeOK
<1>5. ASSUME NEW c \in Callers, Pushes(c) PROVE PublishedSoFar'
  <2>1. Begins(c) /\ \E stage \in {"rejected", "sent", "importing"} :
                       call' = [call EXCEPT ![c] = stage]
    BY <1>5 DEF Pushes, PushRefused, PushProxy, PushDirect, MayPush, Moves, Send
  <2>2. /\ \A d \in Callers \ {c} : at'[d] = at[d]
        /\ at'[c] = 1 \/ (call[c] = "next" /\ at'[c] = at[c] + 1)
    BY <2>1, BeginsForm
  <2>3. \A i \in 1..(at'[c] - 1) : Published(c, i)
    BY <1>a, <2>2 DEF PublishedSoFar
  <2>4. call'[c] \notin {"next", "resolved"} /\ \A d \in Callers \ {c} : call'[d] = call[d]
    BY <1>a, <2>1
  <2> QED BY <1>3, <2>2, <2>3, <2>4 DEF PublishedSoFar
<1>6. ASSUME NEW c \in Callers, Imports(c) \/ ImportFails(c) \/ Rejects(c) PROVE PublishedSoFar'
  <2>1. at' = at /\ \E stage \in {"rejected", "sent"} : call' = [call EXCEPT ![c] = stage]
    BY <1>6 DEF Imports, ImportFails, Rejects, Moves, Send
  <2>2. call'[c] \notin {"next", "resolved"} /\ \A d \in Callers \ {c} : call'[d] = call[d]
    BY <1>a, <2>1
  <2> QED BY <1>3, <2>1, <2>2 DEF PublishedSoFar
<1>7. ASSUME NEW c \in Callers, Resolves(c) PROVE PublishedSoFar'
  <2>1. at' = at /\ Published(c, at[c])
    BY <1>7, DeliveredIsPublished DEF Resolves
  <2>2. \A d \in Callers \ {c} : call'[d] = call[d]
    BY <1>7, <1>a DEF Resolves, Moves
  <2> QED BY <1>3, <2>1, <2>2 DEF PublishedSoFar
<1>8. ASSUME NEW r \in wire, Accept(r) \/ Lose(r) PROVE PublishedSoFar'
  BY <1>4, <1>8 DEF Accept, Lose
<1>9. CASE Close \/ UNCHANGED vars
  BY <1>4, <1>9 DEF Close, vars
<1> QED BY <1>5, <1>6, <1>7, <1>8, <1>9 DEF QStashNext, CallEnds

(* Whoever was told so has a message at the service for each of its jobs,  *)
(* sent where and for when it wanted, or one that the service takes for    *)
(* the same: also after a bulk() that failed halfway was dispatched again. *)
THEOREM ResolvedIsPublishedAlways == QStashSpec => []ResolvedIsPublished
<1>1. QStashInit => Progress
  <2> SUFFICES ASSUME QStashInit PROVE Progress
    OBVIOUS
  <2>1. PublishedSoFar /\ MessagesConfigured /\ AllFaithful
    BY DEF QStashInit, PublishedSoFar, MessagesConfigured, AllFaithful
  <2> QED BY <2>1, FormInit DEF Progress
<1>2. Progress /\ [QStashNext]_vars => Progress'
  BY FormStep, FaithfulStep, MessagesConfiguredStep, PublishedStep DEF Progress
<1>3. Progress => ResolvedIsPublished
  <2> SUFFICES ASSUME Progress, NEW c \in Callers, call[c] = "resolved",
                      NEW i \in 1..Len(jobs[c])
               PROVE  Published(c, i)
    BY DEF ResolvedIsPublished, Published
  <2>1. at[c] = Len(jobs[c]) /\ Len(jobs[c]) \in Nat
    BY JobsForm DEF Progress, WellFormed, CallForm
  <2> QED BY <2>1 DEF Progress, PublishedSoFar
<1> QED BY <1>1, <1>2, <1>3, PTL DEF QStashSpec
=============================================================================
