------------------------ MODULE QueueApplicationProofs ------------------------
(***************************************************************************)
(* What TLAPS proves of an application, for any configurations, providers, *)
(* processors, connections, callers and hooks, whoever looks up and        *)
(* disconnects what: of the registry of connections and handles, of the    *)
(* references that calls, handles and tokens hold, of the tokens that the  *)
(* container resolves, of the loader's workers and handlers, and of the    *)
(* hooks.                                                                  *)
(***************************************************************************)
EXTENDS QueueApplication, SequenceTheorems, FiniteSetTheorems, TLAPS
-----------------------------------------------------------------------------
(* The connections, and what the base class knows of them: a name is being *)
(* created, or has an open instance, or neither.                           *)
Connection ==
  [name: ConnectionNames, state: {"connecting", "open", "failed", "closed"},
   handler: Nat \cup {None}]

ConnectionsForm == connections \in Seq(Connection) /\ at \in Nat

CreatingIs ==
  /\ \A name \in DOMAIN creating : /\ creating[name] \in Ids
                                   /\ connections[creating[name]].name = name
                                   /\ connections[creating[name]].state = "connecting"
  /\ \A id \in Ids : connections[id].state = "connecting" =>
       connections[id].name \in DOMAIN creating /\ creating[connections[id].name] = id

InstancesAre ==
  \A name \in DOMAIN instances : /\ instances[name] \in Ids /\ name \notin DOMAIN creating
                                 /\ connections[instances[name]].name = name
                                 /\ connections[instances[name]].state = "open"

(* Somebody waits for every connection that is being made.                 *)
Awaits(p) ==
  calls[p].stage = "waiting" =>
    calls[p].conn \in Ids /\ connections[calls[p].conn].name = calls[p].name

Awaited(id) == \E p \in Callers : calls[p].stage = "waiting" /\ calls[p].conn = id

CallsForm ==
  /\ DOMAIN calls = Callers
  /\ \A p \in Callers : Awaits(p)
  /\ \A id \in Ids : connections[id].state = "connecting" => Awaited(id)

(* What is being closed was open, and may have been closed meanwhile.      *)
ClosingIs ==
  \A d \in closing : /\ d.conn \in Ids /\ connections[d.conn].name = d.name
                     /\ connections[d.conn].state \in {"open", "closed"}

(* Nothing is closed before the application is up.                         *)
Late == closing # {} \/ stopping # "no" => phase \in {"up", "stopped"}

HandlesNamed == \A key \in DOMAIN handles : key[1] \in ConnectionNames /\ handles[key].queue = key[2]

RegistryInv ==
  ConnectionsForm /\ CreatingIs /\ InstancesAre /\ CallsForm /\ ClosingIs /\ Late /\ HandlesNamed

(* A name of which no lookup crossed a disconnect: what is open, what is   *)
(* waited for, what is being closed and what is cached is its instance.    *)
InstanceOf(name, id) == name \in DOMAIN instances /\ instances[name] = id

AwaitsInstance(name) ==
  \A p \in Callers : calls[p].stage = "waiting" /\ calls[p].name = name =>
    \/ connections[calls[p].conn].state \in {"connecting", "failed"}
    \/ InstanceOf(name, calls[p].conn)

ClosesInstance(name) ==
  \A d \in closing : d.name = name /\ name \in DOMAIN instances => instances[name] = d.conn

CachesInstance(name) ==
  \A key \in DOMAIN handles : key[1] = name => InstanceOf(name, handles[key].conn)

OpensInstance(name) ==
  \A id \in Ids : connections[id].name = name /\ connections[id].state = "open" =>
    InstanceOf(name, id)

StopsInstance(name) ==
  /\ stopping = "disconnecting" /\ name \in DOMAIN instances =>
       \E d \in closing : d.by = "onModuleDestroy" /\ d.name = name
  /\ stopping = "destroyed" => name \notin DOMAIN instances

Sound(name) ==
  /\ ~Crosses(name)
  /\ AwaitsInstance(name) /\ ClosesInstance(name) /\ CachesInstance(name)
  /\ OpensInstance(name) /\ StopsInstance(name)

ManagerInv == RegistryInv /\ \A name \in ConnectionNames \ crossed : Sound(name)

-----------------------------------------------------------------------------
(* How a step changes a connection.                                        *)
LEMMA ConnectionType ==
  ASSUME ConnectionsForm, NEW id \in Ids
  PROVE  /\ connections[id] \in Connection /\ connections[id].name \in ConnectionNames
         /\ connections[id].handler \in Nat \cup {None}
<1>1. connections[id] \in Connection
  BY ElementOfSeq DEF ConnectionsForm, Ids
<1> QED BY <1>1 DEF Connection

LEMMA ConnectionReplaced ==
  ASSUME ConnectionsForm, NEW id \in Ids, NEW c \in Connection,
         connections' = [connections EXCEPT ![id] = c]
  PROVE  /\ connections' \in Seq(Connection) /\ Ids' = Ids
         /\ connections'[id] = c
         /\ \A other \in Ids \ {id} : connections'[other] = connections[other]
<1>1. connections \in Seq(Connection) /\ id \in 1..Len(connections)
  BY DEF ConnectionsForm, Ids
<1>2. connections' \in Seq(Connection) /\ Len(connections') = Len(connections)
  BY <1>1, ExceptSeq
<1>3. DOMAIN connections = Ids
  BY <1>1, LenProperties DEF Ids
<1> QED BY <1>2, <1>3 DEF Ids

(* A connection gets another state; it keeps its name.                     *)
Becomes(id, state) ==
  /\ connections' \in Seq(Connection) /\ Ids' = Ids
  /\ connections'[id].name = connections[id].name /\ connections'[id].state = state
  /\ \A other \in Ids \ {id} : connections'[other] = connections[other]

LEMMA ConnectionEdited ==
  ASSUME ConnectionsForm, NEW id \in Ids
  PROVE  /\ \A state \in {"open", "failed", "closed"} :
              connections' = [connections EXCEPT ![id].state = state] =>
                Becomes(id, state) /\ connections'[id].handler = connections[id].handler
         /\ \A handler \in Nat :
              connections' = [connections EXCEPT ![id].handler = handler] =>
                Becomes(id, connections[id].state) /\ connections'[id].handler = handler
<1>0. PICK old \in Connection : old = connections[id]
  BY ConnectionType
<1>1. ASSUME NEW c \in Connection, c.name = old.name,
             connections' = [connections EXCEPT ![id] = c]
      PROVE  Becomes(id, c.state) /\ connections'[id].handler = c.handler
  BY <1>0, <1>1, ConnectionReplaced DEF Becomes
<1>2. ASSUME NEW state \in {"open", "failed", "closed"},
             connections' = [connections EXCEPT ![id].state = state]
      PROVE  Becomes(id, state) /\ connections'[id].handler = connections[id].handler
  <2>1. PICK c : c = [old EXCEPT !.state = state]
    OBVIOUS
  <2>2. c \in Connection /\ c.name = old.name /\ c.state = state /\ c.handler = old.handler
    BY <2>1 DEF Connection
  <2>3. connections' = [connections EXCEPT ![id] = c]
    BY <1>0, <1>2, <2>1
  <2> QED BY <1>0, <1>1, <2>2, <2>3
<1>4. ASSUME NEW handler \in Nat,
             connections' = [connections EXCEPT ![id].handler = handler]
      PROVE  Becomes(id, connections[id].state) /\ connections'[id].handler = handler
  <2>1. PICK c : c = [old EXCEPT !.handler = handler]
    OBVIOUS
  <2>2. c \in Connection /\ c.name = old.name /\ c.state = old.state /\ c.handler = handler
    BY <2>1 DEF Connection
  <2>3. connections' = [connections EXCEPT ![id] = c]
    BY <1>0, <1>4, <2>1
  <2> QED BY <1>0, <1>1, <2>2, <2>3
<1> QED BY <1>2, <1>4

(* Only handlers change, and the names and the states stay.                *)
OnlyHandlers ==
  /\ connections' \in Seq(Connection) /\ Ids' = Ids
  /\ \A id \in Ids : /\ connections'[id].name = connections[id].name
                     /\ connections'[id].state = connections[id].state

LEMMA CloseCalledIs ==
  ASSUME ConnectionsForm, NEW ids, CloseCalled(ids)
  PROVE  OnlyHandlers /\ \A id \in Ids \ ids : connections'[id] = connections[id]
<1>1. \A id \in Ids : connections[id] \in Connection
  BY ConnectionType
<1>2. ASSUME NEW id \in Ids
      PROVE  /\ connections'[id] \in Connection /\ connections'[id].name = connections[id].name
             /\ connections'[id].state = connections[id].state
             /\ id \notin ids => connections'[id] = connections[id]
  <2>1. PICK old \in Connection : old = connections[id]
    BY <1>1
  <2>2. PICK new : new = [old EXCEPT !.handler = None]
    OBVIOUS
  <2>3. new \in Connection /\ new.name = old.name /\ new.state = old.state
    BY <2>1, <2>2 DEF Connection
  <2>4. connections'[id] = IF id \in ids THEN new ELSE old
    BY <2>1, <2>2 DEF CloseCalled
  <2> QED BY <2>1, <2>3, <2>4
<1>3. Len(connections) \in Nat /\ Ids = 1..Len(connections)
  BY LenProperties DEF ConnectionsForm, Ids
<1>4. connections' \in [1..Len(connections) -> Connection]
  BY <1>2, <1>3 DEF CloseCalled
<1>5. connections' \in Seq(Connection) /\ Len(connections') = Len(connections)
  BY <1>3, <1>4, IsASeq, LenProperties
<1>6. Ids' = Ids
  BY <1>3, <1>5 DEF Ids
<1> QED BY <1>2, <1>5, <1>6 DEF OnlyHandlers

LEMMA ConnectionAdded ==
  ASSUME ConnectionsForm, NEW c \in Connection, connections' = Append(connections, c)
  PROVE  /\ connections' \in Seq(Connection) /\ Len(connections) + 1 \notin Ids
         /\ Ids' = Ids \cup {Len(connections) + 1}
         /\ connections'[Len(connections) + 1] = c
         /\ \A id \in Ids : connections'[id] = connections[id]
  BY DEF ConnectionsForm, Ids

-----------------------------------------------------------------------------
(* One lemma per way in which a step of the application changes what the   *)
(* manager knows.  All leave the configuration alone, an application that  *)
(* is up or stopped does not boot again, and a name that has been crossed  *)
(* stays so.                                                               *)
Steady ==
  /\ config' = config /\ at' \in Nat
  /\ phase \in {"up", "stopped"} => phase' \in {"up", "stopped"}

Noted == crossed \subseteq crossed' /\ \A name \in ConnectionNames \ crossed' : ~Crosses(name)'

LEMMA SteadyForm ==
  ASSUME Steady, connections' \in Seq(Connection)
  PROVE  ConnectionsForm'
  BY DEF Steady, ConnectionsForm, Connection, ConnectionNames

(* So it is enough to look at a name that is sound and that no lookup      *)
(* crosses, before the step or after it.                                   *)
LEMMA NamesSound ==
  ASSUME ManagerInv, Steady, Noted, RegistryInv',
         \A name \in ConnectionNames :
           Sound(name) /\ ~Crosses(name) /\ ~Crosses(name)' =>
             /\ AwaitsInstance(name)' /\ ClosesInstance(name)' /\ CachesInstance(name)'
             /\ OpensInstance(name)' /\ StopsInstance(name)'
  PROVE  ManagerInv'
<1>1. ConnectionNames' = ConnectionNames
  BY DEF Steady, ConnectionNames
<1>2. ASSUME NEW name \in ConnectionNames \ crossed' PROVE Sound(name)'
  <2>1. Sound(name) /\ ~Crosses(name) /\ ~Crosses(name)'
    BY <1>2 DEF ManagerInv, Noted, Sound
  <2> QED BY <2>1 DEF Sound
<1> QED BY <1>1, <1>2 DEF ManagerInv

(* Nothing but a caller that has its answer, and the handler of a          *)
(* connection.                                                             *)
Quiet ==
  /\ OnlyHandlers
  /\ UNCHANGED <<instances, creating, handles, closing, stopping>>
  /\ \/ calls' = calls
     \/ \E p \in Callers : /\ calls[p].stage # "waiting"
                           /\ calls' = [calls EXCEPT ![p] = Idle]

LEMMA QuietStep == ASSUME ManagerInv, Steady, Noted, Quiet PROVE ManagerInv'
<1>0. RegistryInv
  BY DEF ManagerInv
<1>1. ConnectionsForm'
  BY SteadyForm DEF Quiet, OnlyHandlers
<1>2. CreatingIs' /\ InstancesAre' /\ HandlesNamed'
  BY <1>0 DEF RegistryInv, Quiet, OnlyHandlers, CreatingIs, InstancesAre, HandlesNamed, Steady,
              ConnectionNames
<1>3. /\ DOMAIN calls' = Callers
      /\ \A p \in Callers : \/ calls'[p] = calls[p]
                            \/ calls'[p] = Idle /\ calls[p].stage # "waiting"
  BY <1>0 DEF RegistryInv, Quiet, CallsForm
<1>4. \A p \in Callers :
        /\ calls'[p].stage = "waiting" <=> calls[p].stage = "waiting"
        /\ calls[p].stage = "waiting" => calls'[p] = calls[p]
  BY <1>3 DEF Idle
<1>5. CallsForm'
  BY <1>0, <1>3, <1>4 DEF RegistryInv, Quiet, OnlyHandlers, CallsForm, Awaits, Awaited
<1>6. ClosingIs' /\ Late'
  BY <1>0 DEF RegistryInv, Quiet, OnlyHandlers, Steady, ClosingIs, Late
<1>7. ASSUME NEW name \in ConnectionNames, Sound(name)
      PROVE  /\ AwaitsInstance(name)' /\ ClosesInstance(name)' /\ CachesInstance(name)'
             /\ OpensInstance(name)' /\ StopsInstance(name)'
  <2>1. AwaitsInstance(name)'
    BY <1>0, <1>4, <1>7 DEF RegistryInv, CallsForm, Awaits, Sound, Quiet, OnlyHandlers,
                            AwaitsInstance, InstanceOf
  <2> QED BY <1>7, <2>1 DEF Sound, Quiet, OnlyHandlers, ClosesInstance, CachesInstance,
                            OpensInstance, StopsInstance, InstanceOf
<1>8. RegistryInv'
  BY <1>1, <1>2, <1>5, <1>6 DEF RegistryInv
<1> QED BY <1>7, <1>8, NamesSound

(* A caller asks.                                                          *)
LEMMA AskStep ==
  ASSUME ManagerInv, Steady, Noted, NEW p \in Callers, NEW name, NEW queue, Ask(p, name, queue)
  PROVE  ManagerInv'
<1> DEFINE n == NameOf(name)
<1>0. /\ calls[p].stage # "waiting"
      /\ UNCHANGED <<config, instances, handles, closing, stopping>>
  BY DEF Ask, IsIdle
<1>a. RegistryInv /\ DOMAIN calls = Callers
  BY DEF ManagerInv, RegistryInv, CallsForm
<1>b. HandlesNamed' /\ Late'
  BY <1>0, <1>a DEF RegistryInv, Steady, HandlesNamed, Late, ConnectionNames
<1>1. ASSUME NEW call, calls' = [calls EXCEPT ![p] = call], call.stage # "waiting",
             UNCHANGED <<connections, creating>>
      PROVE  ManagerInv'
  <2>1. ConnectionsForm'
    BY <1>1, <1>a, SteadyForm DEF RegistryInv, ConnectionsForm
  <2>2. \A q \in Callers : calls'[q].stage = "waiting" <=> q # p /\ calls[q].stage = "waiting"
    BY <1>1, <1>a
  <2>3. \A q \in Callers \ {p} : calls'[q] = calls[q]
    BY <1>1, <1>a
  <2>4. CallsForm'
    BY <1>0, <1>1, <1>a, <2>2, <2>3 DEF RegistryInv, CallsForm, Awaits, Awaited, Ids
  <2>5. CreatingIs' /\ InstancesAre' /\ ClosingIs'
    BY <1>0, <1>1, <1>a DEF RegistryInv, CreatingIs, InstancesAre, ClosingIs, Ids
  <2>6. ASSUME NEW m \in ConnectionNames, Sound(m)
        PROVE  /\ AwaitsInstance(m)' /\ ClosesInstance(m)' /\ CachesInstance(m)'
               /\ OpensInstance(m)' /\ StopsInstance(m)'
    BY <1>0, <1>1, <2>2, <2>3, <2>6 DEF Sound, AwaitsInstance, ClosesInstance, CachesInstance,
       OpensInstance, StopsInstance, InstanceOf, Ids
  <2> QED BY <1>b, <2>1, <2>4, <2>5, <2>6, NamesSound DEF RegistryInv
<1>2. ASSUME NEW id, calls' = [calls EXCEPT ![p] = Waiting(n, queue, id)],
             \/ n \in DOMAIN instances /\ id = instances[n]
             \/ n \in DOMAIN creating /\ id = creating[n],
             UNCHANGED <<connections, creating>>
      PROVE  ManagerInv'
  <2>1. ConnectionsForm'
    BY <1>2, <1>a, SteadyForm DEF RegistryInv, ConnectionsForm
  <2>2. /\ calls'[p].stage = "waiting" /\ calls'[p].name = n /\ calls'[p].conn = id
        /\ DOMAIN calls' = Callers
        /\ \A q \in Callers \ {p} : calls'[q] = calls[q]
    BY <1>2, <1>a DEF Waiting
  <2>3. /\ id \in Ids /\ connections[id].name = n
        /\ connections[id].state = "connecting" \/ InstanceOf(n, id)
    BY <1>2, <1>a DEF RegistryInv, CreatingIs, InstancesAre, InstanceOf
  <2> HIDE DEF n
  <2>4. Awaits(p)'
    BY <1>0, <1>2, <2>2, <2>3 DEF Awaits, Ids
  <2>5. \A q \in Callers \ {p} : Awaits(q)'
    BY <1>a, <1>2, <2>2 DEF RegistryInv, CallsForm, Awaits, Ids
  <2>6. \A other \in Ids : Awaited(other) => Awaited(other)'
    BY <1>0, <2>2 DEF Awaited
  <2>7. CallsForm'
    BY <1>2, <1>a, <2>2, <2>4, <2>5, <2>6 DEF RegistryInv, CallsForm, Ids
  <2>8. CreatingIs' /\ InstancesAre' /\ ClosingIs'
    BY <1>0, <1>2, <1>a DEF RegistryInv, CreatingIs, InstancesAre, ClosingIs, Ids
  <2>9. ASSUME NEW m \in ConnectionNames, Sound(m)
        PROVE  /\ AwaitsInstance(m)' /\ ClosesInstance(m)' /\ CachesInstance(m)'
               /\ OpensInstance(m)' /\ StopsInstance(m)'
    <3>1. AwaitsInstance(m)'
      BY <1>0, <1>2, <2>2, <2>3, <2>9 DEF Sound, AwaitsInstance, InstanceOf
    <3> QED BY <1>0, <1>2, <2>9, <3>1 DEF Sound, ClosesInstance, CachesInstance, OpensInstance,
                                          StopsInstance, InstanceOf, Ids
  <2> QED BY <1>b, <2>1, <2>7, <2>8, <2>9, NamesSound DEF RegistryInv
<1>3. ASSUME n \notin DOMAIN instances \cup DOMAIN creating, n \in ConnectionNames,
             connections' = Append(connections,
                              [name |-> n, state |-> "connecting", handler |-> None]),
             creating' = Put(creating, n, Len(connections) + 1),
             calls' = [calls EXCEPT ![p] = Waiting(n, queue, Len(connections) + 1)]
      PROVE  ManagerInv'
  <2>1. PICK new : new = Len(connections) + 1
    OBVIOUS
  <2>2. PICK c : c = [name |-> n, state |-> "connecting", handler |-> None]
    OBVIOUS
  <2>3. c \in Connection /\ c.name = n /\ c.state = "connecting"
    BY <1>3, <2>2 DEF Connection
  <2>4. /\ connections' \in Seq(Connection) /\ new \notin Ids /\ Ids' = Ids \cup {new}
        /\ connections'[new] = c /\ \A id \in Ids : connections'[id] = connections[id]
    BY <1>3, <1>a, <2>1, <2>2, <2>3, ConnectionAdded DEF RegistryInv
  <2>5. /\ calls'[p].stage = "waiting" /\ calls'[p].name = n /\ calls'[p].conn = new
        /\ DOMAIN calls' = Callers
        /\ \A q \in Callers \ {p} : calls'[q] = calls[q]
    BY <1>3, <1>a, <2>1 DEF Waiting
  <2>6. /\ DOMAIN creating' = DOMAIN creating \cup {n} /\ creating'[n] = new
        /\ \A k \in DOMAIN creating : creating'[k] = creating[k]
    <3>1. creating' = Put(creating, n, new)
      BY <1>3, <2>1
    <3>2. creating' = [k \in DOMAIN creating \cup {n} |-> IF k = n THEN new ELSE creating[k]]
      BY <3>1 DEF Put
    <3> QED BY <1>3, <3>2
  <2> HIDE DEF n
  <2>7. ConnectionsForm'
    BY <2>4, SteadyForm
  <2>8. CreatingIs'
    <3>1. ASSUME NEW k \in DOMAIN creating'
          PROVE  /\ creating'[k] \in Ids' /\ connections'[creating'[k]].name = k
                 /\ connections'[creating'[k]].state = "connecting"
      <4>1. CASE k = n
        BY <2>3, <2>4, <2>6, <4>1
      <4>2. CASE k # n
        BY <1>a, <2>4, <2>6, <3>1, <4>2 DEF RegistryInv, CreatingIs
      <4> QED BY <4>1, <4>2
    <3>2. ASSUME NEW id \in Ids', connections'[id].state = "connecting"
          PROVE  connections'[id].name \in DOMAIN creating' /\ creating'[connections'[id].name] = id
      <4>1. CASE id = new
        BY <2>3, <2>4, <2>6, <4>1
      <4>2. CASE id # new
        BY <1>a, <2>4, <2>6, <3>2, <4>2 DEF RegistryInv, CreatingIs
      <4> QED BY <4>1, <4>2
    <3> QED BY <3>1, <3>2 DEF CreatingIs
  <2>9. InstancesAre' /\ ClosingIs'
    <3>1. InstancesAre'
      BY <1>0, <1>3, <1>a, <2>4, <2>6 DEF RegistryInv, InstancesAre
    <3>2. ClosingIs'
      BY <1>0, <1>a, <2>4 DEF RegistryInv, ClosingIs
    <3> QED BY <3>1, <3>2
  <2>10. \A q \in Callers : Awaits(q)'
    BY <1>0, <1>a, <2>3, <2>4, <2>5 DEF RegistryInv, CallsForm, Awaits
  <2>11. Awaited(new)' /\ \A id \in Ids : Awaited(id) => Awaited(id)'
    BY <1>0, <2>5 DEF Awaited
  <2>12. CallsForm'
    BY <1>a, <2>4, <2>5, <2>10, <2>11 DEF RegistryInv, CallsForm
  <2>13. ASSUME NEW m \in ConnectionNames, Sound(m)
         PROVE  /\ AwaitsInstance(m)' /\ ClosesInstance(m)' /\ CachesInstance(m)'
                /\ OpensInstance(m)' /\ StopsInstance(m)'
    <3>1. AwaitsInstance(m)'
      BY <1>0, <1>a, <2>3, <2>4, <2>5, <2>13
         DEF RegistryInv, CallsForm, Awaits, Sound, AwaitsInstance, InstanceOf
    <3>2. OpensInstance(m)'
      BY <1>0, <2>3, <2>4, <2>13 DEF Sound, OpensInstance, InstanceOf
    <3> QED BY <1>0, <2>13, <3>1, <3>2 DEF Sound, ClosesInstance, CachesInstance, StopsInstance,
                                          InstanceOf
  <2> QED BY <1>b, <2>7, <2>8, <2>9, <2>12, <2>13, NamesSound DEF RegistryInv
<1>4. CASE queue # None /\ Key(n, queue) \in DOMAIN handles
  <2>1. PICK call : call = [stage |-> "done", name |-> n, queue |-> queue,
                            got |-> handles[Key(n, queue)]]
    OBVIOUS
  <2>2. call.stage # "waiting"
    BY <2>1
  <2> QED BY <1>1, <1>4, <2>1, <2>2 DEF Ask
<1>5. CASE ~(queue # None /\ Key(n, queue) \in DOMAIN handles)
  <2>1. Lookup(p, n, queue)
    BY <1>5 DEF Ask
  <2> HIDE DEF n
  <2>2. CASE n \in DOMAIN instances \cup DOMAIN creating
    BY <1>2, <2>1, <2>2 DEF Lookup
  <2>3. CASE n \notin DOMAIN instances \cup DOMAIN creating /\ Unconnectable(n) = "no"
    <3>1. n \in ConnectionNames
      BY <2>3 DEF Unconnectable
    <3> QED BY <1>3, <2>1, <2>3, <3>1 DEF Lookup
  <2>4. CASE n \notin DOMAIN instances \cup DOMAIN creating /\ Unconnectable(n) # "no"
    <3>1. PICK call : call = [stage |-> "failed", why |-> Unconnectable(n)]
      OBVIOUS
    <3>2. call.stage # "waiting"
      BY <3>1
    <3> QED BY <1>1, <2>1, <2>4, <3>1, <3>2 DEF Lookup
  <2> QED BY <2>2, <2>3, <2>4
<1> QED BY <1>4, <1>5

(* The end of connect().  Somebody waits for it: if its name is being      *)
(* disconnected or the module destroyed, that has crossed.                 *)
LEMMA ConnectedStep ==
  ASSUME ManagerInv, Steady, Noted, NEW id \in Ids, Connected(id) PROVE ManagerInv'
<1>n. PICK n : n = connections[id].name
  OBVIOUS
<1>0. RegistryInv
  BY DEF ManagerInv
<1>1. /\ connections[id].state = "connecting" /\ Becomes(id, "open")
      /\ instances' = Put(instances, n, id) /\ creating' = Without(creating, {n})
      /\ UNCHANGED <<handles, calls, closing, stopping>>
  BY <1>0, <1>n, ConnectionEdited DEF RegistryInv, Connected
<1>2. n \in DOMAIN creating /\ creating[n] = id /\ n \notin DOMAIN instances
  BY <1>0, <1>1, <1>n DEF RegistryInv, CreatingIs, InstancesAre
<1>3. /\ DOMAIN instances' = DOMAIN instances \cup {n} /\ instances'[n] = id
      /\ \A k \in DOMAIN instances : instances'[k] = instances[k]
  BY <1>1, <1>2 DEF Put
<1>4. /\ DOMAIN creating' = DOMAIN creating \ {n}
      /\ \A k \in DOMAIN creating \ {n} : creating'[k] = creating[k]
  BY <1>1 DEF Without
<1>5. /\ Ids' = Ids /\ connections'[id].name = n /\ connections'[id].state = "open"
      /\ \A other \in Ids \ {id} : connections'[other] = connections[other]
  BY <1>1, <1>n DEF Becomes
<1>6. ConnectionsForm'
  BY <1>1, SteadyForm DEF Becomes
<1>7. LookedUp(n)
  BY <1>0, <1>1, <1>n DEF RegistryInv, CallsForm, Awaited, Awaits, LookedUp
<1>8. CreatingIs'
  BY <1>0, <1>2, <1>4, <1>5, <1>n DEF RegistryInv, CreatingIs
<1>9. InstancesAre'
  BY <1>0, <1>1, <1>2, <1>3, <1>4, <1>5, <1>n DEF RegistryInv, InstancesAre
<1>10. CallsForm'
  <2>1. \A p \in Callers : Awaits(p)'
    BY <1>0, <1>1, <1>5, <1>n DEF RegistryInv, CallsForm, Awaits
  <2> QED BY <1>0, <1>1, <1>5, <1>n, <2>1 DEF RegistryInv, CallsForm, Awaited
<1>11. ClosingIs'
  BY <1>0, <1>1, <1>5, <1>n DEF RegistryInv, ClosingIs
<1>12. Late' /\ HandlesNamed'
  BY <1>0, <1>1 DEF RegistryInv, Steady, Late, HandlesNamed, ConnectionNames
<1>13. ASSUME NEW m \in ConnectionNames, Sound(m)
       PROVE  /\ AwaitsInstance(m)' /\ ClosesInstance(m)' /\ CachesInstance(m)'
              /\ OpensInstance(m)' /\ StopsInstance(m)'
  <2>1. \A other : InstanceOf(m, other) => InstanceOf(m, other)'
    BY <1>3 DEF InstanceOf
  <2>2. InstanceOf(n, id)'
    BY <1>3 DEF InstanceOf
  <2>3. AwaitsInstance(m)'
    BY <1>0, <1>1, <1>5, <1>n, <1>13, <2>1, <2>2
       DEF RegistryInv, CallsForm, Awaits, Sound, AwaitsInstance
  <2>4. CachesInstance(m)'
    BY <1>1, <1>13, <2>1 DEF Sound, CachesInstance
  <2>5. OpensInstance(m)'
    BY <1>5, <1>n, <1>13, <2>1, <2>2 DEF Sound, OpensInstance
  <2>6. CASE m = n
    <3>1. ~Closing(m) /\ stopping = "no"
      BY <1>7, <1>13, <2>6 DEF Sound, Crosses
    <3>2. ClosesInstance(m)' /\ StopsInstance(m)'
      BY <1>1, <3>1 DEF ClosesInstance, StopsInstance, Closing
    <3> QED BY <2>3, <2>4, <2>5, <3>2
  <2>7. CASE m # n
    <3>1. m \in DOMAIN instances' <=> m \in DOMAIN instances
      BY <1>3, <2>7
    <3>2. m \in DOMAIN instances => instances'[m] = instances[m]
      BY <1>3
    <3>3. ClosesInstance(m)' /\ StopsInstance(m)'
      BY <1>1, <1>13, <3>1, <3>2 DEF Sound, ClosesInstance, StopsInstance
    <3> QED BY <2>3, <2>4, <2>5, <3>3
  <2> QED BY <2>6, <2>7
<1> QED BY <1>6, <1>8, <1>9, <1>10, <1>11, <1>12, <1>13, NamesSound DEF RegistryInv

LEMMA ConnectFailsStep ==
  ASSUME ManagerInv, Steady, Noted, NEW id \in Ids, ConnectFails(id) PROVE ManagerInv'
<1>n. PICK n : n = connections[id].name
  OBVIOUS
<1>0. RegistryInv
  BY DEF ManagerInv
<1>1. /\ connections[id].state = "connecting" /\ Becomes(id, "failed")
      /\ creating' = Without(creating, {n})
      /\ UNCHANGED <<instances, handles, calls, closing, stopping>>
  BY <1>0, <1>n, ConnectionEdited DEF RegistryInv, ConnectFails
<1>2. n \in DOMAIN creating /\ creating[n] = id /\ n \notin DOMAIN instances
  BY <1>0, <1>1, <1>n DEF RegistryInv, CreatingIs, InstancesAre
<1>4. /\ DOMAIN creating' = DOMAIN creating \ {n}
      /\ \A k \in DOMAIN creating \ {n} : creating'[k] = creating[k]
  BY <1>1 DEF Without
<1>5. /\ Ids' = Ids /\ connections'[id].name = n /\ connections'[id].state = "failed"
      /\ \A other \in Ids \ {id} : connections'[other] = connections[other]
  BY <1>1, <1>n DEF Becomes
<1>6. ConnectionsForm'
  BY <1>1, SteadyForm DEF Becomes
<1>7. CreatingIs'
  BY <1>0, <1>2, <1>4, <1>5, <1>n DEF RegistryInv, CreatingIs
<1>8. InstancesAre'
  BY <1>0, <1>1, <1>2, <1>4, <1>5, <1>n DEF RegistryInv, InstancesAre
<1>9. CallsForm'
  <2>1. \A p \in Callers : Awaits(p)'
    BY <1>0, <1>1, <1>5, <1>n DEF RegistryInv, CallsForm, Awaits
  <2> QED BY <1>0, <1>1, <1>5, <1>n, <2>1 DEF RegistryInv, CallsForm, Awaited
<1>10. ClosingIs'
  BY <1>0, <1>1, <1>5, <1>n DEF RegistryInv, ClosingIs
<1>11. Late' /\ HandlesNamed'
  BY <1>0, <1>1 DEF RegistryInv, Steady, Late, HandlesNamed, ConnectionNames
<1>12. ASSUME NEW m \in ConnectionNames, Sound(m)
       PROVE  /\ AwaitsInstance(m)' /\ ClosesInstance(m)' /\ CachesInstance(m)'
              /\ OpensInstance(m)' /\ StopsInstance(m)'
  <2>1. AwaitsInstance(m)'
    BY <1>0, <1>1, <1>5, <1>n, <1>12
       DEF RegistryInv, CallsForm, Awaits, Sound, AwaitsInstance, InstanceOf
  <2>2. OpensInstance(m)'
    BY <1>1, <1>5, <1>n, <1>12 DEF Sound, OpensInstance, InstanceOf
  <2> QED BY <1>1, <1>12, <2>1, <2>2 DEF Sound, ClosesInstance, CachesInstance, StopsInstance,
                                         InstanceOf
<1> QED BY <1>6, <1>7, <1>8, <1>9, <1>10, <1>11, <1>12, NamesSound DEF RegistryInv

(* What was read before the await still holds after it, for a name that no *)
(* disconnect has crossed: the connection that the call waited for is the  *)
(* instance of its name, or was refused.                                   *)
LEMMA AnswerStep ==
  ASSUME ManagerInv, Steady, Noted, NEW p \in Callers, Answer(p) PROVE ManagerInv'
<1>0. RegistryInv
  BY DEF ManagerInv
<1>1. /\ calls[p].stage = "waiting" /\ connections[calls[p].conn].state # "connecting"
      /\ UNCHANGED <<config, connections, instances, creating, closing, stopping>>
  BY DEF Answer
<1>2. PICK call : /\ calls' = [calls EXCEPT ![p] = call]
                  /\ call.stage \in {"failed", "done"}
  <2>1. CASE connections[calls[p].conn].state = "failed"
    <3>1. PICK call : call = [stage |-> "failed", why |-> "connect"]
      OBVIOUS
    <3>2. calls' = [calls EXCEPT ![p] = call] /\ call.stage \in {"failed", "done"}
      BY <2>1, <3>1 DEF Answer
    <3> QED BY <3>2
  <2>2. CASE connections[calls[p].conn].state # "failed"
    <3>1. PICK call : call = [stage |-> "done", name |-> calls[p].name, queue |-> calls[p].queue,
                              got |-> [conn |-> calls[p].conn, queue |-> calls[p].queue]]
      OBVIOUS
    <3>2. calls' = [calls EXCEPT ![p] = call] /\ call.stage \in {"failed", "done"}
      BY <2>2, <3>1 DEF Answer
    <3> QED BY <3>2
  <2> QED BY <2>1, <2>2
<1>3. /\ DOMAIN calls' = Callers /\ calls'[p] = call /\ calls'[p].stage # "waiting"
      /\ \A q \in Callers \ {p} : calls'[q] = calls[q]
  BY <1>0, <1>2 DEF RegistryInv, CallsForm
<1>4. ConnectionsForm'
  BY <1>0, <1>1, SteadyForm DEF RegistryInv, ConnectionsForm
<1>5. CreatingIs' /\ InstancesAre' /\ ClosingIs' /\ Late'
  BY <1>0, <1>1 DEF RegistryInv, Steady, CreatingIs, InstancesAre, ClosingIs, Late, Ids
<1>6. CallsForm'
  <2>1. \A q \in Callers : Awaits(q)'
    BY <1>0, <1>1, <1>3 DEF RegistryInv, CallsForm, Awaits, Ids
  <2>2. \A id \in Ids : connections[id].state = "connecting" => Awaited(id)'
    BY <1>0, <1>1, <1>3 DEF RegistryInv, CallsForm, Awaited
  <2> QED BY <1>1, <1>3, <2>1, <2>2 DEF CallsForm, Ids
<1>7. PICK n, conn : /\ n = calls[p].name /\ conn = calls[p].conn
                     /\ conn \in Ids /\ connections[conn].name = n
  BY <1>0, <1>1 DEF RegistryInv, CallsForm, Awaits
<1>8. \/ handles' = handles
      \/ \E handle, key : /\ handles' = Put(handles, key, handle)
                          /\ handle.conn = conn /\ handle.queue = key[2] /\ key[1] = n
                          /\ connections[conn].state \notin {"connecting", "failed"}
  <2>1. PICK key, handle : /\ key = <<n, calls[p].queue>>
                           /\ handle = [conn |-> conn, queue |-> calls[p].queue]
    OBVIOUS
  <2>2. CASE handles' # handles
    <3>1. handles' = Put(handles, key, handle) /\ connections[conn].state # "failed"
      BY <1>7, <2>1, <2>2 DEF Answer, Key
    <3> QED BY <1>1, <1>7, <2>1, <3>1
  <2> QED BY <2>2
<1>9. \A key \in DOMAIN handles' :
        \/ key \in DOMAIN handles /\ handles'[key] = handles[key]
        \/ /\ handles'[key].conn = conn /\ handles'[key].queue = key[2] /\ key[1] = n
           /\ connections[conn].state \notin {"connecting", "failed"}
  <2>1. CASE handles' = handles
    BY <2>1
  <2>2. CASE handles' # handles
    <3>1. PICK handle, key : /\ handles' = Put(handles, key, handle)
                             /\ handle.conn = conn /\ handle.queue = key[2] /\ key[1] = n
                             /\ connections[conn].state \notin {"connecting", "failed"}
      BY <1>8, <2>2
    <3>2. handles' = [k \in DOMAIN handles \cup {key} |-> IF k = key THEN handle ELSE handles[k]]
      BY <3>1 DEF Put
    <3>3. \A k \in DOMAIN handles' : k # key => k \in DOMAIN handles /\ handles'[k] = handles[k]
      BY <3>2
    <3>4. key \in DOMAIN handles' => handles'[key] = handle
      BY <3>2
    <3> QED BY <3>1, <3>3, <3>4
  <2> QED BY <2>1, <2>2
<1>10. n \in ConnectionNames
  BY <1>0, <1>7, ConnectionType DEF RegistryInv
<1>11. HandlesNamed'
  BY <1>0, <1>1, <1>9, <1>10 DEF RegistryInv, HandlesNamed, ConnectionNames
<1>12. ASSUME NEW m \in ConnectionNames, Sound(m)
       PROVE  /\ AwaitsInstance(m)' /\ ClosesInstance(m)' /\ CachesInstance(m)'
              /\ OpensInstance(m)' /\ StopsInstance(m)'
  <2>1. AwaitsInstance(m)'
    BY <1>1, <1>3, <1>12 DEF Sound, AwaitsInstance, InstanceOf
  <2>2. m = n => \/ connections[conn].state \in {"connecting", "failed"}
                 \/ InstanceOf(m, conn)
    BY <1>1, <1>7, <1>12 DEF Sound, AwaitsInstance
  <2>3. CachesInstance(m)'
    BY <1>1, <1>9, <1>12, <2>2 DEF Sound, CachesInstance, InstanceOf
  <2> QED BY <1>1, <1>12, <2>1, <2>3 DEF Sound, ClosesInstance, OpensInstance, StopsInstance,
                                         InstanceOf, Ids
<1> QED BY <1>4, <1>5, <1>6, <1>11, <1>12, NamesSound DEF RegistryInv

(* A disconnect() or onModuleDestroy() calls close() on instances.         *)
Closes ==
  /\ OnlyHandlers
  /\ UNCHANGED <<instances, creating, handles, calls>>
  /\ closing \subseteq closing'
  /\ \A d \in closing' \ closing : d.name \in DOMAIN instances /\ d.conn = instances[d.name]
  /\ phase \in {"up", "stopped"}
  /\ \/ stopping' = stopping
     \/ /\ stopping' = "disconnecting"
        /\ \A name \in DOMAIN instances :
             \E d \in closing' : d.by = "onModuleDestroy" /\ d.name = name

LEMMA ClosesStep == ASSUME ManagerInv, Steady, Noted, Closes PROVE ManagerInv'
<1>0. RegistryInv
  BY DEF ManagerInv
<1>1. ConnectionsForm'
  BY SteadyForm DEF Closes, OnlyHandlers
<1>2. CreatingIs' /\ InstancesAre' /\ HandlesNamed'
  BY <1>0 DEF RegistryInv, Closes, OnlyHandlers, CreatingIs, InstancesAre, HandlesNamed, Steady,
              ConnectionNames
<1>3. CallsForm'
  BY <1>0 DEF RegistryInv, Closes, OnlyHandlers, CallsForm, Awaits, Awaited
<1>4. Late'
  BY <1>0 DEF RegistryInv, Closes, Steady, Late
<1>5. ClosingIs'
  <2>1. ASSUME NEW d \in closing' \ closing
        PROVE  /\ d.conn \in Ids' /\ connections'[d.conn].name = d.name
               /\ connections'[d.conn].state \in {"open", "closed"}
    BY <1>0 DEF RegistryInv, Closes, OnlyHandlers, InstancesAre
  <2>2. ASSUME NEW d \in closing
        PROVE  /\ d.conn \in Ids' /\ connections'[d.conn].name = d.name
               /\ connections'[d.conn].state \in {"open", "closed"}
    BY <1>0 DEF RegistryInv, Closes, OnlyHandlers, ClosingIs
  <2> QED BY <2>1, <2>2 DEF ClosingIs
<1>6. ASSUME NEW m \in ConnectionNames, Sound(m)
      PROVE  /\ AwaitsInstance(m)' /\ ClosesInstance(m)' /\ CachesInstance(m)'
             /\ OpensInstance(m)' /\ StopsInstance(m)'
  <2>1. AwaitsInstance(m)'
    BY <1>0, <1>6 DEF RegistryInv, CallsForm, Awaits, Sound, Closes, OnlyHandlers,
                      AwaitsInstance, InstanceOf
  <2>2. ClosesInstance(m)'
    BY <1>6 DEF Sound, Closes, ClosesInstance
  <2>3. CachesInstance(m)' /\ OpensInstance(m)'
    BY <1>6 DEF Sound, Closes, OnlyHandlers, CachesInstance, OpensInstance, InstanceOf
  <2>4. StopsInstance(m)'
    BY <1>6 DEF Sound, Closes, StopsInstance
  <2> QED BY <2>1, <2>2, <2>3, <2>4
<1> QED BY <1>1, <1>2, <1>3, <1>4, <1>5, <1>6, NamesSound DEF RegistryInv

LEMMA DisconnectBeginsCloses ==
  ASSUME ConnectionsForm, NEW by, NEW name, DisconnectBegins(by, name), phase = "up"
  PROVE  Closes
<1>1. PICK d : d = [by |-> by, name |-> name, conn |-> instances[name]]
  OBVIOUS
<1>2. /\ closing' = closing \cup {d} /\ d.name = name /\ d.conn = instances[name]
      /\ name \in DOMAIN instances
      /\ UNCHANGED <<instances, creating, handles, calls, stopping>>
  BY <1>1 DEF DisconnectBegins
<1>3. OnlyHandlers
  BY CloseCalledIs DEF DisconnectBegins
<1> QED BY <1>2, <1>3 DEF Closes

LEMMA DestroyBeginsCloses ==
  ASSUME ConnectionsForm, DestroyBegins, phase \in {"up", "stopped"}
  PROVE  Closes
<1> DEFINE closes(name) == [by |-> "onModuleDestroy", name |-> name, conn |-> instances[name]]
<1>1. /\ closing' = closing \cup {closes(name) : name \in DOMAIN instances}
      /\ stopping' = "disconnecting"
      /\ UNCHANGED <<instances, creating, handles, calls>>
  BY DEF DestroyBegins, ActiveNames
<1>2. ASSUME NEW d \in closing' \ closing
      PROVE  d.name \in DOMAIN instances /\ d.conn = instances[d.name]
  <2>1. PICK name \in DOMAIN instances : d = closes(name)
    BY <1>1, <1>2
  <2> QED BY <2>1
<1>3. ASSUME NEW name \in DOMAIN instances
      PROVE  \E d \in closing' : d.by = "onModuleDestroy" /\ d.name = name
  <2>1. PICK d : d = closes(name)
    OBVIOUS
  <2>2. d \in closing' /\ d.by = "onModuleDestroy" /\ d.name = name
    BY <1>1, <2>1
  <2> QED BY <2>2
<1>4. OnlyHandlers
  BY CloseCalledIs DEF DestroyBegins
<1>5. closing \subseteq closing'
  BY <1>1
<1> HIDE DEF closes
<1> QED BY <1>1, <1>2, <1>3, <1>4, <1>5 DEF Closes

LEMMA DisconnectEndsStep ==
  ASSUME ManagerInv, Steady, Noted, NEW d \in closing, DisconnectEnds(d) PROVE ManagerInv'
<1>0. RegistryInv
  BY DEF ManagerInv
<1>1. /\ d.conn \in Ids /\ connections[d.conn].name = d.name
      /\ connections[d.conn].state \in {"open", "closed"}
  BY <1>0 DEF RegistryInv, ClosingIs
<1>2. Becomes(d.conn, "closed")
  BY <1>0, <1>1, ConnectionEdited DEF RegistryInv, DisconnectEnds
<1>3. PICK id, n : id = d.conn /\ n = d.name
  OBVIOUS
<1>4. /\ Ids' = Ids /\ id \in Ids /\ connections[id].name = n
      /\ connections'[id].name = n /\ connections'[id].state = "closed"
      /\ connections[id].state \in {"open", "closed"}
      /\ \A other \in Ids \ {id} : connections'[other] = connections[other]
  BY <1>1, <1>2, <1>3 DEF Becomes
<1>5. /\ closing' = closing \ {d} /\ UNCHANGED <<creating, calls, stopping>>
      /\ DOMAIN instances' = DOMAIN instances \ {n}
      /\ \A k \in DOMAIN instances \ {n} : instances'[k] = instances[k]
  BY <1>3 DEF DisconnectEnds, Without
<1>6. \A key \in DOMAIN handles' : key \in DOMAIN handles /\ key[1] # n /\ handles'[key] = handles[key]
  BY <1>3 DEF DisconnectEnds, DropHandles, Without
<1>7. ConnectionsForm'
  BY <1>2, SteadyForm DEF Becomes
<1>8. CreatingIs'
  BY <1>0, <1>4, <1>5 DEF RegistryInv, CreatingIs
<1>9. InstancesAre'
  BY <1>0, <1>4, <1>5 DEF RegistryInv, InstancesAre
<1>10. CallsForm'
  <2>1. \A p \in Callers : Awaits(p)'
    BY <1>0, <1>4, <1>5 DEF RegistryInv, CallsForm, Awaits
  <2> QED BY <1>0, <1>4, <1>5, <2>1 DEF RegistryInv, CallsForm, Awaited
<1>11. ClosingIs'
  BY <1>0, <1>4, <1>5 DEF RegistryInv, ClosingIs
<1>12. Late' /\ HandlesNamed'
  BY <1>0, <1>5, <1>6 DEF RegistryInv, Steady, Late, HandlesNamed, ConnectionNames
<1>13. ASSUME NEW m \in ConnectionNames, Sound(m), ~Crosses(m)
       PROVE  /\ AwaitsInstance(m)' /\ ClosesInstance(m)' /\ CachesInstance(m)'
              /\ OpensInstance(m)' /\ StopsInstance(m)'
  <2>1. m # n => \A other : InstanceOf(m, other) => InstanceOf(m, other)'
    BY <1>5 DEF InstanceOf
  <2>2. AwaitsInstance(m)'
    <3>1. ASSUME m = n, NEW p \in Callers, calls[p].stage = "waiting" PROVE calls[p].name # m
      <4>1. Closing(m)
        BY <1>3, <3>1 DEF Closing
      <4>2. ~LookedUp(m)
        BY <1>13, <4>1 DEF Crosses
      <4> QED BY <3>1, <4>2 DEF LookedUp
    <3> QED BY <1>0, <1>4, <1>5, <1>13, <2>1, <3>1
            DEF RegistryInv, CallsForm, Awaits, Sound, AwaitsInstance
  <2>3. ClosesInstance(m)'
    BY <1>5, <1>13 DEF Sound, ClosesInstance
  <2>4. CachesInstance(m)'
    BY <1>6, <1>13, <2>1 DEF Sound, CachesInstance
  <2>5. OpensInstance(m)'
    <3>1. \A other \in Ids : connections[other].name = n /\ connections[other].state = "open"
                             /\ m = n => other = id
      BY <1>3, <1>13 DEF Sound, OpensInstance, ClosesInstance, InstanceOf
    <3> QED BY <1>4, <1>13, <2>1, <3>1 DEF Sound, OpensInstance
  <2>6. StopsInstance(m)'
    BY <1>3, <1>5, <1>13 DEF Sound, StopsInstance
  <2> QED BY <2>2, <2>3, <2>4, <2>5, <2>6
<1> QED BY <1>7, <1>8, <1>9, <1>10, <1>11, <1>12, <1>13, NamesSound DEF RegistryInv

LEMMA DestroyEndsStep == ASSUME ManagerInv, Steady, Noted, DestroyEnds PROVE ManagerInv'
<1>0. RegistryInv
  BY DEF ManagerInv
<1>1. /\ stopping = "disconnecting" /\ (\A d \in closing : d.by # "onModuleDestroy")
      /\ instances' = NoMap /\ handles' = NoMap /\ stopping' = "destroyed"
      /\ UNCHANGED <<connections, creating, calls, closing>>
  BY DEF DestroyEnds
<1>2. DOMAIN NoMap = {}
  BY DEF NoMap
<1>3. phase \in {"up", "stopped"}
  BY <1>0, <1>1 DEF RegistryInv, Late
<1>4. ConnectionsForm'
  BY <1>0, <1>1, SteadyForm DEF RegistryInv, ConnectionsForm
<1>5. CreatingIs' /\ InstancesAre' /\ ClosingIs'
  BY <1>0, <1>1, <1>2 DEF RegistryInv, CreatingIs, InstancesAre, ClosingIs, Ids
<1>6. CallsForm'
  BY <1>0, <1>1 DEF RegistryInv, CallsForm, Awaits, Awaited, Ids
<1>7. Late' /\ HandlesNamed'
  BY <1>1, <1>2, <1>3 DEF Steady, Late, HandlesNamed
<1>8. ASSUME NEW m \in ConnectionNames, Sound(m), ~Crosses(m)
      PROVE  /\ AwaitsInstance(m)' /\ ClosesInstance(m)' /\ CachesInstance(m)'
             /\ OpensInstance(m)' /\ StopsInstance(m)'
  <2>1. \A p \in Callers : ~(calls[p].stage = "waiting" /\ calls[p].name = m)
    BY <1>1, <1>8 DEF Crosses, LookedUp
  <2>2. m \notin DOMAIN instances
    BY <1>1, <1>8 DEF Sound, StopsInstance
  <2>3. \A id \in Ids : ~(connections[id].name = m /\ connections[id].state = "open")
    BY <1>8, <2>2 DEF Sound, OpensInstance, InstanceOf
  <2> QED BY <1>1, <1>2, <2>1, <2>3 DEF AwaitsInstance, ClosesInstance, CachesInstance,
                                        OpensInstance, StopsInstance, Ids
<1> QED BY <1>4, <1>5, <1>6, <1>7, <1>8, NamesSound DEF RegistryInv

-----------------------------------------------------------------------------
LEMMA ManagerInitial == ApplicationInit => ManagerInv
<1> SUFFICES ASSUME ApplicationInit PROVE ManagerInv
  OBVIOUS
<1>1. /\ connections = <<>> /\ at = 1 /\ instances = NoMap /\ creating = NoMap /\ handles = NoMap
      /\ calls = [p \in Callers |-> Idle] /\ closing = {} /\ stopping = "no"
  BY DEF ApplicationInit, ManagerInit
<1>2. Ids = {} /\ DOMAIN NoMap = {} /\ \A p \in Callers : calls[p].stage # "waiting"
  BY <1>1 DEF Ids, NoMap, Idle
<1>3. ConnectionsForm
  BY <1>1 DEF ConnectionsForm
<1>4. CreatingIs /\ InstancesAre /\ HandlesNamed
  BY <1>1, <1>2 DEF CreatingIs, InstancesAre, HandlesNamed
<1>5. CallsForm /\ ClosingIs /\ Late
  BY <1>1, <1>2 DEF CallsForm, Awaits, ClosingIs, Late
<1>6. \A name : Sound(name)
  BY <1>1, <1>2 DEF Sound, Crosses, LookedUp, AwaitsInstance, ClosesInstance, CachesInstance,
                    OpensInstance, StopsInstance
<1> QED BY <1>3, <1>4, <1>5, <1>6 DEF ManagerInv, RegistryInv

(* A step that touches nothing the manager knows is quiet.                 *)
LEMMA Untouched ==
  ASSUME ManagerInv, UNCHANGED <<connections, instances, creating, handles, closing, stopping>>,
         \/ calls' = calls
         \/ \E p \in Callers : /\ calls[p].stage # "waiting"
                               /\ calls' = [calls EXCEPT ![p] = Idle]
  PROVE  Quiet
  BY DEF ManagerInv, RegistryInv, ConnectionsForm, Quiet, OnlyHandlers, Ids

LEMMA BootSteady ==
  ASSUME at \in Nat, Boot
  PROVE  Steady /\ phase \in {"providing", "warming", "bootstrapping", "subscribing"}
<1>1. at' \in {at, 1, at + 1} /\ config' = config
  BY DEF Boot, Fails, ProvideRegistration, ProvideBegins, ProvideEnds, ModuleProvided,
         WarmBegins, WarmEnds, SkipsProvider, RegisterBegins, RegisterEnds,
         RegisterEventListeners, BootstrapEnds, Advance, Ask, managerVars, appVars
<1>2. phase \in {"providing", "warming", "bootstrapping", "subscribing"}
  BY DEF Boot, Fails, ProvideRegistration, ProvideBegins, ProvideEnds, ModuleProvided,
         HasProvider, WarmBegins, WarmEnds, SkipsProvider, RegisterBegins, RegisterEnds,
         RegisterEventListeners, BootstrapEnds
<1> QED BY <1>1, <1>2 DEF Steady

LEMMA BootStep == ASSUME ManagerInv, Boot, Noted PROVE ManagerInv'
<1> Container \in Callers
  BY ApplicationAssumption
<1> ConnectionsForm /\ at \in Nat
  BY DEF ManagerInv, RegistryInv, ConnectionsForm
<1>c. Steady
  BY BootSteady
<1>1. CASE \/ Fails \/ ProvideRegistration \/ ProvideEnds \/ ModuleProvided \/ WarmEnds
           \/ SkipsProvider \/ RegisterEventListeners \/ BootstrapEnds
  <2>1. /\ UNCHANGED <<connections, instances, creating, handles, closing, stopping>>
        /\ \/ calls' = calls
           \/ calls[Container].stage # "waiting" /\ calls' = [calls EXCEPT ![Container] = Idle]
    BY <1>1 DEF Fails, ProvideRegistration, ProvideEnds, ModuleProvided, WarmEnds,
                SkipsProvider, RegisterEventListeners, BootstrapEnds, Taken, ContainerAnswer,
                managerVars
  <2> QED BY <1>c, <2>1, Untouched, QuietStep
<1>2. CASE ProvideBegins
  BY <1>2, <1>c, AskStep DEF ProvideBegins
<1>3. CASE WarmBegins
  <2>1. CASE defaultName \in ConnectionNames
    BY <1>3, <1>c, <2>1, AskStep DEF WarmBegins
  <2>2. CASE defaultName \notin ConnectionNames
    BY <1>3, <1>c, <2>2, Untouched, QuietStep DEF WarmBegins, managerVars
  <2> QED BY <2>1, <2>2
<1>4. CASE RegisterBegins
  <2>1. CASE Processors[at].isHost
    BY <1>4, <1>c, <2>1, AskStep DEF RegisterBegins
  <2>2. CASE ~Processors[at].isHost
    BY <1>4, <1>c, <2>2, Untouched, QuietStep DEF RegisterBegins, managerVars
  <2> QED BY <2>1, <2>2
<1>5. CASE RegisterEnds
  <2>1. /\ UNCHANGED <<instances, creating, handles, closing, stopping>>
        /\ calls[Container].stage # "waiting" /\ calls' = [calls EXCEPT ![Container] = Idle]
    BY <1>5 DEF RegisterEnds, ContainerAnswer, Taken
  <2>2. CASE UNCHANGED connections
    BY <1>c, <2>1, <2>2, Untouched, QuietStep
  <2>3. ASSUME NEW id, connections' = [connections EXCEPT ![id].handler = at], id \in Ids
        PROVE  ManagerInv'
    <3>1. Becomes(id, connections[id].state)
      BY <2>3, ConnectionEdited
    <3>2. Quiet
      BY <2>1, <2>3, <3>1 DEF Becomes, Quiet, OnlyHandlers
    <3> QED BY <1>c, <3>2, QuietStep
  <2>4. ASSUME NEW id, connections' = [connections EXCEPT ![id].handler = at], id \notin Ids
        PROVE  connections' = connections
    BY <2>4, LenProperties DEF ConnectionsForm, Ids
  <2> QED BY <1>5, <2>2, <2>3, <2>4 DEF RegisterEnds
<1> QED BY <1>1, <1>2, <1>3, <1>4, <1>5 DEF Boot

LEMMA ManagerStepStep ==
  ASSUME ManagerInv, ManagerStep, UNCHANGED appVars, Noted PROVE ManagerInv'
<1>1. Steady
  <2>1. config' = config
    BY DEF ManagerStep, Connected, ConnectFails, Answer, DisconnectEnds, DestroyEnds
  <2> QED BY <2>1 DEF Steady, appVars, ManagerInv, RegistryInv, ConnectionsForm
<1> QED
  BY <1>1, ConnectedStep, ConnectFailsStep, AnswerStep, DisconnectEndsStep, DestroyEndsStep
     DEF ManagerStep

LEMMA OperateStep == ASSUME ManagerInv, Operate, Noted PROVE ManagerInv'
<1> at \in Nat /\ DOMAIN calls = Callers /\ ConnectionsForm
  BY DEF ManagerInv, RegistryInv, ConnectionsForm, CallsForm
<1>1. ASSUME NEW p \in Callers, NEW name, NEW queue, UNCHANGED appVars, Ask(p, name, queue)
      PROVE  ManagerInv'
  <2>1. Steady
    BY <1>1 DEF Steady, appVars, Ask
  <2> QED BY <1>1, <2>1, AskStep
<1>2. CASE UserStep(Callers \ {Container}) /\ UNCHANGED appVars
  <2>1. ASSUME NEW h \in Hooks, Unmount(h) PROVE ManagerInv'
    <3>1. Steady
      BY <1>2, <2>1 DEF Steady, appVars, Unmount, managerVars
    <3> QED BY <2>1, <3>1, Untouched, QuietStep DEF Unmount, managerVars
  <2> QED BY <1>1, <1>2, <2>1 DEF UserStep, Render, Use
<1>3. ASSUME NEW p \in Callers, CallerGoesOn(p), UNCHANGED appVars PROVE ManagerInv'
  <2>1. Steady
    BY <1>3 DEF Steady, appVars, CallerGoesOn
  <2>2. /\ UNCHANGED <<connections, instances, creating, handles, closing, stopping>>
        /\ calls[p].stage # "waiting" /\ calls' = [calls EXCEPT ![p] = Idle]
    BY <1>3 DEF CallerGoesOn
  <2> QED BY <2>1, <2>2, Untouched, QuietStep
<1>4. ASSUME NEW name, SetDefaultInstance(name), UNCHANGED appVars PROVE ManagerInv'
  <2>1. Steady
    BY <1>4 DEF Steady, appVars, SetDefaultInstance
  <2> QED BY <1>4, <2>1, Untouched, QuietStep DEF SetDefaultInstance
<1>5. ASSUME NEW by, NEW name, DisconnectBegins(by, name), phase = "up", UNCHANGED appVars
      PROVE  ManagerInv'
  <2>1. Steady
    BY <1>5 DEF Steady, appVars, DisconnectBegins
  <2> QED BY <1>5, <2>1, DisconnectBeginsCloses, ClosesStep
<1>6. ASSUME DestroyBegins, phase \in {"up", "stopped"}, UNCHANGED appVars PROVE ManagerInv'
  <2>1. Steady
    BY <1>6 DEF Steady, appVars, DestroyBegins
  <2> QED BY <1>6, <2>1, DestroyBeginsCloses, ClosesStep
<1>7. CASE Shutdown \/ ResumeSync \/ \E id \in Ids, lookup \in Lookups : PauseSync(id, lookup.queue)
  <2>1. UNCHANGED managerVars /\ at' = at /\ (phase' = phase \/ phase' = "stopped")
    BY <1>7 DEF Shutdown, ResumeSync, PauseSync
  <2>2. Steady
    BY <2>1 DEF Steady, managerVars
  <2> QED BY <2>1, <2>2, Untouched, QuietStep DEF managerVars
<1> QED BY <1>2, <1>3, <1>4, <1>5, <1>6, <1>7 DEF Operate

LEMMA ConfigStays == [ApplicationNext]_vars => config' = config
<1>1. Boot => config' = config
  BY DEF Boot, Fails, ProvideRegistration, ProvideBegins, ProvideEnds, ModuleProvided,
         WarmBegins, WarmEnds, SkipsProvider, RegisterBegins, RegisterEnds,
         RegisterEventListeners, BootstrapEnds, Ask, managerVars
<1>2. ManagerStep => config' = config
  BY DEF ManagerStep, Connected, ConnectFails, Answer, DisconnectEnds, DestroyEnds
<1>3. Operate => config' = config
  BY DEF Operate, UserStep, Render, Use, Unmount, CallerGoesOn, SetDefaultInstance, Ask,
         DisconnectBegins, DestroyBegins, Shutdown, PauseSync, ResumeSync, managerVars
<1> QED BY <1>1, <1>2, <1>3 DEF ApplicationNext, vars, managerVars

LEMMA ManagerInductive == ManagerInv /\ [ApplicationNext]_vars => ManagerInv'
<1> SUFFICES ASSUME ManagerInv, [ApplicationNext]_vars PROVE ManagerInv'
  OBVIOUS
<1>0. config' = config
  BY ConfigStays
<1>1. CASE UNCHANGED vars
  <2>1. UNCHANGED <<managerVars, phase, at, crossed>>
    BY <1>1 DEF vars, appVars
  <2>2. Steady
    BY <2>1 DEF Steady, managerVars, ManagerInv, RegistryInv, ConnectionsForm
  <2>3. \A name : Crosses(name)' <=> Crosses(name)
    BY <2>1 DEF managerVars, Crosses, LookedUp, Closing
  <2>4. Noted
    BY <2>1, <2>3 DEF Noted, ManagerInv, Sound
  <2> QED BY <2>1, <2>2, <2>4, Untouched, QuietStep DEF managerVars
<1>2. CASE ApplicationNext
  <2>1. Noted
    BY <1>0, <1>2 DEF ApplicationNext, Remembers, Noted, ConnectionNames
  <2> QED BY <1>2, <2>1, BootStep, ManagerStepStep, OperateStep DEF ApplicationNext
<1> QED BY <1>1, <1>2

(* A cached handle is of its queue, and of the connection that is active   *)
(* under its name, although queue() stores it after an await and           *)
(* disconnect() drops it only after one, and however many disconnects of a *)
(* name overlap each other and the shutdown -- except under a name of      *)
(* which a lookup was under way during a disconnect or the shutdown.       *)
THEOREM NoStaleHandleAlways == ApplicationSpec => []NoStaleHandle
<1>1. ManagerInv => NoStaleHandle
  BY DEF ManagerInv, RegistryInv, HandlesNamed, Sound, CachesInstance, InstanceOf, NoStaleHandle
<1> QED BY <1>1, ManagerInitial, ManagerInductive, PTL DEF ApplicationSpec

(* "closes every active connection so process shutdown isn't blocked": an  *)
(* open connection is always the instance of its name, so disconnectAll()  *)
(* finds it, and none is open once the module is destroyed, also when      *)
(* other disconnects were under way at the shutdown -- with the same       *)
(* exception.                                                              *)
THEOREM NoLeakedConnectionAlways == ApplicationSpec => []NoLeakedConnection
<1>1. ASSUME ManagerInv PROVE NoLeakedConnection
  <2> SUFFICES ASSUME NEW id \in Ids, connections[id].state = "open",
                      connections[id].name \notin crossed
               PROVE  /\ connections[id].name \in DOMAIN instances
                      /\ instances[connections[id].name] = id
                      /\ stopping # "destroyed"
    BY DEF NoLeakedConnection
  <2>1. Sound(connections[id].name)
    BY <1>1, ConnectionType DEF ManagerInv, RegistryInv
  <2> QED BY <2>1 DEF Sound, OpensInstance, StopsInstance, InstanceOf
<1> QED BY <1>1, ManagerInitial, ManagerInductive, PTL DEF ApplicationSpec

-----------------------------------------------------------------------------
(* The start of the application, and what refers to a connection, also of  *)
(* a name that has been crossed.                                           *)
Refers(id, name) == id \in Ids /\ connections[id].name = name

Handle(id, queue) == [conn |-> id, queue |-> queue]

HandleForm(key) ==
  /\ key = <<key[1], key[2]>> /\ key[2] \in QueueNames
  /\ Refers(handles[key].conn, key[1])
  /\ handles[key] = Handle(handles[key].conn, key[2])

CallForm(p) ==
  /\ calls[p].stage \in {"idle", "waiting", "done", "failed"}
  /\ calls[p].stage \in {"waiting", "done"} => calls[p].queue \in QueueNames \cup {None}
  /\ calls[p].stage = "waiting" => Refers(calls[p].conn, calls[p].name)
  /\ calls[p].stage = "done" =>
       /\ Refers(calls[p].got.conn, calls[p].name)
       /\ calls[p].got = Handle(calls[p].got.conn, calls[p].queue)

DefaultsForm ==
  defaultName \in ConnectionNames \cup {config.default} /\ connectors \subseteq Drivers

InstancesRefer == \A name \in DOMAIN instances : Refers(instances[name], name)
CreatingRefer == \A name \in DOMAIN creating : Refers(creating[name], name)
ClosingRefer == \A d \in closing : Refers(d.conn, d.name)
HandlesForm == \A key \in DOMAIN handles : HandleForm(key)
CallsRefer == DOMAIN calls = Callers /\ \A p \in Callers : CallForm(p)

RegistryForm ==
  /\ ConnectionsForm /\ DefaultsForm /\ InstancesRefer /\ CreatingRefer
  /\ ClosingRefer /\ HandlesForm /\ CallsRefer

(* Whom the container asks for, while it is at a provider or a processor.  *)
AsksFor(name, queue) ==
  calls[Container].stage \in {"waiting", "done"} =>
    calls[Container].name = Declared(name) /\ calls[Container].queue = queue

FactoryCalls ==
  phase = "providing" /\ ~IsIdle(Container) =>
    /\ HasProvider /\ Providers[at].does # "register"
    /\ AsksFor(Providers[at].name, Providers[at].queue)

LoaderCalls ==
  /\ phase = "bootstrapping" /\ ~IsIdle(Container) =>
       at \in ProviderInstances /\ AsksFor(Processors[at].connection, None)
  /\ phase = "subscribing" => IsIdle(Container)

Bounds ==
  /\ module \in 1..(Len(config.modules) + 1) /\ at \in Nat \ {0}
  /\ phase = "providing" /\ module <= Len(config.modules) => at <= Len(Providers) + 1
  /\ phase \in {"bootstrapping", "subscribing", "up"} => at <= Len(Processors) + 1
  /\ phase = "subscribing" => at \in ProviderInstances
  /\ phase = "up" => at > Len(Processors)
  /\ phase \notin {"providing", "failed", "refused"} => module > Len(config.modules)

StartForm ==
  /\ config \in Configs
  /\ phase \in {"providing", "warming", "bootstrapping", "subscribing", "up", "failed",
                "refused", "stopped"}
  /\ phase \notin {"up", "stopped"} => defaultName = config.default
  /\ Bounds /\ FactoryCalls /\ LoaderCalls

HoldersForm ==
  /\ \A token \in DOMAIN tokens : tokens[token].conn \in Ids
  /\ DOMAIN shown = Hooks
  /\ \A h \in Hooks : shown[h] # None => shown[h].conn \in Ids \cup {0}
  /\ renders \in 0..MaxRenders
  /\ kept = running

StartInv == RegistryForm /\ StartForm /\ HoldersForm

-----------------------------------------------------------------------------
Past(k, j) == k < module \/ (k = module /\ j < at)

Given(provider) ==
  IF provider.does = "register" THEN provider.driver \in connectors
                                ELSE provider.token \in DOMAIN tokens

AllGiven ==
  \A k \in DOMAIN config.modules : \A j \in DOMAIN ProvidersOf(config.modules[k]) :
    Past(k, j) => Given(ProvidersOf(config.modules[k])[j])

AllResolve ==
  \A name \in ConnectionNames \cup {None} :
    /\ Resolves(InjectQueueConnection(name), name, None)
    /\ \A queue \in QueueNames : Resolves(InjectQueue(queue, name), name, queue)

TokensInv == StartInv /\ AllGiven /\ AllResolve

-----------------------------------------------------------------------------
(* The loader: a processor is registered once the loader is past it.       *)
Registered(i) ==
  /\ i \in ProviderInstances
  /\ \/ phase \in {"bootstrapping", "subscribing", "up"} /\ i < at
     \/ phase = "subscribing" /\ i = at

Home(i) == Declared(Processors[i].connection)

WorkersAt(i) == {w \in running : w.is = "worker" /\ w.processor = i}

HandledFrom(i, id) == connections[id].handler \in ProviderInstances /\ connections[id].handler >= i

(* It has its workers on a connection of its name.  Until that name is     *)
(* disconnected this is the active one, and if it is of the sync driver    *)
(* its handler is the processor, or one that was registered later.         *)
Bound(i, id) ==
  /\ Refers(id, Home(i))
  /\ WorkersAt(i) = IF IsSync(id) THEN {} ELSE WorkersOf(i, id)
  /\ \/ WasDisconnected(Home(i))
     \/ stopping = "no" /\ InstanceOf(Home(i), id) /\ (IsSync(id) => HandledFrom(i, id))

ProcessorsBound == \A i \in ProviderInstances : Registered(i) => \E id \in Ids : Bound(i, id)

WorkersBound ==
  /\ phase \in {"bootstrapping", "subscribing", "up"} =>
       \A w \in running : w.is = "worker" => Registered(w.processor)
  /\ phase \in {"providing", "warming", "stopped"} => running = {}

(* A handler is a processor of the connection's name.                      *)
HandlersAre ==
  \A id \in Ids : connections[id].handler # None =>
    connections[id].handler \in ProviderInstances
    /\ Home(connections[id].handler) = connections[id].name

(* What the loader has asked for is the active instance, since no lookup   *)
(* has crossed a disconnect before the application is up.                  *)
AnswerActive ==
  phase = "bootstrapping" /\ calls[Container].stage = "done" =>
    InstanceOf(calls[Container].name, calls[Container].got.conn)

Early == crossed # {} => phase \in {"up", "stopped"}

LoaderInv ==
  /\ ManagerInv /\ StartInv
  /\ ProcessorsBound /\ WorkersBound /\ HandlersAre /\ AnswerActive /\ Early

-----------------------------------------------------------------------------
(* The lists of providers.                                                 *)
IsList(s) == s \in Seq(Range(s))

LEMMA Lists ==
  ASSUME NEW s, IsList(s)
  PROVE  Len(s) \in Nat /\ DOMAIN s = 1..Len(s) /\ \A x \in Range(s) : \E i \in 1..Len(s) : x = s[i]
  BY LenProperties DEF IsList, Range

LEMMA Listed ==
  ASSUME NEW n \in Nat, NEW f, f = [i \in 1..n |-> f[i]]
  PROVE  IsList(f) /\ Len(f) = n
<1>1. f \in [1..n -> Range(f)]
  BY DEF Range
<1>2. \A S : f \in [1..n -> S] => f \in Seq(S) /\ Len(f) = n
  OBVIOUS
<1> QED BY <1>1, <1>2 DEF IsList

LEMMA Joined ==
  ASSUME NEW s, NEW t, IsList(s), IsList(t)
  PROVE  /\ IsList(s \o t) /\ Range(s \o t) = Range(s) \cup Range(t)
         /\ \A i \in 1..Len(s) : (s \o t)[i] = s[i]
         /\ Len(s \o t) = Len(s) + Len(t)
<1> DEFINE S == Range(s) \cup Range(t)
<1>1. s \in Seq(S) /\ t \in Seq(S)
  BY DEF IsList
<1>2. Range(s \o t) = S
  BY <1>1, RangeConcatenation
<1>3. s \o t \in Seq(S) /\ Len(s \o t) = Len(s) + Len(t)
  BY <1>1, ConcatProperties
<1>4. Len(s) \in Nat /\ Len(t) \in Nat
  BY <1>1, LenProperties
<1>5. \A i \in 1..Len(s) : (s \o t)[i] = s[i]
  BY <1>1, <1>4, ConcatProperties
<1> QED BY <1>2, <1>3, <1>5 DEF IsList

LEMMA Single == ASSUME NEW x PROVE IsList(<<x>>) /\ Range(<<x>>) = {x}
  BY DEF IsList, Range

(* SetToSeq of a finite set has every element of it.                       *)
LEMMA SetAsSequence ==
  ASSUME NEW S, IsFiniteSet(S)
  PROVE  IsList(SetToSeq(S)) /\ Range(SetToSeq(S)) = S
<1> DEFINE n == Cardinality(S)
           f == SetToSeq(S)
<1>1. n \in Nat /\ ExistsBijection(1..n, S)
  BY FS_CardinalityType
<1>2. \E g \in [1..n -> S] : IsInjective(g)
  BY <1>1 DEF ExistsBijection, Bijection, Injection, IsInjective
<1>3. f \in [1..n -> S] /\ IsInjective(f)
  BY <1>2 DEF SetToSeq
<1>4. IsFiniteSet(1..n) /\ Cardinality(1..n) = n
  BY <1>1, FS_Interval
<1>5. f \in Surjection(1..n, S)
  BY <1>3, <1>4, FS_Injection DEF Injection
<1> HIDE DEF f
<1>6. Range(f) = S
  BY <1>3, <1>5 DEF Surjection, Range
<1>7. IsList(f)
  BY <1>1, <1>3, Listed
<1> QED BY <1>6, <1>7 DEF f

(* What a provider can be.                                                 *)
ProviderForm(P) ==
  \/ P.does = "register" /\ P.driver \in Drivers
  \/ /\ P.does = "connection" /\ P.queue = None
     /\ \/ P.token = DefaultConnectionToken /\ P.name = config.default
        \/ P.token = ConnectionToken(P.name) /\ P.name \in ConnectionNames
  \/ P.does = "queue" /\ P.queue \in QueueNames /\ P.token = QueueToken(P.queue, P.name)

ProvidersFormed(s) == IsList(s) /\ \A P \in Range(s) : ProviderForm(P)

LEMMA RegistrationsFormed ==
  ASSUME NEW drivers \in Seq(Drivers)
  PROVE  /\ ProvidersFormed(BuildConnectorRegistrations(drivers))
         /\ Len(BuildConnectorRegistrations(drivers)) = Len(drivers)
         /\ \A P \in Range(BuildConnectorRegistrations(drivers)) : P.does = "register"
         /\ \A driver \in Range(drivers) :
              Registers(driver) \in Range(BuildConnectorRegistrations(drivers))
<1> DEFINE s == BuildConnectorRegistrations(drivers)
<1>1. /\ Len(drivers) \in Nat /\ DOMAIN drivers = 1..Len(drivers)
      /\ \A i \in DOMAIN drivers : drivers[i] \in Drivers
  BY LenProperties, ElementOfSeq
<1>2. s = [i \in 1..Len(drivers) |-> Registers(drivers[i])]
  BY <1>1 DEF BuildConnectorRegistrations
<1> HIDE DEF s
<1>3. IsList(s) /\ Len(s) = Len(drivers)
  BY <1>1, <1>2, Listed
<1>4. \A P \in Range(s) : \E driver \in Drivers : P = Registers(driver)
  BY <1>1, <1>2 DEF Range
<1>5. \A driver \in Drivers : ProviderForm(Registers(driver)) /\ Registers(driver).does = "register"
  BY DEF ProviderForm, Registers
<1>6. \A driver \in Range(drivers) : Registers(driver) \in Range(s)
  BY <1>1, <1>2 DEF Range
<1> QED BY <1>3, <1>4, <1>5, <1>6 DEF ProvidersFormed, s

LEMMA FormedJoined ==
  ASSUME NEW s, NEW t, ProvidersFormed(s), ProvidersFormed(t) PROVE ProvidersFormed(s \o t)
  BY Joined DEF ProvidersFormed

(* The provider of the default connection, then one per connection; the    *)
(* same for the handles of the queue "default".                            *)
NamedConnections == [i \in DOMAIN Names |-> Connects(ConnectionToken(Names[i]), Names[i])]
NamedHandles == [i \in DOMAIN Names |-> Handles(QueueToken("default", Names[i]), Names[i], "default")]
DefaultConnection == Connects(DefaultConnectionToken, config.default)
DefaultHandle == Handles(QueueToken(None, None), None, "default")

LEMMA NamesListed ==
  ASSUME config \in Configs
  PROVE  /\ IsList(Names) /\ Range(Names) = ConnectionNames
         /\ Len(Names) \in Nat /\ DOMAIN Names = 1..Len(Names)
         /\ \A i \in DOMAIN Names : Names[i] \in ConnectionNames
         /\ \A name \in ConnectionNames : \E i \in DOMAIN Names : Names[i] = name
<1>1. IsFiniteSet(ConnectionNames)
  BY ApplicationAssumption DEF ConnectionNames
<1>2. IsList(Names) /\ Range(Names) = ConnectionNames
  BY <1>1, SetAsSequence DEF Names
<1> HIDE DEF Names
<1> QED BY <1>2, Lists DEF Range

LEMMA NamedFormed ==
  ASSUME config \in Configs
  PROVE  /\ ProvidersFormed(<<DefaultConnection>>) /\ ProvidersFormed(NamedConnections)
         /\ ProvidersFormed(<<DefaultHandle>>) /\ ProvidersFormed(NamedHandles)
         /\ \A name \in ConnectionNames :
              /\ Connects(ConnectionToken(name), name) \in Range(NamedConnections)
              /\ Handles(QueueToken("default", name), name, "default") \in Range(NamedHandles)
<1>1. "default" \in QueueNames
  BY ApplicationAssumption
<1>2. ProviderForm(DefaultConnection) /\ ProviderForm(DefaultHandle)
  <2>1. QueueToken(None, None) = QueueToken("default", None)
    BY DEF QueueToken
  <2> QED BY <1>1, <2>1 DEF ProviderForm, DefaultConnection, DefaultHandle, Connects, Handles
<1>3. ProvidersFormed(<<DefaultConnection>>) /\ ProvidersFormed(<<DefaultHandle>>)
  BY <1>2, Single DEF ProvidersFormed
<1>4. \A name \in ConnectionNames :
        /\ ProviderForm(Connects(ConnectionToken(name), name))
        /\ ProviderForm(Handles(QueueToken("default", name), name, "default"))
  BY <1>1 DEF ProviderForm, Connects, Handles
<1>b. Len(Names) \in Nat /\ DOMAIN Names = 1..Len(Names)
  BY NamesListed
<1>c. PICK n : n = Len(Names)
  OBVIOUS
<1>5. n \in Nat /\ DOMAIN Names = 1..n
  BY <1>b, <1>c
<1>a. /\ \A i \in 1..n : Names[i] \in ConnectionNames
      /\ \A name \in ConnectionNames : \E i \in 1..n : Names[i] = name
  BY <1>5, NamesListed
<1>6. /\ NamedConnections = [i \in 1..n |-> Connects(ConnectionToken(Names[i]), Names[i])]
      /\ NamedHandles = [i \in 1..n |-> Handles(QueueToken("default", Names[i]), Names[i], "default")]
  BY <1>5 DEF NamedConnections, NamedHandles
<1>7. IsList(NamedConnections) /\ IsList(NamedHandles)
  BY <1>5, <1>6, Listed
<1>8. /\ \A P \in Range(NamedConnections) : \E name \in ConnectionNames :
           P = Connects(ConnectionToken(name), name)
      /\ \A P \in Range(NamedHandles) : \E name \in ConnectionNames :
           P = Handles(QueueToken("default", name), name, "default")
  BY <1>6, <1>a DEF Range
<1>9. \A name \in ConnectionNames :
        /\ Connects(ConnectionToken(name), name) \in Range(NamedConnections)
        /\ Handles(QueueToken("default", name), name, "default") \in Range(NamedHandles)
  BY <1>6, <1>a DEF Range
<1> QED BY <1>3, <1>4, <1>7, <1>8, <1>9 DEF ProvidersFormed

LEMMA FeatureQueuesFormed ==
  /\ ProvidersFormed(ForFeatureQueues)
  /\ \A i \in DOMAIN FeatureQueues :
       Handles(QueueToken(FeatureQueues[i].queue, FeatureQueues[i].connection),
               FeatureQueues[i].connection, FeatureQueues[i].queue) \in Range(ForFeatureQueues)
<1>1. /\ Len(FeatureQueues) \in Nat /\ DOMAIN FeatureQueues = 1..Len(FeatureQueues)
      /\ \A i \in DOMAIN FeatureQueues : FeatureQueues[i].queue \in QueueNames
  BY ApplicationAssumption, LenProperties
<1> DEFINE P(i) == Handles(QueueToken(FeatureQueues[i].queue, FeatureQueues[i].connection),
                           FeatureQueues[i].connection, FeatureQueues[i].queue)
<1>2. \A i \in DOMAIN FeatureQueues : ProviderForm(P(i))
  BY <1>1 DEF ProviderForm, Handles
<1>3. ForFeatureQueues = [i \in 1..Len(FeatureQueues) |-> P(i)]
  BY <1>1 DEF ForFeatureQueues
<1> HIDE DEF P
<1>4. IsList(ForFeatureQueues)
  BY <1>1, <1>3, Listed
<1>5. /\ \A Q \in Range(ForFeatureQueues) : \E i \in DOMAIN FeatureQueues : Q = P(i)
      /\ \A i \in DOMAIN FeatureQueues : P(i) \in Range(ForFeatureQueues)
  BY <1>1, <1>3 DEF Range
<1> QED BY <1>2, <1>4, <1>5 DEF ProvidersFormed, P

(* What forRoot() provides starts with the connectors, and has the         *)
(* connection and the handle of every name.                                *)
LEMMA ForRootHas ==
  ASSUME config \in Configs
  PROVE  /\ ProvidersFormed(ForRoot)
         /\ \A i \in 1..Len(BuiltIn) : ForRoot[i] = BuildConnectorRegistrations(BuiltIn)[i]
         /\ Len(BuiltIn) \in Nat /\ Len(BuiltIn) <= Len(ForRoot)
         /\ {DefaultConnection, DefaultHandle} \subseteq Range(ForRoot)
         /\ \A name \in ConnectionNames :
              /\ Connects(ConnectionToken(name), name) \in Range(ForRoot)
              /\ Handles(QueueToken("default", name), name, "default") \in Range(ForRoot)
<1> DEFINE B == BuildConnectorRegistrations(BuiltIn)
           D == <<DefaultConnection>>
           E == <<DefaultHandle>>
           C == D \o NamedConnections
           H == E \o NamedHandles
<1>1. ProvidersFormed(B) /\ Len(B) = Len(BuiltIn) /\ Len(BuiltIn) \in Nat
  BY RegistrationsFormed, ApplicationAssumption, LenProperties
<1>2. ForRoot = (B \o C) \o H
  BY DEF ForRoot, ConnectionProviders, HandleProviders, DefaultConnection, DefaultHandle,
         NamedConnections, NamedHandles
<1> HIDE DEF B
<1>3. ProvidersFormed(C) /\ ProvidersFormed(H)
  BY NamedFormed, FormedJoined
<1>4. /\ Range(C) = {DefaultConnection} \cup Range(NamedConnections)
      /\ Range(H) = {DefaultHandle} \cup Range(NamedHandles)
  <2>1. /\ IsList(D) /\ IsList(NamedConnections) /\ Range(D) = {DefaultConnection}
        /\ IsList(E) /\ IsList(NamedHandles) /\ Range(E) = {DefaultHandle}
    BY NamedFormed, Single DEF ProvidersFormed
  <2> HIDE DEF D, E
  <2> QED BY <2>1, Joined
<1> HIDE DEF C, H
<1>5. ProvidersFormed(B \o C) /\ ProvidersFormed(ForRoot)
  BY <1>1, <1>2, <1>3, FormedJoined
<1>6. Range(ForRoot) = Range(B) \cup Range(C) \cup Range(H)
  BY <1>1, <1>2, <1>3, <1>5, Joined DEF ProvidersFormed
<1>7. /\ Len(B \o C) = Len(B) + Len(C) /\ Len(ForRoot) = Len(B \o C) + Len(H)
      /\ \A i \in 1..Len(B) : (B \o C)[i] = B[i]
      /\ \A i \in 1..Len(B \o C) : ForRoot[i] = (B \o C)[i]
  BY <1>1, <1>2, <1>3, <1>5, Joined DEF ProvidersFormed
<1>8. Len(C) \in Nat /\ Len(H) \in Nat
  BY <1>3, Lists DEF ProvidersFormed
<1>9. /\ Len(BuiltIn) <= Len(ForRoot)
      /\ \A i \in 1..Len(BuiltIn) : ForRoot[i] = B[i]
  BY <1>1, <1>7, <1>8
<1>10. {DefaultConnection, DefaultHandle} \subseteq Range(ForRoot)
  BY <1>4, <1>6
<1>11. ASSUME NEW name \in ConnectionNames
       PROVE  /\ Connects(ConnectionToken(name), name) \in Range(ForRoot)
              /\ Handles(QueueToken("default", name), name, "default") \in Range(ForRoot)
  <2>1. /\ Connects(ConnectionToken(name), name) \in Range(NamedConnections)
        /\ Handles(QueueToken("default", name), name, "default") \in Range(NamedHandles)
    BY NamedFormed
  <2> QED BY <1>4, <1>6, <2>1
<1> QED BY <1>1, <1>5, <1>9, <1>10, <1>11 DEF B

LEMMA ProvidersAre ==
  ASSUME config \in Configs, NEW k \in DOMAIN config.modules
  PROVE  /\ ProvidersFormed(ProvidersOf(config.modules[k]))
         /\ Len(ProvidersOf(config.modules[k])) \in Nat
         /\ DOMAIN ProvidersOf(config.modules[k]) = 1..Len(ProvidersOf(config.modules[k]))
         /\ \A j \in DOMAIN ProvidersOf(config.modules[k]) :
              ProviderForm(ProvidersOf(config.modules[k])[j])
<1>1. config.modules[k] \in {"forRoot", "forFeature", "forFeatureQueues"}
  BY ApplicationAssumption, LenProperties, ElementOfSeq
<1>2. ProvidersFormed(ForRoot) /\ ProvidersFormed(ForFeatureQueues)
  BY ForRootHas, FeatureQueuesFormed
<1>3. /\ ProvidersFormed(BuildConnectorRegistrations(BuiltIn))
      /\ ProvidersFormed(BuildConnectorRegistrations(Features))
  BY RegistrationsFormed, ApplicationAssumption
<1>4. ProvidersFormed(ProvidersOf(config.modules[k]))
  BY <1>1, <1>2, <1>3 DEF ProvidersOf, ForRootAsync
<1> QED BY <1>4, Lists DEF ProvidersFormed, Range

-----------------------------------------------------------------------------
(* No step takes a connection away or gives it another name, so what       *)
(* referred to a connection still does.                                    *)
NamesStay ==
  /\ connections' \in Seq(Connection)
  /\ \A id \in Ids : id \in Ids' /\ connections'[id].name = connections[id].name

LEMMA ReferencesStay ==
  ASSUME RegistryForm, NamesStay
  PROVE  /\ UNCHANGED <<config, defaultName, connectors>> => DefaultsForm'
         /\ UNCHANGED instances => InstancesRefer'
         /\ UNCHANGED creating => CreatingRefer'
         /\ UNCHANGED closing => ClosingRefer'
         /\ UNCHANGED handles => HandlesForm'
         /\ UNCHANGED calls => CallsRefer'
         /\ \A p \in Callers : calls'[p] = calls[p] => CallForm(p)'
<1>1. UNCHANGED <<config, defaultName, connectors>> => DefaultsForm'
  BY DEF RegistryForm, DefaultsForm, ConnectionNames
<1>2. \A id, name : Refers(id, name) => id \in Ids' /\ connections'[id].name = name
  BY DEF Refers, NamesStay
<1>3. UNCHANGED instances => InstancesRefer'
  BY <1>2 DEF RegistryForm, InstancesRefer, Refers
<1>4. UNCHANGED creating => CreatingRefer'
  BY <1>2 DEF RegistryForm, CreatingRefer, Refers
<1>5. UNCHANGED closing => ClosingRefer'
  BY <1>2 DEF RegistryForm, ClosingRefer, Refers
<1>6. UNCHANGED handles => HandlesForm'
  BY <1>2 DEF RegistryForm, HandlesForm, HandleForm, Refers
<1>7. \A p \in Callers : calls'[p] = calls[p] => CallForm(p)'
  BY <1>2 DEF RegistryForm, CallsRefer, CallForm, Refers
<1>8. UNCHANGED calls => CallsRefer'
  BY <1>7 DEF RegistryForm, CallsRefer
<1> QED BY <1>1, <1>3, <1>4, <1>5, <1>6, <1>7, <1>8

LEMMA SameNames ==
  ASSUME ConnectionsForm
  PROVE  /\ UNCHANGED connections => NamesStay
         /\ \A id \in Ids : \A state : Becomes(id, state) => NamesStay
         /\ \A c \in Connection : connections' = Append(connections, c) => NamesStay
<1>1. UNCHANGED connections => NamesStay
  BY DEF ConnectionsForm, NamesStay, Ids
<1>2. \A id \in Ids : \A state : Becomes(id, state) => NamesStay
  BY DEF Becomes, NamesStay
<1>3. ASSUME NEW c \in Connection, connections' = Append(connections, c) PROVE NamesStay
  BY <1>3, ConnectionAdded DEF NamesStay
<1> QED BY <1>1, <1>2, <1>3

(* What asking gives: a handle that is kept, a connection to wait for that *)
(* there is or that is being made, one that is made now, or an error.      *)
Gives(p, name, queue) ==
  \/ /\ calls'[p].stage = "done" /\ calls'[p].name = name /\ calls'[p].queue = queue
     /\ queue # None /\ <<name, queue>> \in DOMAIN handles
     /\ calls'[p].got = handles[<<name, queue>>]
     /\ UNCHANGED <<connections, creating>>
  \/ /\ calls'[p].stage = "waiting" /\ calls'[p].name = name /\ calls'[p].queue = queue
     /\ \/ name \in DOMAIN instances /\ calls'[p].conn = instances[name]
        \/ name \in DOMAIN creating /\ calls'[p].conn = creating[name]
     /\ UNCHANGED <<connections, creating>>
  \/ /\ calls'[p].stage = "waiting" /\ calls'[p].name = name /\ calls'[p].queue = queue
     /\ calls'[p].conn = Len(connections) + 1
     /\ name \in ConnectionNames /\ name \notin DOMAIN instances \cup DOMAIN creating
     /\ connections' = Append(connections,
                              [name |-> name, state |-> "connecting", handler |-> None])
     /\ creating' = Put(creating, name, Len(connections) + 1)
  \/ /\ calls'[p].stage = "failed" /\ calls'[p].why = Unconnectable(name)
     /\ UNCHANGED <<connections, creating>>

LEMMA AskGives ==
  ASSUME DOMAIN calls = Callers, NEW p \in Callers, NEW name, NEW queue, Ask(p, name, queue)
  PROVE  /\ IsIdle(p)
         /\ UNCHANGED <<config, defaultName, connectors, instances, handles, closing, stopping>>
         /\ DOMAIN calls' = Callers /\ \A q \in Callers \ {p} : calls'[q] = calls[q]
         /\ Gives(p, NameOf(name), queue)
<1> DEFINE n == NameOf(name)
<1>1. /\ IsIdle(p)
      /\ UNCHANGED <<config, defaultName, connectors, instances, handles, closing, stopping>>
  BY DEF Ask
<1>2. ASSUME NEW call, calls' = [calls EXCEPT ![p] = call]
      PROVE  /\ DOMAIN calls' = Callers /\ \A q \in Callers \ {p} : calls'[q] = calls[q]
             /\ calls'[p] = call
  BY <1>2
<1>3. CASE queue # None /\ <<n, queue>> \in DOMAIN handles
  <2>1. PICK call : call = [stage |-> "done", name |-> n, queue |-> queue,
                            got |-> handles[<<n, queue>>]]
    OBVIOUS
  <2>2. calls' = [calls EXCEPT ![p] = call] /\ UNCHANGED <<connections, creating>>
    BY <1>3, <2>1 DEF Ask, Key
  <2>3. calls'[p] = call
    BY <1>2, <2>2
  <2>4. Gives(p, n, queue)
    BY <1>3, <2>1, <2>2, <2>3 DEF Gives
  <2> QED BY <1>1, <1>2, <2>2, <2>4
<1>4. CASE ~(queue # None /\ <<n, queue>> \in DOMAIN handles)
  <2>1. Lookup(p, n, queue)
    BY <1>4 DEF Ask, Key
  <2> HIDE DEF n
  <2>2. ASSUME NEW id, calls' = [calls EXCEPT ![p] = Waiting(n, queue, id)]
        PROVE  /\ calls'[p].stage = "waiting" /\ calls'[p].name = n
               /\ calls'[p].queue = queue /\ calls'[p].conn = id
    BY <1>2, <2>2 DEF Waiting
  <2>3. CASE n \in DOMAIN instances \cup DOMAIN creating
    <3>1. PICK id : /\ calls' = [calls EXCEPT ![p] = Waiting(n, queue, id)]
                    /\ \/ n \in DOMAIN instances /\ id = instances[n]
                       \/ n \in DOMAIN creating /\ id = creating[n]
      BY <2>1, <2>3 DEF Lookup
    <3>2. UNCHANGED <<connections, creating>>
      BY <2>1, <2>3 DEF Lookup
    <3>3. Gives(p, n, queue)
      BY <2>2, <3>1, <3>2 DEF Gives
    <3> QED BY <1>1, <1>2, <3>1, <3>3 DEF n
  <2>4. CASE n \notin DOMAIN instances \cup DOMAIN creating /\ Unconnectable(n) = "no"
    <3>1. n \in ConnectionNames
      BY <2>4 DEF Unconnectable
    <3>2. /\ calls' = [calls EXCEPT ![p] = Waiting(n, queue, Len(connections) + 1)]
          /\ connections' = Append(connections,
                              [name |-> n, state |-> "connecting", handler |-> None])
          /\ creating' = Put(creating, n, Len(connections) + 1)
      BY <2>1, <2>4 DEF Lookup
    <3>3. Gives(p, n, queue)
      BY <2>2, <2>4, <3>1, <3>2 DEF Gives
    <3> QED BY <1>1, <1>2, <3>2, <3>3 DEF n
  <2>5. CASE n \notin DOMAIN instances \cup DOMAIN creating /\ Unconnectable(n) # "no"
    <3>1. PICK call : call = [stage |-> "failed", why |-> Unconnectable(n)]
      OBVIOUS
    <3>2. calls' = [calls EXCEPT ![p] = call] /\ UNCHANGED <<connections, creating>>
      BY <2>1, <2>5, <3>1 DEF Lookup
    <3>3. Gives(p, n, queue)
      BY <1>2, <3>1, <3>2 DEF Gives
    <3> QED BY <1>1, <1>2, <3>2, <3>3 DEF n
  <2> QED BY <2>3, <2>4, <2>5
<1> QED BY <1>3, <1>4

LEMMA AskRefers ==
  ASSUME RegistryForm, Steady, NEW p \in Callers, NEW name, NEW queue \in QueueNames \cup {None},
         Ask(p, name, queue)
  PROVE  RegistryForm' /\ NamesStay
<1> DEFINE n == NameOf(name)
<1>0. DOMAIN calls = Callers /\ ConnectionsForm
  BY DEF RegistryForm, CallsRefer
<1>1. /\ UNCHANGED <<config, defaultName, connectors, instances, handles, closing>>
      /\ DOMAIN calls' = Callers /\ \A q \in Callers \ {p} : calls'[q] = calls[q]
      /\ Gives(p, n, queue)
  BY <1>0, AskGives
<1> HIDE DEF n
<1>2. CASE UNCHANGED <<connections, creating>>
  <2>1. NamesStay
    BY <1>0, <1>2, SameNames
  <2>2. CreatingRefer'
    BY <1>2, <2>1, ReferencesStay
  <2>3. CallForm(p)'
    <3>1. CASE calls'[p].stage = "failed"
      BY <3>1 DEF CallForm
    <3>2. CASE calls'[p].stage = "waiting"
      <4>1. /\ calls'[p].name = n /\ calls'[p].queue = queue
            /\ \/ n \in DOMAIN instances /\ calls'[p].conn = instances[n]
               \/ n \in DOMAIN creating /\ calls'[p].conn = creating[n]
               \/ connections' = Append(connections,
                              [name |-> n, state |-> "connecting", handler |-> None])
        BY <1>1, <3>2 DEF Gives
      <4>2. Len(Append(connections,
                       [name |-> n, state |-> "connecting", handler |-> None])) # Len(connections)
        BY <1>0 DEF ConnectionsForm
      <4>3. Refers(calls'[p].conn, n)
        BY <1>2, <4>1, <4>2 DEF RegistryForm, InstancesRefer, CreatingRefer
      <4> QED BY <1>2, <3>2, <4>1, <4>3 DEF CallForm, Refers, Ids
    <3>3. CASE calls'[p].stage = "done"
      <4>1. /\ calls'[p].name = n /\ calls'[p].queue = queue /\ <<n, queue>> \in DOMAIN handles
            /\ calls'[p].got = handles[<<n, queue>>]
        BY <1>1, <3>3 DEF Gives
      <4>2. HandleForm(<<n, queue>>)
        BY <4>1 DEF RegistryForm, HandlesForm
      <4> QED BY <1>2, <3>3, <4>1, <4>2 DEF CallForm, HandleForm, Refers, Ids
    <3> QED BY <1>1, <3>1, <3>2, <3>3 DEF Gives
  <2>4. CallsRefer'
    BY <1>1, <2>1, <2>3, ReferencesStay DEF CallsRefer
  <2>5. ConnectionsForm'
    BY <2>1, SteadyForm DEF NamesStay
  <2> QED BY <1>1, <2>1, <2>2, <2>4, <2>5, ReferencesStay DEF RegistryForm
<1>3. CASE ~UNCHANGED <<connections, creating>>
  <2>1. PICK new, c : /\ new = Len(connections) + 1
                      /\ c = [name |-> n, state |-> "connecting", handler |-> None]
    OBVIOUS
  <2>2. /\ calls'[p].stage = "waiting" /\ calls'[p].name = n /\ calls'[p].queue = queue
        /\ calls'[p].conn = new /\ n \in ConnectionNames
        /\ connections' = Append(connections, c) /\ creating' = Put(creating, n, new)
    BY <1>1, <1>3, <2>1 DEF Gives
  <2>3. c \in Connection /\ c.name = n
    BY <2>1, <2>2 DEF Connection
  <2>4. /\ NamesStay /\ connections' \in Seq(Connection)
        /\ new \in Ids' /\ connections'[new].name = n
    BY <1>0, <2>1, <2>2, <2>3, SameNames, ConnectionAdded
  <2>5. CreatingRefer'
    <3>1. /\ DOMAIN creating' = DOMAIN creating \cup {n} /\ creating'[n] = new
          /\ \A k \in DOMAIN creating \ {n} : creating'[k] = creating[k]
      BY <2>2 DEF Put
    <3> QED BY <2>4, <3>1 DEF RegistryForm, NamesStay, CreatingRefer, Refers
  <2>6. CallForm(p)'
    BY <2>2, <2>4 DEF CallForm, Refers
  <2>7. CallsRefer'
    BY <1>1, <2>4, <2>6, ReferencesStay DEF CallsRefer
  <2>8. ConnectionsForm'
    BY <2>4, SteadyForm
  <2> QED BY <1>1, <2>4, <2>5, <2>7, <2>8, ReferencesStay DEF RegistryForm
<1> QED BY <1>2, <1>3

LEMMA SteppedRefers ==
  ASSUME RegistryForm, Steady, NamesStay, UNCHANGED <<defaultName, connectors>>,
         InstancesRefer', CreatingRefer', ClosingRefer', HandlesForm', CallsRefer'
  PROVE  RegistryForm'
<1>1. ConnectionsForm' /\ DefaultsForm'
  BY SteadyForm, ReferencesStay DEF NamesStay, Steady
<1> QED BY <1>1 DEF RegistryForm

LEMMA ManagerStepRefers ==
  ASSUME RegistryForm, Steady, ManagerStep PROVE RegistryForm' /\ NamesStay
<1> ConnectionsForm
  BY DEF RegistryForm
<1>1. ASSUME NEW id \in Ids, Connected(id) PROVE RegistryForm' /\ NamesStay
  <2>1. Becomes(id, "open") /\ NamesStay
    BY <1>1, ConnectionEdited, SameNames DEF Connected
  <2>2. InstancesRefer'
    <3>1. PICK n : n = connections[id].name
      OBVIOUS
    <3>2. /\ DOMAIN instances' = DOMAIN instances \cup {n} /\ instances'[n] = id
          /\ \A k \in DOMAIN instances \ {n} : instances'[k] = instances[k]
      BY <1>1, <3>1 DEF Connected, Put
    <3> QED BY <2>1, <3>1, <3>2 DEF RegistryForm, NamesStay, InstancesRefer, Refers
  <2>3. CreatingRefer'
    BY <1>1, <2>1 DEF RegistryForm, Connected, Without, NamesStay, CreatingRefer, Refers
  <2> QED BY <1>1, <2>1, <2>2, <2>3, ReferencesStay, SteppedRefers DEF Connected
<1>2. ASSUME NEW id \in Ids, ConnectFails(id) PROVE RegistryForm' /\ NamesStay
  <2>1. Becomes(id, "failed") /\ NamesStay
    BY <1>2, ConnectionEdited, SameNames DEF ConnectFails
  <2>2. CreatingRefer'
    BY <1>2, <2>1 DEF RegistryForm, ConnectFails, Without, NamesStay, CreatingRefer, Refers
  <2> QED BY <1>2, <2>1, <2>2, ReferencesStay, SteppedRefers DEF ConnectFails
<1>3. ASSUME NEW p \in Callers, Answer(p) PROVE RegistryForm' /\ NamesStay
  <2>1. /\ calls[p].stage = "waiting"
        /\ UNCHANGED <<defaultName, connectors, connections, instances, creating, closing>>
    BY <1>3 DEF Answer
  <2>2. NamesStay
    BY <2>1, SameNames
  <2>3. /\ Refers(calls[p].conn, calls[p].name) /\ calls[p].queue \in QueueNames \cup {None}
        /\ DOMAIN calls = Callers
    BY <2>1 DEF RegistryForm, CallsRefer, CallForm
  <2>4. /\ DOMAIN calls' = Callers /\ \A q \in Callers \ {p} : calls'[q] = calls[q]
        /\ \/ calls'[p].stage = "failed"
           \/ /\ calls'[p].stage = "done" /\ calls'[p].name = calls[p].name
              /\ calls'[p].queue = calls[p].queue
              /\ calls'[p].got = Handle(calls[p].conn, calls[p].queue)
    BY <1>3, <2>3 DEF Answer, Handle
  <2>5. CallsRefer'
    <3>1. CallForm(p)'
      BY <2>2, <2>3, <2>4 DEF CallForm, Refers, NamesStay, Handle
    <3> QED BY <2>2, <2>4, <3>1, ReferencesStay DEF CallsRefer
  <2>6. HandlesForm'
    <3>1. CASE handles' = handles
      BY <2>2, <3>1, ReferencesStay
    <3>2. CASE handles' # handles
      <4>1. PICK key, handle : /\ key = <<calls[p].name, calls[p].queue>>
                               /\ handle = [conn |-> calls[p].conn, queue |-> calls[p].queue]
        OBVIOUS
      <4>2. handles' = Put(handles, key, handle) /\ calls[p].queue # None
        BY <1>3, <3>2, <4>1 DEF Answer, Key
      <4>3. /\ DOMAIN handles' = DOMAIN handles \cup {key} /\ handles'[key] = handle
            /\ \A k \in DOMAIN handles \ {key} : handles'[k] = handles[k]
        BY <4>2 DEF Put
      <4>4. HandleForm(key)'
        <5>1. key = <<key[1], key[2]>> /\ key[1] = calls[p].name /\ key[2] = calls[p].queue
          BY <4>1
        <5>2. handle = Handle(calls[p].conn, key[2]) /\ handle.conn = calls[p].conn
          BY <4>1 DEF Handle
        <5> QED BY <2>2, <2>3, <4>2, <4>3, <5>1, <5>2 DEF HandleForm, Refers, NamesStay
      <4>5. \A k \in DOMAIN handles \ {key} : HandleForm(k)'
        BY <2>2, <4>3 DEF RegistryForm, HandlesForm, HandleForm, Refers, NamesStay
      <4> QED BY <4>3, <4>4, <4>5 DEF HandlesForm
    <3> QED BY <3>1, <3>2
  <2> QED BY <2>1, <2>2, <2>5, <2>6, ReferencesStay, SteppedRefers
<1>4. ASSUME NEW d \in closing, DisconnectEnds(d) PROVE RegistryForm' /\ NamesStay
  <2>1. d.conn \in Ids
    BY DEF RegistryForm, ClosingRefer, Refers
  <2>2. NamesStay
    BY <1>4, <2>1, ConnectionEdited, SameNames DEF DisconnectEnds
  <2>3. InstancesRefer' /\ ClosingRefer' /\ HandlesForm'
    <3>1. InstancesRefer'
      BY <1>4, <2>2 DEF RegistryForm, DisconnectEnds, Without, NamesStay, InstancesRefer, Refers
    <3>2. ClosingRefer'
      BY <1>4, <2>2 DEF RegistryForm, DisconnectEnds, NamesStay, ClosingRefer, Refers
    <3>3. \A key \in DOMAIN handles' : key \in DOMAIN handles /\ handles'[key] = handles[key]
      BY <1>4 DEF DisconnectEnds, DropHandles, Without
    <3>4. HandlesForm'
      BY <2>2, <3>3 DEF RegistryForm, NamesStay, HandlesForm, HandleForm, Refers
    <3> QED BY <3>1, <3>2, <3>4
  <2> QED BY <1>4, <2>2, <2>3, ReferencesStay, SteppedRefers DEF DisconnectEnds
<1>5. CASE DestroyEnds
  <2>1. NamesStay
    BY <1>5, SameNames DEF DestroyEnds
  <2>2. DOMAIN NoMap = {}
    BY DEF NoMap
  <2>3. InstancesRefer' /\ HandlesForm'
    BY <1>5, <2>2 DEF DestroyEnds, InstancesRefer, HandlesForm
  <2> QED BY <1>5, <2>1, <2>3, ReferencesStay, SteppedRefers DEF DestroyEnds
<1> QED BY <1>1, <1>2, <1>3, <1>4, <1>5 DEF ManagerStep

(* A caller goes on, or nothing of what refers to a connection changes.    *)
LEMMA QuietRefers ==
  ASSUME RegistryForm, Steady,
         UNCHANGED <<defaultName, connectors, instances, creating, handles, closing>>,
         \/ connections' = connections
         \/ \E id \in Ids : connections' = [connections EXCEPT ![id].handler = at],
         \/ calls' = calls
         \/ \E p \in Callers : calls' = [calls EXCEPT ![p] = Idle]
  PROVE  RegistryForm' /\ NamesStay
<1> ConnectionsForm /\ at \in Nat
  BY DEF RegistryForm, ConnectionsForm
<1>1. NamesStay
  BY ConnectionEdited, SameNames
<1>2. CallsRefer'
  <2>1. ASSUME NEW p \in Callers, calls' = [calls EXCEPT ![p] = Idle] PROVE CallsRefer'
    <3>1. /\ DOMAIN calls' = Callers /\ calls'[p] = Idle
          /\ \A q \in Callers \ {p} : calls'[q] = calls[q]
      BY <2>1 DEF RegistryForm, CallsRefer
    <3>2. CallForm(p)'
      BY <3>1 DEF CallForm, Idle
    <3> QED BY <1>1, <3>1, <3>2, ReferencesStay DEF CallsRefer
  <2> QED BY <1>1, <2>1, ReferencesStay
<1> QED BY <1>1, <1>2, ReferencesStay, SteppedRefers

LEMMA DisconnectsRefer ==
  ASSUME RegistryForm, Steady, DestroyBegins \/ \E by, name : DisconnectBegins(by, name)
  PROVE  RegistryForm' /\ NamesStay
<1>1. /\ UNCHANGED <<defaultName, connectors, instances, creating, handles, calls>>
      /\ \E ids : CloseCalled(ids)
  BY DEF DestroyBegins, DisconnectBegins
<1>2. NamesStay
  BY <1>1, CloseCalledIs DEF RegistryForm, NamesStay, OnlyHandlers
<1>3. ClosingRefer'
  <2>1. ASSUME NEW d \in closing' \ closing
        PROVE  \E name \in DOMAIN instances : d.name = name /\ d.conn = instances[name]
    <3>1. CASE DestroyBegins
      <4>1. PICK name \in DOMAIN instances :
              d = [by |-> "onModuleDestroy", name |-> name, conn |-> instances[name]]
        BY <2>1, <3>1 DEF DestroyBegins, ActiveNames
      <4> QED BY <4>1
    <3>2. CASE \E by, name : DisconnectBegins(by, name)
      <4>1. PICK by, name : DisconnectBegins(by, name)
        BY <3>2
      <4>2. d = [by |-> by, name |-> name, conn |-> instances[name]] /\ name \in DOMAIN instances
        BY <2>1, <4>1 DEF DisconnectBegins
      <4> QED BY <4>2
    <3> QED BY <3>1, <3>2
  <2>2. ASSUME NEW d \in closing' \ closing PROVE Refers(d.conn, d.name)
    BY <2>1 DEF RegistryForm, InstancesRefer
  <2> QED BY <1>2, <2>2 DEF RegistryForm, ClosingRefer, Refers, NamesStay
<1> QED BY <1>1, <1>2, <1>3, ReferencesStay, SteppedRefers

LEMMA DefaultSetRefers ==
  ASSUME RegistryForm, Steady, NEW name, SetDefaultInstance(name)
  PROVE  RegistryForm' /\ NamesStay
<1>1. NamesStay
  BY SameNames DEF SetDefaultInstance, RegistryForm
<1>2. DefaultsForm' /\ ConnectionsForm'
  BY SteadyForm, <1>1 DEF SetDefaultInstance, RegistryForm, DefaultsForm, ConnectionNames, NamesStay
<1> QED BY <1>1, <1>2, ReferencesStay DEF RegistryForm, SetDefaultInstance

-----------------------------------------------------------------------------
(* What the manager, the users and the stop of the application do leaves   *)
(* the start alone, but for the answer to the call of the container.       *)
Outside == (ManagerStep /\ UNCHANGED appVars) \/ Operate

LEMMA OutsideLeaves ==
  ASSUME DOMAIN calls = Callers, at \in Nat, Outside
  PROVE  /\ Steady /\ UNCHANGED <<module, at, tokens, connectors>>
         /\ \/ phase' = phase /\ UNCHANGED <<running, kept>>
            \/ Shutdown
         /\ phase = "up" \/ defaultName' = defaultName
         /\ calls'[Container] = calls[Container] \/ Answer(Container)
<1> Container \in Callers
  BY ApplicationAssumption
<1>1. CASE ManagerStep /\ UNCHANGED appVars
  <2>1. UNCHANGED <<config, defaultName, connectors>> /\ UNCHANGED appVars
    BY <1>1 DEF ManagerStep, Connected, ConnectFails, Answer, DisconnectEnds, DestroyEnds
  <2>2. calls'[Container] = calls[Container] \/ Answer(Container)
    BY <1>1 DEF ManagerStep, Connected, ConnectFails, Answer, DisconnectEnds, DestroyEnds
  <2> QED BY <2>1, <2>2 DEF Steady, appVars
<1>2. ASSUME NEW p \in Callers \ {Container}, NEW name, NEW queue, Ask(p, name, queue)
      PROVE  /\ UNCHANGED <<config, defaultName, connectors>>
             /\ calls'[Container] = calls[Container]
  BY <1>2, AskGives
<1>3. CASE phase = "up" /\ UserStep(Callers \ {Container}) /\ UNCHANGED appVars
  <2>1. UNCHANGED <<config, connectors>> /\ calls'[Container] = calls[Container]
    BY <1>2, <1>3 DEF UserStep, Render, Use, Unmount, managerVars
  <2> QED BY <1>3, <2>1 DEF Steady, appVars
<1>4. CASE \E p \in Callers \ {Container} : CallerGoesOn(p) /\ UNCHANGED appVars
  <2>1. /\ UNCHANGED <<config, defaultName, connectors>> /\ UNCHANGED appVars
        /\ calls'[Container] = calls[Container]
    BY <1>4 DEF CallerGoesOn
  <2> QED BY <2>1 DEF Steady, appVars
<1>5. CASE /\ phase = "up"
           /\ \/ \E name \in ConnectionNames : SetDefaultInstance(name)
              \/ \E by \in Disconnects, name \in ConnectionNames : DisconnectBegins(by, name)
           /\ UNCHANGED <<hookVars, appVars>>
  BY <1>5 DEF SetDefaultInstance, DisconnectBegins, Steady, appVars
<1>6. CASE phase \in {"up", "stopped"} /\ DestroyBegins /\ UNCHANGED <<hookVars, appVars>>
  BY <1>6 DEF DestroyBegins, Steady, appVars
<1>7. CASE Shutdown
  BY <1>7 DEF Shutdown, managerVars, Steady
<1>8. CASE ResumeSync \/ \E id \in Ids, lookup \in Lookups : PauseSync(id, lookup.queue)
  BY <1>8 DEF ResumeSync, PauseSync, managerVars, Steady
<1> QED BY <1>1, <1>3, <1>4, <1>5, <1>6, <1>7, <1>8 DEF Outside, Operate

LEMMA OutsideStarts ==
  ASSUME RegistryForm, StartForm, Outside PROVE StartForm' /\ Steady
<1> /\ DOMAIN calls = Callers /\ at \in Nat /\ Container \in Callers
  BY ApplicationAssumption DEF RegistryForm, CallsRefer, ConnectionsForm
<1>1. /\ Steady /\ UNCHANGED <<module, at>>
      /\ phase' = phase \/ (phase = "up" /\ phase' = "stopped")
      /\ phase = "up" \/ defaultName' = defaultName
  BY OutsideLeaves DEF Shutdown
<1>2. config' = config
  BY <1>1 DEF Steady
<1>3. Providers' = Providers /\ ProviderInstances' = ProviderInstances
  BY <1>1, <1>2 DEF Providers, ProvidersOf, ForRoot, ForRootAsync, ConnectionProviders,
                    HandleProviders, Names, ConnectionNames, ProviderInstances
<1>4. /\ IsIdle(Container)' = IsIdle(Container)
      /\ \A name, queue : AsksFor(name, queue) => AsksFor(name, queue)'
  <2>1. CASE calls'[Container] = calls[Container]
    BY <1>2, <2>1 DEF IsIdle, AsksFor, Declared
  <2>2. CASE Answer(Container)
    <3>1. /\ calls[Container].stage = "waiting"
          /\ \/ calls'[Container].stage = "failed"
             \/ /\ calls'[Container].stage = "done"
                /\ calls'[Container].name = calls[Container].name
                /\ calls'[Container].queue = calls[Container].queue
      BY <2>2 DEF Answer
    <3> QED BY <1>2, <3>1 DEF IsIdle, AsksFor, Declared
  <2> QED BY <2>1, <2>2, OutsideLeaves
<1>5. FactoryCalls' /\ LoaderCalls'
  BY <1>1, <1>2, <1>3, <1>4 DEF StartForm, FactoryCalls, LoaderCalls, HasProvider
<1>6. Bounds'
  BY <1>1, <1>2, <1>3 DEF StartForm, Bounds
<1> QED BY <1>1, <1>2, <1>5, <1>6 DEF StartForm, Steady

LEMMA OutsideRefers ==
  ASSUME RegistryForm, StartForm, Outside PROVE RegistryForm' /\ NamesStay
<1>1. Steady
  BY OutsideStarts
<1>2. CASE ManagerStep /\ UNCHANGED appVars
  BY <1>1, <1>2, ManagerStepRefers
<1>3. CASE phase = "up" /\ UserStep(Callers \ {Container}) /\ UNCHANGED appVars
  <2>1. CASE \E h \in Hooks : Unmount(h)
    BY <1>1, <2>1, QuietRefers DEF Unmount, managerVars
  <2>2. CASE \E p \in Callers, lookup \in Lookups : Ask(p, lookup.name, lookup.queue)
    <3>1. PICK p \in Callers, lookup \in Lookups : Ask(p, lookup.name, lookup.queue)
      BY <2>2
    <3>2. lookup.queue \in QueueNames \cup {None}
      BY ManagerAssumption
    <3> QED BY <1>1, <3>1, <3>2, AskRefers
  <2> QED BY <1>3, <2>1, <2>2 DEF UserStep, Render, Use
<1>4. CASE \E p \in Callers \ {Container} : CallerGoesOn(p) /\ UNCHANGED appVars
  BY <1>1, <1>4, QuietRefers DEF CallerGoesOn
<1>5. CASE \/ \E name \in ConnectionNames : SetDefaultInstance(name)
           \/ \E by \in Disconnects, name \in ConnectionNames : DisconnectBegins(by, name)
           \/ DestroyBegins
  BY <1>1, <1>5, DefaultSetRefers, DisconnectsRefer
<1>6. CASE \/ Shutdown \/ ResumeSync
           \/ \E id \in Ids, lookup \in Lookups : PauseSync(id, lookup.queue)
  BY <1>1, <1>6, QuietRefers DEF Shutdown, ResumeSync, PauseSync, managerVars
<1> QED BY <1>2, <1>3, <1>4, <1>5, <1>6 DEF Outside, Operate

LEMMA OutsideHolds ==
  ASSUME StartInv, Outside PROVE HoldersForm'
<1>1. /\ tokens' = tokens /\ NamesStay
      /\ UNCHANGED <<running, kept>> \/ Shutdown
  BY OutsideLeaves, OutsideRefers DEF StartInv, RegistryForm, CallsRefer, ConnectionsForm
<1>2. kept' = running'
  BY <1>1 DEF StartInv, HoldersForm, Shutdown
<1>3. renders \in 0..MaxRenders /\ MaxRenders \in Nat
  BY ManagerAssumption DEF StartInv, HoldersForm
<1>4. renders' \in 0..MaxRenders
  <2>1. UserStep(Callers \ {Container}) =>
          renders' = renders \/ (renders < MaxRenders /\ renders' = renders + 1)
    BY DEF UserStep, Render, Use, Unmount
  <2>2. UserStep(Callers \ {Container}) \/ renders' = renders
    BY DEF Outside, ManagerStep, Operate, CallerGoesOn, hookVars, Shutdown, PauseSync, ResumeSync
  <2> QED BY <1>3, <2>1, <2>2
<1>5. \/ shown' = shown
      \/ \E h \in Hooks : shown' = [shown EXCEPT ![h] = None]
      \/ \E p \in Callers : CallerGoesOn(p)
  BY DEF Outside, ManagerStep, Operate, UserStep, Render, Use, Unmount, hookVars,
         Shutdown, PauseSync, ResumeSync
<1>6. ASSUME NEW p \in Callers, CallerGoesOn(p), NEW h \in Hooks, shown'[h] # None
      PROVE  shown'[h].conn \in Ids \cup {0}
  <2>1. \/ shown'[h] = shown[h]
        \/ calls[p].stage = "done" /\ shown'[h] = calls[p].got
        \/ shown'[h] = Error
    BY <1>6 DEF CallerGoesOn
  <2>2. calls[p].stage = "done" => calls[p].got.conn \in Ids
    BY DEF StartInv, RegistryForm, CallsRefer, CallForm, Refers
  <2> QED BY <1>6, <2>1, <2>2 DEF Error, StartInv, HoldersForm
<1>7. /\ DOMAIN shown' = Hooks
      /\ \A h \in Hooks : shown'[h] # None => shown'[h].conn \in Ids \cup {0}
  BY <1>5, <1>6 DEF StartInv, HoldersForm, CallerGoesOn
<1> QED BY <1>1, <1>2, <1>4, <1>7 DEF StartInv, HoldersForm, NamesStay

-----------------------------------------------------------------------------
(* The steps of the start.                                                 *)
LEMMA AtProvider ==
  ASSUME StartForm, module <= Len(config.modules)
  PROVE  /\ Len(Providers) \in Nat /\ DOMAIN Providers = 1..Len(Providers)
         /\ Len(config.modules) \in Nat /\ module \in DOMAIN config.modules
         /\ at <= Len(Providers) => at \in DOMAIN Providers /\ ProviderForm(Providers[at])
<1>1. Len(config.modules) \in Nat /\ DOMAIN config.modules = 1..Len(config.modules)
  BY ApplicationAssumption, LenProperties DEF StartForm
<1>2. module \in DOMAIN config.modules /\ at \in Nat \ {0}
  BY <1>1 DEF StartForm, Bounds
<1> QED BY <1>1, <1>2, ProvidersAre DEF Providers, StartForm

LEMMA ModulesLength ==
  ASSUME StartForm
  PROVE  /\ Len(config.modules) \in Nat /\ DOMAIN config.modules = 1..Len(config.modules)
         /\ Len(Processors) \in Nat /\ DOMAIN Processors = 1..Len(Processors)
         /\ ProviderInstances \subseteq DOMAIN Processors
  BY ApplicationAssumption, LenProperties DEF StartForm, ProviderInstances

LEMMA SameProviders ==
  ASSUME config' = config
  PROVE  /\ module' = module => Providers' = Providers
         /\ ProviderInstances' = ProviderInstances
         /\ \A imported : ProvidersOf(imported)' = ProvidersOf(imported)
  BY DEF Providers, ProvidersOf, ForRoot, ForRootAsync, ConnectionProviders,
         HandleProviders, Names, ConnectionNames, ProviderInstances

LEMMA BootRefers ==
  ASSUME RegistryForm, StartForm, Boot PROVE RegistryForm' /\ NamesStay
<1> /\ Container \in Callers /\ DOMAIN calls = Callers
  BY ApplicationAssumption DEF RegistryForm, CallsRefer
<1>1. Steady
  BY BootSteady DEF RegistryForm, ConnectionsForm
<1>2. CASE \/ Fails \/ ProvideEnds \/ ModuleProvided \/ WarmEnds \/ SkipsProvider
           \/ RegisterEventListeners \/ BootstrapEnds
  BY <1>1, <1>2, QuietRefers
     DEF Fails, ProvideEnds, ModuleProvided, WarmEnds, SkipsProvider,
         RegisterEventListeners, BootstrapEnds, Taken, managerVars
<1>3. CASE ProvideRegistration
  <2>1. Providers[at].does = "register" /\ ProviderForm(Providers[at])
    BY <1>3, AtProvider DEF ProvideRegistration, HasProvider
  <2>2. Providers[at].driver \in Drivers
    BY <2>1 DEF ProviderForm
  <2>3. UNCHANGED <<config, defaultName, connections, instances, creating, handles, calls, closing>>
    BY <1>3 DEF ProvideRegistration
  <2>4. DefaultsForm'
    BY <1>3, <2>2, <2>3 DEF ProvideRegistration, RegisterConnector, RegistryForm, DefaultsForm,
                            ConnectionNames
  <2>5. NamesStay
    BY <2>3, SameNames DEF RegistryForm
  <2>6. ConnectionsForm'
    BY <1>1, <2>5, SteadyForm DEF NamesStay
  <2> QED BY <2>3, <2>4, <2>5, <2>6, ReferencesStay DEF RegistryForm
<1>4. CASE ProvideBegins
  <2>1. ProviderForm(Providers[at]) /\ Providers[at].does # "register"
    BY <1>4, AtProvider DEF ProvideBegins, HasProvider
  <2>2. Providers[at].queue \in QueueNames \cup {None}
    BY <2>1 DEF ProviderForm
  <2> QED BY <1>1, <1>4, <2>2, AskRefers DEF ProvideBegins
<1>5. CASE WarmBegins
  <2>1. CASE defaultName \in ConnectionNames
    BY <1>1, <1>5, <2>1, AskRefers DEF WarmBegins
  <2>2. CASE defaultName \notin ConnectionNames
    BY <1>1, <1>5, <2>2, QuietRefers DEF WarmBegins, managerVars
  <2> QED BY <2>1, <2>2
<1>6. CASE RegisterBegins
  <2>1. CASE Processors[at].isHost
    BY <1>1, <1>6, <2>1, AskRefers DEF RegisterBegins
  <2>2. CASE ~Processors[at].isHost
    BY <1>1, <1>6, <2>2, QuietRefers DEF RegisterBegins, managerVars
  <2> QED BY <2>1, <2>2
<1>7. CASE RegisterEnds
  <2>1. calls[Container].got.conn \in Ids
    BY <1>7 DEF RegistryForm, CallsRefer, CallForm, Refers, RegisterEnds, ContainerAnswer
  <2> QED BY <1>1, <1>7, <2>1, QuietRefers DEF RegisterEnds, ContainerAnswer, Taken
<1> QED BY <1>2, <1>3, <1>4, <1>5, <1>6, <1>7 DEF Boot

(* What the container asks for before the application is up.               *)
LEMMA ContainerAsks ==
  ASSUME RegistryForm, StartForm, phase \notin {"up", "stopped"}, NEW name, NEW queue,
         Ask(Container, name, queue)
  PROVE  /\ ~IsIdle(Container)' /\ AsksFor(name, queue)'
         /\ UNCHANGED <<config, defaultName>>
<1>1. /\ UNCHANGED <<config, defaultName>> /\ Gives(Container, NameOf(name), queue)
  BY AskGives, ApplicationAssumption DEF RegistryForm, CallsRefer
<1>2. NameOf(name) = Declared(name)
  BY DEF StartForm, NameOf, Declared
<1> QED BY <1>1, <1>2 DEF Gives, AsksFor, IsIdle, Declared

LEMMA BootStarts ==
  ASSUME RegistryForm, StartForm, Boot PROVE StartForm'
<1> /\ Container \in Callers /\ DOMAIN calls = Callers
  BY ApplicationAssumption DEF RegistryForm, CallsRefer
<1>a. /\ Steady /\ config' = config
      /\ phase \in {"providing", "warming", "bootstrapping", "subscribing"}
  BY BootSteady DEF RegistryForm, ConnectionsForm, Steady
<1>b. /\ module \in 1..(Len(config.modules) + 1) /\ at \in Nat \ {0}
      /\ defaultName = config.default
  BY <1>a DEF StartForm, Bounds
<1>c. Taken => IsIdle(Container)'
  BY DEF Taken, IsIdle, Idle
<1>1. CASE Fails
  BY <1>1, <1>a, <1>b DEF Fails, StartForm, Bounds, FactoryCalls, LoaderCalls
<1>2. CASE ProvideRegistration
  <2>1. IsIdle(Container)'
    BY <1>2 DEF ProvideRegistration, StartForm, FactoryCalls, IsIdle, HasProvider
  <2> QED BY <1>2, <1>a, <1>b, <2>1, AtProvider, SameProviders
          DEF ProvideRegistration, Advance, HasProvider, StartForm, Bounds, FactoryCalls, LoaderCalls
<1>3. CASE ProvideBegins
  <2>1. ~IsIdle(Container)' /\ AsksFor(Providers[at].name, Providers[at].queue)'
    <3>1. PICK name, queue : name = Providers[at].name /\ queue = Providers[at].queue
      OBVIOUS
    <3>2. UNCHANGED <<module, at>>
      BY <1>3 DEF ProvideBegins, appVars
    <3>3. AsksFor(name, queue)' /\ ~IsIdle(Container)'
      BY <1>3, <1>a, <3>1, ContainerAsks DEF ProvideBegins
    <3>4. Providers'[at'] = Providers[at]
      BY <1>a, <3>2, SameProviders
    <3> QED BY <3>1, <3>3, <3>4 DEF AsksFor
  <2>2. UNCHANGED appVars /\ UNCHANGED <<config, defaultName>> /\ HasProvider
        /\ phase = "providing" /\ Providers[at].does # "register"
    BY <1>3 DEF ProvideBegins, Ask, HasProvider
  <2>3. Providers' = Providers
    BY <2>2, SameProviders DEF appVars
  <2> QED BY <2>1, <2>2, <2>3 DEF StartForm, Bounds, FactoryCalls, LoaderCalls, HasProvider, appVars
<1>4. CASE ProvideEnds
  <2>1. HasProvider
    BY <1>4 DEF ProvideEnds, ContainerAnswer, StartForm, FactoryCalls, IsIdle
  <2> QED BY <1>4, <1>a, <1>b, <1>c, <2>1, AtProvider, SameProviders
          DEF ProvideEnds, Advance, HasProvider, StartForm, Bounds, FactoryCalls, LoaderCalls
<1>5. CASE ModuleProvided
  <2>1. IsIdle(Container)'
    BY <1>5, <1>b, AtProvider
       DEF ModuleProvided, StartForm, FactoryCalls, IsIdle, HasProvider, managerVars
  <2>2. module' <= Len(config.modules) => Len(Providers') \in Nat
    <3>1. ASSUME module' <= Len(config.modules) PROVE module' \in DOMAIN config.modules
      BY <1>5, <1>b, <3>1, ModulesLength DEF ModuleProvided
    <3>2. Providers' = ProvidersOf(config.modules[module'])
      BY <1>a, SameProviders DEF Providers
    <3> QED BY <1>a, <3>1, <3>2, ProvidersAre DEF StartForm
  <2> QED BY <1>5, <1>a, <1>b, <2>1, <2>2, ModulesLength
          DEF ModuleProvided, StartForm, Bounds, FactoryCalls, LoaderCalls, managerVars
<1>6. CASE WarmBegins
  <2>1. defaultName' = defaultName
    BY <1>6 DEF WarmBegins, Ask, managerVars
  <2> QED BY <1>6, <1>a, <1>b, <2>1
          DEF WarmBegins, StartForm, Bounds, FactoryCalls, LoaderCalls
<1>7. CASE WarmEnds
  BY <1>7, <1>a, <1>b, <1>c, ModulesLength
     DEF WarmEnds, StartForm, Bounds, FactoryCalls, LoaderCalls
<1>8. CASE SkipsProvider
  <2>1. IsIdle(Container)'
    BY <1>8 DEF SkipsProvider, StartForm, LoaderCalls, IsIdle, managerVars
  <2> QED BY <1>8, <1>a, <1>b, <2>1, ModulesLength
          DEF SkipsProvider, Advance, StartForm, Bounds, FactoryCalls, LoaderCalls, managerVars
<1>9. CASE RegisterBegins
  <2>1. CASE Processors[at].isHost
    <3>1. PICK name : name = Processors[at].connection
      OBVIOUS
    <3>2. ~IsIdle(Container)' /\ AsksFor(name, None)' /\ UNCHANGED <<config, defaultName>>
      BY <1>9, <1>a, <2>1, <3>1, ContainerAsks DEF RegisterBegins
    <3>3. UNCHANGED <<phase, module, at>> /\ at \in ProviderInstances /\ phase = "bootstrapping"
      BY <1>9, <2>1 DEF RegisterBegins
    <3>4. AsksFor(Processors[at].connection, None)'
      BY <3>1, <3>2, <3>3 DEF AsksFor
    <3> QED BY <3>2, <3>3, <3>4, SameProviders
            DEF StartForm, Bounds, FactoryCalls, LoaderCalls
  <2>2. CASE ~Processors[at].isHost
    BY <1>9, <1>a, <1>b, <2>2
       DEF RegisterBegins, StartForm, Bounds, FactoryCalls, LoaderCalls, managerVars
  <2> QED BY <2>1, <2>2
<1>10. CASE RegisterEnds
  <2>1. at \in ProviderInstances
    BY <1>10 DEF RegisterEnds, ContainerAnswer, StartForm, LoaderCalls, IsIdle
  <2> QED BY <1>10, <1>a, <1>b, <1>c, <2>1, SameProviders
          DEF RegisterEnds, StartForm, Bounds, FactoryCalls, LoaderCalls
<1>11. CASE RegisterEventListeners
  <2>1. IsIdle(Container)' /\ at \in 1..Len(Processors) /\ Len(Processors) \in Nat
    BY <1>11, ModulesLength
       DEF RegisterEventListeners, StartForm, LoaderCalls, Bounds, IsIdle, managerVars
  <2> QED BY <1>11, <1>a, <1>b, <2>1, SameProviders
          DEF RegisterEventListeners, Advance, StartForm, Bounds, FactoryCalls, LoaderCalls, managerVars
<1>12. CASE BootstrapEnds
  BY <1>12, <1>a, <1>b DEF BootstrapEnds, StartForm, Bounds, FactoryCalls, LoaderCalls, managerVars
<1> QED BY <1>1, <1>2, <1>3, <1>4, <1>5, <1>6, <1>7, <1>8, <1>9, <1>10, <1>11, <1>12 DEF Boot

LEMMA BootHolds ==
  ASSUME StartInv, Boot PROVE HoldersForm'
<1>1. NamesStay
  BY BootRefers DEF StartInv
<1>2. UNCHANGED <<shown, renders>>
  BY DEF Boot, Fails, ProvideRegistration, ProvideBegins, ProvideEnds, ModuleProvided,
         WarmBegins, WarmEnds, SkipsProvider, RegisterBegins, RegisterEnds,
         RegisterEventListeners, BootstrapEnds, hookVars
<1>3. kept' = running'
  BY DEF StartInv, HoldersForm, Boot, Fails, ProvideRegistration, ProvideBegins, ProvideEnds,
         ModuleProvided, WarmBegins, WarmEnds, SkipsProvider, RegisterBegins, RegisterEnds,
         RegisterEventListeners, BootstrapEnds, Starts, appVars
<1>4. \A token \in DOMAIN tokens' : tokens'[token].conn \in Ids'
  <2>1. CASE ProvideEnds
    <3>1. calls[Container].got.conn \in Ids
      BY <2>1, ApplicationAssumption
         DEF StartInv, RegistryForm, CallsRefer, CallForm, Refers, ProvideEnds, ContainerAnswer
    <3> QED BY <1>1, <2>1, <3>1 DEF ProvideEnds, ContainerAnswer, Put, StartInv, HoldersForm, NamesStay
  <2>2. CASE ~ProvideEnds
    <3>1. tokens' = tokens
      BY <2>2 DEF Boot, Fails, ProvideRegistration, ProvideBegins, ModuleProvided,
                  WarmBegins, WarmEnds, SkipsProvider, RegisterBegins, RegisterEnds,
                  RegisterEventListeners, BootstrapEnds, appVars
    <3> QED BY <1>1, <3>1 DEF StartInv, HoldersForm, NamesStay
  <2> QED BY <2>1, <2>2
<1> QED BY <1>1, <1>2, <1>3, <1>4 DEF StartInv, HoldersForm, NamesStay

LEMMA StartInitial == ApplicationInit => StartInv
<1> SUFFICES ASSUME ApplicationInit PROVE StartInv
  OBVIOUS
<1>1. /\ connections = <<>> /\ instances = NoMap /\ creating = NoMap /\ handles = NoMap
      /\ calls = [p \in Callers |-> Idle] /\ closing = {} /\ config \in Configs
      /\ defaultName = config.default /\ connectors = {}
      /\ shown = [h \in Hooks |-> None] /\ renders = 0
      /\ phase \in {"providing", "refused"} /\ module = 1 /\ at = 1
      /\ tokens = NoMap /\ running = {} /\ kept = {}
  BY DEF ApplicationInit, ManagerInit, HooksInit
<1>2. DOMAIN NoMap = {} /\ Container \in Callers /\ MaxRenders \in Nat
  BY ApplicationAssumption, ManagerAssumption DEF NoMap
<1>3. /\ Len(config.modules) \in Nat /\ DOMAIN config.modules = 1..Len(config.modules)
  BY <1>1, ApplicationAssumption, LenProperties
<1>4. module <= Len(config.modules) => Len(Providers) \in Nat
  BY <1>1, <1>3, ProvidersAre DEF Providers
<1>5. Bounds
  BY <1>1, <1>3, <1>4 DEF Bounds
<1>6. FactoryCalls /\ LoaderCalls
  BY <1>1, <1>2 DEF FactoryCalls, LoaderCalls, IsIdle, Idle
<1>7. StartForm
  BY <1>1, <1>5, <1>6 DEF StartForm
<1>8. ConnectionsForm /\ DefaultsForm
  BY <1>1 DEF ConnectionsForm, DefaultsForm
<1>9. InstancesRefer /\ CreatingRefer /\ ClosingRefer /\ HandlesForm
  BY <1>1, <1>2 DEF InstancesRefer, CreatingRefer, ClosingRefer, HandlesForm
<1>10. CallsRefer
  BY <1>1 DEF CallsRefer, CallForm, Idle
<1>11. HoldersForm
  BY <1>1, <1>2 DEF HoldersForm
<1> QED BY <1>7, <1>8, <1>9, <1>10, <1>11 DEF StartInv, RegistryForm

LEMMA StartInductive == StartInv /\ [ApplicationNext]_vars => StartInv' /\ NamesStay
<1> SUFFICES ASSUME StartInv, [ApplicationNext]_vars PROVE StartInv' /\ NamesStay
  OBVIOUS
<1>1. CASE UNCHANGED vars
  <2>1. UNCHANGED <<managerVars, hookVars, appVars>>
    BY <1>1 DEF vars
  <2>2. Steady /\ UNCHANGED managerVars
    BY <2>1 DEF Steady, managerVars, appVars, StartInv, RegistryForm, ConnectionsForm
  <2>3. RegistryForm' /\ NamesStay
    BY <2>2, QuietRefers DEF StartInv, managerVars
  <2>4. StartForm'
    BY <2>1, SameProviders
       DEF managerVars, appVars, StartInv, StartForm, Bounds, FactoryCalls, LoaderCalls,
           HasProvider, AsksFor, Declared, IsIdle
  <2>5. HoldersForm'
    BY <2>1 DEF managerVars, hookVars, appVars, StartInv, HoldersForm, Ids
  <2> QED BY <2>3, <2>4, <2>5 DEF StartInv
<1>2. CASE Boot
  BY <1>2, BootRefers, BootStarts, BootHolds DEF StartInv
<1>3. CASE Outside
  BY <1>3, OutsideRefers, OutsideStarts, OutsideHolds DEF StartInv
<1> QED BY <1>1, <1>2, <1>3 DEF ApplicationNext, Outside

(* Whoever disconnects what and whenever: every name, handle, call and     *)
(* injected value refers to a connection of its name that exists, and the  *)
(* container is at a provider or a processor that there is.                *)
THEOREM ApplicationTypeOKAlways == ApplicationSpec => []ApplicationTypeOK
<1>1. ASSUME StartInv PROVE ApplicationTypeOK
  <2>1. \A id \in Ids : /\ connections[id].name \in ConnectionNames
                        /\ connections[id].state \in
                             {"connecting", "open", "failed", "closed"}
    BY <1>1, ConnectionType DEF StartInv, RegistryForm, Connection
  <2>2. \A map \in {instances, creating} :
          DOMAIN map \subseteq ConnectionNames /\ \A name \in DOMAIN map : map[name] \in Ids
    BY <1>1, <2>1 DEF StartInv, RegistryForm, InstancesRefer, CreatingRefer, Refers
  <2>3. DOMAIN handles \subseteq ConnectionNames \X QueueNames
    <3>1. ASSUME NEW key \in DOMAIN handles
          PROVE  key = <<key[1], key[2]>> /\ key[1] \in ConnectionNames /\ key[2] \in QueueNames
      BY <1>1, <2>1 DEF StartInv, RegistryForm, HandlesForm, HandleForm, Refers
    <3> QED BY <3>1
  <2>4. ManagerTypeOK
    BY <1>1, <2>1, <2>2, <2>3
       DEF ManagerTypeOK, StartInv, RegistryForm, DefaultsForm, CallsRefer, CallForm, HoldersForm
  <2>5. /\ Len(config.modules) \in Nat /\ Len(Processors) \in Nat
        /\ module <= Len(config.modules) => Len(Providers) \in Nat
    BY <1>1, ModulesLength, AtProvider DEF StartInv
  <2> QED BY <1>1, <2>4, <2>5
          DEF ApplicationTypeOK, StartInv, StartForm, Bounds, HoldersForm
<1> QED BY <1>1, StartInitial, StartInductive, PTL DEF ApplicationSpec

-----------------------------------------------------------------------------
(* The tokens.  No two providers are for the same token and different      *)
(* connections or queues.                                                  *)
OrDefault(x) == IF x = None THEN "default" ELSE x

LEMMA TokenForms ==
  ASSUME NEW n, NEW m
  PROVE  /\ ConnectionToken(n) = ConnectionToken(m) => n = m
         /\ ConnectionToken(n) # DefaultConnectionToken
         /\ \A p, q : /\ QueueToken(q, n) # ConnectionToken(m)
                      /\ QueueToken(q, n) # DefaultConnectionToken
                      /\ QueueToken(p, n) = QueueToken(q, m) =>
                           OrDefault(n) = OrDefault(m) /\ OrDefault(p) = OrDefault(q)
<1>1. ConnectionToken(n)[1] = "connection" /\ ConnectionToken(n)[2] = n /\ ConnectionToken(m)[2] = m
      /\ ConnectionToken(m)[1] = "connection"
  BY DEF ConnectionToken
<1>2. DefaultConnectionToken[1] = "defaultConnection"
  BY DEF DefaultConnectionToken
<1>3. \A q, k : QueueToken(q, k) = <<"queue", OrDefault(k), OrDefault(q)>>
  BY DEF QueueToken, OrDefault
<1>4. \A q, k : QueueToken(q, k)[1] = "queue" /\ QueueToken(q, k)[2] = OrDefault(k)
                /\ QueueToken(q, k)[3] = OrDefault(q)
  BY <1>3
<1>5. ConnectionToken(n) = ConnectionToken(m) => n = m
  BY <1>1
<1>6. ConnectionToken(n) # DefaultConnectionToken
  <2>1. ConnectionToken(n)[1] # DefaultConnectionToken[1]
    BY <1>1, <1>2
  <2> QED BY <2>1
<1>7. ASSUME NEW q PROVE /\ QueueToken(q, n) # ConnectionToken(m)
                         /\ QueueToken(q, n) # DefaultConnectionToken
  <2>1. /\ QueueToken(q, n)[1] # ConnectionToken(m)[1]
        /\ QueueToken(q, n)[1] # DefaultConnectionToken[1]
    BY <1>1, <1>2, <1>4
  <2> QED BY <2>1
<1>8. ASSUME NEW p, NEW q, QueueToken(p, n) = QueueToken(q, m)
      PROVE  OrDefault(n) = OrDefault(m) /\ OrDefault(p) = OrDefault(q)
  BY <1>4, <1>8
<1> QED BY <1>5, <1>6, <1>7, <1>8

LEMMA TokensApart ==
  ASSUME config \in Configs, NamesApart, NEW P, ProviderForm(P), P.does # "register",
         Declared(P.name) \in ConnectionNames, NEW name \in ConnectionNames \cup {None}
  PROVE  /\ P.token = InjectQueueConnection(name) =>
              Declared(P.name) = Declared(name) /\ P.queue = None
         /\ \A queue \in QueueNames : P.token = InjectQueue(queue, name) =>
              Declared(P.name) = Declared(name) /\ P.queue = queue
<1>1. /\ None \notin ConnectionNames /\ None \notin QueueNames /\ "default" # None
      /\ "default" \in ConnectionNames => config.default = "default"
  BY ApplicationAssumption DEF NamesApart, ConnectionNames
<1>2. PICK token, n, q : token = P.token /\ n = P.name /\ q = P.queue
  OBVIOUS
<1>3. \/ q = None /\ token = DefaultConnectionToken /\ n = config.default
      \/ q = None /\ token = ConnectionToken(n) /\ n \in ConnectionNames
      \/ q \in QueueNames /\ token = QueueToken(q, n)
  BY <1>2 DEF ProviderForm
<1>4. ASSUME token = InjectQueueConnection(name)
      PROVE  Declared(n) = Declared(name) /\ q = None
  <2>1. CASE name = None
    <3>1. token = DefaultConnectionToken
      BY <1>4, <2>1 DEF InjectQueueConnection
    <3>2. q = None /\ n = config.default
      BY <1>3, <3>1, TokenForms
    <3> QED BY <2>1, <3>2 DEF Declared
  <2>2. CASE name # None
    <3>1. token = ConnectionToken(name)
      BY <1>4, <2>2 DEF InjectQueueConnection
    <3>2. q = None /\ n = name
      BY <1>3, <3>1, TokenForms
    <3> QED BY <3>2
  <2> QED BY <2>1, <2>2
<1>5. ASSUME NEW queue \in QueueNames, token = InjectQueue(queue, name)
      PROVE  Declared(n) = Declared(name) /\ q = queue
  <2>1. token = QueueToken(queue, name)
    BY <1>5 DEF InjectQueue
  <2>2. q \in QueueNames /\ OrDefault(q) = OrDefault(queue) /\ OrDefault(n) = OrDefault(name)
    BY <1>3, <2>1, TokenForms
  <2>3. q = queue
    BY <1>1, <2>2 DEF OrDefault
  <2>4. Declared(n) = Declared(name)
    BY <1>1, <1>2, <2>2 DEF OrDefault, Declared
  <2> QED BY <2>3, <2>4
<1> QED BY <1>2, <1>4, <1>5

LEMMA TokensStay ==
  ASSUME StartInv, AllResolve, AllGiven, NamesStay, UNCHANGED <<config, tokens>>,
         connectors \subseteq connectors',
         \A k \in DOMAIN config.modules : \A j \in DOMAIN ProvidersOf(config.modules[k]) :
           Past(k, j)' => Past(k, j)
  PROVE  AllResolve' /\ AllGiven'
<1>1. \A token \in DOMAIN tokens : tokens[token].conn \in Ids
  BY DEF StartInv, HoldersForm
<1>2. \A token, name, queue : Resolves(token, name, queue) => Resolves(token, name, queue)'
  BY <1>1 DEF Resolves, NamesStay, Declared
<1>3. AllResolve'
  BY <1>2 DEF AllResolve, ConnectionNames, InjectQueueConnection, InjectQueue
<1>4. AllGiven'
  BY SameProviders DEF AllGiven, Given
<1> QED BY <1>3, <1>4

LEMMA PastNow ==
  ASSUME StartInv, module' = module, at' = at + 1, HasProvider, NEW k, NEW j \in Nat, Past(k, j)'
  PROVE  Past(k, j) \/ (k = module /\ j = at)
  BY DEF StartInv, StartForm, Bounds, Past

LEMMA ProvideEndsTokens ==
  ASSUME NamesApart, TokensInv, ProvideEnds PROVE AllResolve' /\ AllGiven'
<1> DEFINE P == Providers[at]
           got == calls[Container].got
<1>1. /\ HasProvider /\ P.does # "register" /\ calls[Container].stage = "done"
      /\ calls[Container].name = Declared(P.name) /\ calls[Container].queue = P.queue
      /\ UNCHANGED <<config, connections, connectors, module>> /\ at' = at + 1
      /\ tokens' = Put(tokens, P.token, got)
  BY DEF ProvideEnds, Advance, ContainerAnswer, TokensInv, StartInv, StartForm, FactoryCalls,
         AsksFor, IsIdle
<1>2. /\ got.conn \in Ids /\ connections[got.conn].name = Declared(P.name)
      /\ got.queue = P.queue
  <2>1. CallForm(Container)
    BY ApplicationAssumption DEF TokensInv, StartInv, RegistryForm, CallsRefer
  <2>2. Refers(got.conn, calls[Container].name) /\ got = Handle(got.conn, calls[Container].queue)
    BY <1>1, <2>1 DEF CallForm
  <2>3. PICK id, queue : got = Handle(id, queue) /\ queue = calls[Container].queue
    BY <2>2
  <2>4. got.queue = queue
    BY <2>3 DEF Handle
  <2> QED BY <1>1, <2>2, <2>3, <2>4 DEF Refers
<1>3. Declared(P.name) \in ConnectionNames
  BY <1>2, ConnectionType DEF TokensInv, StartInv, RegistryForm
<1>4. ProviderForm(P) /\ config \in Configs
  BY <1>1, AtProvider DEF TokensInv, StartInv, StartForm, HasProvider
<1> HIDE DEF P, got
<1>5. /\ DOMAIN tokens' = DOMAIN tokens \cup {P.token} /\ tokens'[P.token] = got
      /\ \A token \in DOMAIN tokens \ {P.token} : tokens'[token] = tokens[token]
  BY <1>1 DEF Put
<1>6. ASSUME NEW token, NEW name, NEW queue, Resolves(token, name, queue),
             P.token = token => Declared(P.name) = Declared(name) /\ P.queue = queue
      PROVE  Resolves(token, name, queue)'
  BY <1>1, <1>2, <1>5, <1>6 DEF Resolves, Declared
<1>7. AllResolve'
  <2>1. ASSUME NEW name \in ConnectionNames \cup {None}
        PROVE  /\ Resolves(InjectQueueConnection(name), name, None)'
               /\ \A queue \in QueueNames : Resolves(InjectQueue(queue, name), name, queue)'
    <3>1. /\ P.token = InjectQueueConnection(name) =>
               Declared(P.name) = Declared(name) /\ P.queue = None
          /\ \A queue \in QueueNames : P.token = InjectQueue(queue, name) =>
               Declared(P.name) = Declared(name) /\ P.queue = queue
      BY <1>1, <1>3, <1>4, TokensApart
    <3>2. /\ Resolves(InjectQueueConnection(name), name, None)
          /\ \A queue \in QueueNames : Resolves(InjectQueue(queue, name), name, queue)
      BY DEF TokensInv, AllResolve
    <3>3. PICK token : token = InjectQueueConnection(name)
      OBVIOUS
    <3>4. Resolves(token, name, None)'
      BY <1>6, <3>1, <3>2, <3>3
    <3>5. ASSUME NEW queue \in QueueNames PROVE Resolves(InjectQueue(queue, name), name, queue)'
      BY <1>6, <3>1, <3>2
    <3> QED BY <3>3, <3>4, <3>5
  <2> QED BY <1>1, <2>1 DEF AllResolve, ConnectionNames
<1>8. AllGiven'
  <2>1. ASSUME NEW k \in DOMAIN config.modules, NEW j \in DOMAIN ProvidersOf(config.modules[k]),
               Past(k, j)', NEW provider, provider = ProvidersOf(config.modules[k])[j]
        PROVE  Given(provider)'
    <3>1. j \in Nat
      BY <1>4, ProvidersAre
    <3>2. Past(k, j) \/ (k = module /\ j = at)
      BY <1>1, <2>1, <3>1, PastNow DEF TokensInv
    <3>3. CASE Past(k, j)
      BY <1>1, <1>5, <2>1, <3>3 DEF TokensInv, AllGiven, Given
    <3>4. CASE k = module /\ j = at
      <4>1. provider = P
        BY <2>1, <3>4 DEF P, Providers
      <4> QED BY <1>1, <1>5, <4>1 DEF Given
    <3> QED BY <3>2, <3>3, <3>4
  <2> QED BY <1>1, <2>1, SameProviders DEF AllGiven
<1> QED BY <1>7, <1>8

LEMMA BootTokens ==
  ASSUME NamesApart, TokensInv, Boot PROVE AllResolve' /\ AllGiven'
<1>1. /\ NamesStay /\ config' = config /\ phase \in {"providing", "warming", "bootstrapping", "subscribing"}
      /\ StartInv /\ AllResolve /\ AllGiven
  BY BootRefers, BootSteady
     DEF Steady, TokensInv, StartInv, RegistryForm, ConnectionsForm
<1>2. /\ Len(config.modules) \in Nat /\ DOMAIN config.modules = 1..Len(config.modules)
      /\ module \in Nat \ {0} /\ at \in Nat \ {0} /\ config \in Configs
      /\ phase # "providing" => module > Len(config.modules)
  BY <1>1, ModulesLength DEF StartInv, StartForm, Bounds
<1>3. CASE ProvideEnds
  BY <1>3, ProvideEndsTokens
<1>4. CASE ProvideRegistration
  <2>1. /\ UNCHANGED <<module, tokens>> /\ at' = at + 1 /\ HasProvider
        /\ connectors' = connectors \cup {Providers[at].driver}
        /\ Providers[at].does = "register"
    BY <1>4 DEF ProvideRegistration, RegisterConnector, Advance
  <2>2. \A token, name, queue : Resolves(token, name, queue) => Resolves(token, name, queue)'
    BY <1>1, <2>1 DEF Resolves, NamesStay, Declared, StartInv, HoldersForm
  <2>3. AllResolve'
    BY <1>1, <2>2 DEF AllResolve, ConnectionNames, InjectQueueConnection, InjectQueue
  <2>4. ASSUME NEW k \in DOMAIN config.modules, NEW j \in DOMAIN ProvidersOf(config.modules[k]),
               Past(k, j)', NEW provider, provider = ProvidersOf(config.modules[k])[j]
        PROVE  Given(provider)'
    <3>1. j \in Nat
      BY <1>2, ProvidersAre
    <3>2. Past(k, j) \/ (k = module /\ j = at)
      BY <1>1, <2>1, <2>4, <3>1, PastNow
    <3>3. CASE Past(k, j)
      BY <1>1, <2>1, <2>4, <3>3 DEF AllGiven, Given
    <3>4. CASE k = module /\ j = at
      BY <2>1, <2>4, <3>4 DEF Given, Providers
    <3> QED BY <3>2, <3>3, <3>4
  <2>5. AllGiven'
    BY <1>1, <2>4, SameProviders DEF AllGiven
  <2> QED BY <2>3, <2>5
<1>5. CASE ~ProvideEnds /\ ~ProvideRegistration
  <2>1. UNCHANGED <<tokens, connectors>>
    BY <1>5 DEF Boot, Fails, ProvideBegins, ModuleProvided, WarmBegins, WarmEnds, SkipsProvider,
                RegisterBegins, RegisterEnds, RegisterEventListeners, BootstrapEnds, Ask,
                managerVars, appVars
  <2>2. \/ UNCHANGED <<module, at>>
        \/ module' = module /\ phase # "providing"
        \/ ModuleProvided
    BY <1>5 DEF Boot, Fails, ProvideBegins, WarmBegins, WarmEnds, SkipsProvider,
                RegisterBegins, RegisterEnds, RegisterEventListeners, BootstrapEnds, appVars
  <2>3. ASSUME NEW k \in DOMAIN config.modules, NEW j \in DOMAIN ProvidersOf(config.modules[k]),
               Past(k, j)'
        PROVE  Past(k, j)
    <3>1. j \in 1..Len(ProvidersOf(config.modules[k]))
      BY <1>2, ProvidersAre
    <3>2. CASE UNCHANGED <<module, at>>
      BY <2>3, <3>2 DEF Past
    <3>3. CASE module' = module /\ phase # "providing"
      BY <1>2, <3>3 DEF Past
    <3>4. CASE ModuleProvided
      <4>1. /\ module' = module + 1 /\ at' = 1 /\ at > Len(Providers)
            /\ Len(Providers) \in Nat
        BY <1>1, <3>4, AtProvider DEF ModuleProvided, StartInv
      <4>2. k < module \/ k = module
        BY <1>2, <2>3, <3>1, <4>1 DEF Past
      <4>3. k = module => j <= Len(Providers)
        BY <3>1 DEF Providers
      <4> QED BY <1>2, <3>1, <4>1, <4>2, <4>3 DEF Past
    <3> QED BY <2>2, <3>2, <3>3, <3>4
  <2> QED BY <1>1, <2>1, <2>3, TokensStay
<1> QED BY <1>3, <1>4, <1>5

LEMMA TokensInductive ==
  ASSUME NamesApart
  PROVE  TokensInv /\ [ApplicationNext]_vars => TokensInv'
<1> SUFFICES ASSUME TokensInv, [ApplicationNext]_vars PROVE TokensInv'
  OBVIOUS
<1>1. StartInv' /\ NamesStay
  BY StartInductive DEF TokensInv
<1>2. CASE Boot
  BY <1>1, <1>2, BootTokens DEF TokensInv
<1>3. CASE Outside \/ UNCHANGED vars
  <2>1. UNCHANGED <<config, tokens, connectors, module, at>>
    <3>1. CASE Outside
      BY <3>1, OutsideLeaves DEF Steady, TokensInv, StartInv, RegistryForm, CallsRefer, ConnectionsForm
    <3>2. CASE UNCHANGED vars
      BY <3>2 DEF vars, managerVars, appVars
    <3> QED BY <1>3, <3>1, <3>2
  <2> QED BY <1>1, <2>1, TokensStay DEF TokensInv, Past
<1> QED BY <1>2, <1>3 DEF ApplicationNext, Outside

(* In an application that calls no other connection than the default one   *)
(* "default", everything that forRoot and forFeatureQueues were given can  *)
(* be injected once it is up, whatever the order of the imports, and is    *)
(* the connection and the queue that were declared, whatever the users do  *)
(* with the default name meanwhile.                                        *)
THEOREM TokensResolveAlways == NamesApart => (ApplicationSpec => []TokensResolve)
<1> SUFFICES ASSUME NamesApart PROVE ApplicationSpec => []TokensResolve
  OBVIOUS
<1>1. ApplicationInit => TokensInv
  <2> SUFFICES ASSUME ApplicationInit PROVE TokensInv
    OBVIOUS
  <2>1. StartInv /\ DOMAIN tokens = {} /\ module = 1 /\ at = 1 /\ calls = [p \in Callers |-> Idle]
    BY StartInitial DEF ApplicationInit, ManagerInit, NoMap
  <2>2. ASSUME NEW k \in DOMAIN config.modules, NEW j \in DOMAIN ProvidersOf(config.modules[k])
        PROVE  ~Past(k, j)
    BY <2>1, ModulesLength, ProvidersAre DEF StartInv, StartForm, Past
  <2>3. AllGiven
    BY <2>2 DEF AllGiven
  <2>4. AllResolve
    BY <2>1 DEF AllResolve, Resolves
  <2> QED BY <2>1, <2>3, <2>4 DEF TokensInv
<1>2. ASSUME TokensInv PROVE TokensResolve
  <2>1. SUFFICES ASSUME phase = "up"
                 PROVE  /\ \A i \in DOMAIN FeatureQueues :
                             "forFeatureQueues" \in Range(config.modules) =>
                               InjectQueue(FeatureQueues[i].queue, FeatureQueues[i].connection)
                                 \in DOMAIN tokens
                        /\ ~config.async /\ "forRoot" \in Range(config.modules) =>
                             \A name \in ConnectionNames \cup {None} :
                               {InjectQueueConnection(name), InjectQueue(None, name)}
                                 \subseteq DOMAIN tokens
    BY <1>2 DEF TokensInv, TokensResolve, AllResolve
  <2>2. /\ config \in Configs /\ DOMAIN config.modules = 1..Len(config.modules)
        /\ Len(config.modules) \in Nat /\ module > Len(config.modules) /\ module \in Nat
    BY <1>2, <2>1, ModulesLength DEF TokensInv, StartInv, StartForm, Bounds
  <2>3. ASSUME NEW imported \in Range(config.modules), NEW P \in Range(ProvidersOf(imported)),
               P.does # "register"
        PROVE  P.token \in DOMAIN tokens
    <3>1. PICK k \in DOMAIN config.modules : imported = config.modules[k]
      BY DEF Range
    <3>2. PICK j \in DOMAIN ProvidersOf(imported) : P = ProvidersOf(imported)[j]
      BY DEF Range
    <3>3. Past(k, j)
      BY <2>2 DEF Past
    <3> QED BY <1>2, <2>3, <3>1, <3>2, <3>3 DEF TokensInv, AllGiven, Given
  <2>4. ASSUME NEW i \in DOMAIN FeatureQueues, "forFeatureQueues" \in Range(config.modules)
        PROVE  InjectQueue(FeatureQueues[i].queue, FeatureQueues[i].connection) \in DOMAIN tokens
    <3>1. PICK q, c : q = FeatureQueues[i].queue /\ c = FeatureQueues[i].connection
      OBVIOUS
    <3>2. Handles(QueueToken(q, c), c, q) \in Range(ProvidersOf("forFeatureQueues"))
      BY <3>1, FeatureQueuesFormed DEF ProvidersOf
    <3>3. /\ Handles(QueueToken(q, c), c, q).does # "register"
          /\ Handles(QueueToken(q, c), c, q).token = QueueToken(q, c)
      BY DEF Handles
    <3> QED BY <2>3, <2>4, <3>1, <3>2, <3>3 DEF InjectQueue
  <2>5. ASSUME ~config.async, "forRoot" \in Range(config.modules),
               NEW name \in ConnectionNames \cup {None}
        PROVE  {InjectQueueConnection(name), InjectQueue(None, name)} \subseteq DOMAIN tokens
    <3>1. "forRoot" \in Range(config.modules) /\ ProvidersOf("forRoot") = ForRoot
      BY <2>5 DEF ProvidersOf
    <3>2. \A token, n, q : /\ Connects(token, n).does # "register" /\ Connects(token, n).token = token
                           /\ Handles(token, n, q).does # "register" /\ Handles(token, n, q).token = token
      BY DEF Connects, Handles
    <3>3. CASE name = None
      <4>1. /\ DefaultConnection \in Range(ForRoot) /\ DefaultHandle \in Range(ForRoot)
        BY <2>2, ForRootHas
      <4>2. DefaultConnectionToken \in DOMAIN tokens /\ QueueToken(None, None) \in DOMAIN tokens
        BY <2>3, <3>1, <3>2, <4>1 DEF DefaultConnection, DefaultHandle
      <4> QED BY <3>3, <4>2 DEF InjectQueueConnection, InjectQueue
    <3>4. CASE name # None
      <4>1. /\ Connects(ConnectionToken(name), name) \in Range(ForRoot)
            /\ Handles(QueueToken("default", name), name, "default") \in Range(ForRoot)
        BY <2>2, <3>4, ForRootHas
      <4>2. ConnectionToken(name) \in DOMAIN tokens /\ QueueToken("default", name) \in DOMAIN tokens
        BY <2>3, <3>1, <3>2, <4>1
      <4>3. QueueToken("default", name) = QueueToken(None, name)
        BY DEF QueueToken
      <4> QED BY <3>4, <4>2, <4>3 DEF InjectQueueConnection, InjectQueue
    <3> QED BY <3>3, <3>4
  <2> QED BY <2>1, <2>4, <2>5
<1> QED BY <1>1, <1>2, TokensInductive, PTL DEF ApplicationSpec

-----------------------------------------------------------------------------
(* The loader.  A processor that is not on a sync connection has a worker. *)
LEMMA ConcurrencyIs ==
  ASSUME NEW i \in DOMAIN Processors
  PROVE  Concurrency(Processors[i]) \in Nat \ {0}
<1>1. PICK c : c = Processors[i].concurrency
  OBVIOUS
<1>2. CASE c = None
  BY <1>1, <1>2 DEF Concurrency
<1>3. CASE c # None
  <2>1. c \in Int
    BY <1>1, <1>3, ApplicationAssumption
  <2>2. \E x \in {1, c} : \A y \in {1, c} : x >= y
    BY <2>1
  <2>3. Max({1, c}) \in {1, c} /\ \A y \in {1, c} : Max({1, c}) >= y
    BY <2>2 DEF Max
  <2>4. Concurrency(Processors[i]) = Max({1, c})
    BY <1>1, <1>3 DEF Concurrency
  <2> QED BY <2>1, <2>3, <2>4
<1> QED BY <1>2, <1>3

LEMMA WorkersAre ==
  ASSUME NEW i \in DOMAIN Processors, NEW id
  PROVE  /\ \A w \in WorkersOf(i, id) : w.is = "worker" /\ w.processor = i /\ w.conn = id
         /\ WorkersOf(i, id) # {}
<1>1. \A w \in WorkersOf(i, id) : w.is = "worker" /\ w.processor = i /\ w.conn = id
  BY DEF WorkersOf
<1>2. 1 \in 1..Concurrency(Processors[i])
  BY ConcurrencyIs
<1>3. [is |-> "worker", processor |-> i, conn |-> id, n |-> 1] \in WorkersOf(i, id)
  BY <1>2 DEF WorkersOf
<1> QED BY <1>1, <1>3

(* What a step other than the end of a registration leaves: the handlers,  *)
(* unless close() drops one, and the instances and handlers of a name that *)
(* has not been disconnected after it.                                     *)
KeepsBindings ==
  /\ \A id \in Ids' : \/ connections'[id].handler = None
                      \/ id \in Ids /\ connections'[id].handler = connections[id].handler
  /\ \A name : WasDisconnected(name) => WasDisconnected(name)'
  /\ closing = {} /\ stopping = "no" =>
       \A name, id : InstanceOf(name, id) => InstanceOf(name, id)'
  /\ stopping = "no" =>
       \A name, id : InstanceOf(name, id) /\ ~WasDisconnected(name)' =>
         /\ stopping' = "no" /\ InstanceOf(name, id)'
         /\ connections'[id].handler = connections[id].handler

ClosedStay ==
  \A id \in Ids : /\ id \in Ids' /\ connections'[id].name = connections[id].name
                  /\ connections[id].state = "closed" => connections'[id].state = "closed"

LEMMA Disconnected ==
  ASSUME ClosedStay, closing \subseteq closing', NEW name, WasDisconnected(name)
  PROVE  WasDisconnected(name)'
<1>1. Closing(name) => Closing(name)'
  BY DEF Closing
<1>2. (\E id \in Ids : connections[id].name = name /\ connections[id].state = "closed") =>
      (\E id \in Ids' : connections'[id].name = name /\ connections'[id].state = "closed")
  BY DEF ClosedStay
<1> QED BY <1>1, <1>2 DEF WasDisconnected

(* A step that does not disconnect and leaves the handlers.                *)
LEMMA KeptWithoutClosing ==
  ASSUME InstancesAre, ClosedStay, UNCHANGED <<closing, stopping>>,
         \A name \in DOMAIN instances : name \in DOMAIN instances' /\ instances'[name] = instances[name],
         \A id \in Ids : connections'[id].handler = connections[id].handler,
         \A id \in Ids' \ Ids : connections'[id].handler = None
  PROVE  KeepsBindings
<1>1. \A name : WasDisconnected(name) => WasDisconnected(name)'
  BY Disconnected
<1>2. ASSUME NEW name, NEW id, InstanceOf(name, id)
      PROVE  InstanceOf(name, id)' /\ connections'[id].handler = connections[id].handler
  BY <1>2 DEF InstancesAre, InstanceOf
<1>3. \A id \in Ids' : \/ connections'[id].handler = None
                       \/ id \in Ids /\ connections'[id].handler = connections[id].handler
  OBVIOUS
<1> QED BY <1>1, <1>2, <1>3 DEF KeepsBindings

LEMMA ConnectionsKept ==
  ASSUME ConnectionsForm, InstancesAre, UNCHANGED <<instances, closing, stopping>>,
         \/ connections' = connections
         \/ \E c \in Connection : connections' = Append(connections, c) /\ c.handler = None
  PROVE  KeepsBindings
<1>1. CASE connections' = connections
  <2>1. Ids' = Ids /\ ClosedStay
    BY <1>1 DEF Ids, ClosedStay
  <2> QED BY <1>1, <2>1, KeptWithoutClosing
<1>2. CASE \E c \in Connection : connections' = Append(connections, c) /\ c.handler = None
  <2>1. PICK c \in Connection : connections' = Append(connections, c) /\ c.handler = None
    BY <1>2
  <2>2. PICK new : new = Len(connections) + 1
    OBVIOUS
  <2>3. /\ Ids' = Ids \cup {new} /\ connections'[new] = c
        /\ \A id \in Ids : connections'[id] = connections[id]
    BY <2>1, <2>2, ConnectionAdded
  <2>4. ClosedStay
    BY <2>3 DEF ClosedStay
  <2> QED BY <2>1, <2>3, <2>4, KeptWithoutClosing
<1> QED BY <1>1, <1>2

LEMMA AskKeeps ==
  ASSUME ManagerInv, NEW p \in Callers, NEW name, NEW queue, Ask(p, name, queue)
  PROVE  KeepsBindings
<1>0. ConnectionsForm /\ InstancesAre /\ DOMAIN calls = Callers
  BY DEF ManagerInv, RegistryInv, CallsForm
<1>1. UNCHANGED <<instances, closing, stopping>> /\ Gives(p, NameOf(name), queue)
  BY <1>0, AskGives
<1>2. PICK n : n = NameOf(name)
  OBVIOUS
<1>3. \/ connections' = connections
      \/ \E c \in Connection : connections' = Append(connections, c) /\ c.handler = None
  <2>1. CASE connections' # connections
    <3>1. PICK c : c = [name |-> n, state |-> "connecting", handler |-> None]
      OBVIOUS
    <3>2. n \in ConnectionNames /\ connections' = Append(connections, c)
      BY <1>1, <1>2, <2>1, <3>1 DEF Gives
    <3>3. c \in Connection /\ c.handler = None
      BY <3>1, <3>2 DEF Connection
    <3> QED BY <3>2, <3>3
  <2> QED BY <2>1
<1> QED BY <1>0, <1>1, <1>3, ConnectionsKept

LEMMA ManagerKeeps == ASSUME ManagerInv, ManagerStep PROVE KeepsBindings
<1>0. /\ ConnectionsForm /\ InstancesAre /\ ClosingIs /\ CreatingIs
  BY DEF ManagerInv, RegistryInv
<1>1. ASSUME NEW id \in Ids, NEW state \in {"open", "failed"}, Becomes(id, state),
             connections[id].state = "connecting",
             connections'[id].handler = connections[id].handler,
             UNCHANGED <<closing, stopping>>,
             \A name \in DOMAIN instances : name \in DOMAIN instances' /\ instances'[name] = instances[name]
      PROVE  KeepsBindings
  <2>1. Ids' = Ids /\ ClosedStay
    BY <1>1 DEF Becomes, ClosedStay
  <2>2. \A other \in Ids : connections'[other].handler = connections[other].handler
    BY <1>1 DEF Becomes
  <2> QED BY <1>0, <1>1, <2>1, <2>2, KeptWithoutClosing
<1>2. ASSUME NEW id \in Ids, Connected(id) PROVE KeepsBindings
  <2>1. PICK n : n = connections[id].name
    OBVIOUS
  <2>2. /\ connections[id].state = "connecting" /\ UNCHANGED <<closing, stopping>>
        /\ Becomes(id, "open") /\ connections'[id].handler = connections[id].handler
        /\ instances' = Put(instances, n, id) /\ n \notin DOMAIN instances
    BY <1>0, <1>2, <2>1, ConnectionEdited DEF Connected, CreatingIs, InstancesAre
  <2>3. \A name \in DOMAIN instances : name \in DOMAIN instances' /\ instances'[name] = instances[name]
    BY <2>2 DEF Put
  <2> QED BY <1>1, <2>2, <2>3
<1>3. ASSUME NEW id \in Ids, ConnectFails(id) PROVE KeepsBindings
  <2>1. /\ connections[id].state = "connecting" /\ UNCHANGED <<instances, closing, stopping>>
        /\ Becomes(id, "failed") /\ connections'[id].handler = connections[id].handler
    BY <1>0, <1>3, ConnectionEdited DEF ConnectFails
  <2> QED BY <1>1, <2>1
<1>4. CASE \E p \in Callers : Answer(p)
  BY <1>0, <1>4, ConnectionsKept DEF Answer
<1>5. ASSUME NEW d \in closing, DisconnectEnds(d) PROVE KeepsBindings
  <2>1. PICK id, n : id = d.conn /\ n = d.name
    OBVIOUS
  <2>2. /\ id \in Ids /\ connections[id].name = n
        /\ Becomes(id, "closed") /\ connections'[id].handler = connections[id].handler
    BY <1>0, <1>5, <2>1, ConnectionEdited DEF ClosingIs, DisconnectEnds
  <2>3. /\ closing' = closing \ {d} /\ stopping' = stopping
        /\ DOMAIN instances' = DOMAIN instances \ {n}
        /\ \A k \in DOMAIN instances \ {n} : instances'[k] = instances[k]
    BY <1>5, <2>1 DEF DisconnectEnds, Without
  <2>4. /\ Ids' = Ids /\ ClosedStay
        /\ \A other \in Ids : connections'[other].handler = connections[other].handler
    BY <2>2 DEF Becomes, ClosedStay
  <2>5. WasDisconnected(n)'
    BY <2>2, <2>4 DEF Becomes, WasDisconnected
  <2>6. ASSUME NEW name, WasDisconnected(name) PROVE WasDisconnected(name)'
    <3>1. CASE name = n
      BY <2>5, <3>1
    <3>2. CASE name # n
      <4>1. Closing(name) => Closing(name)'
        BY <2>1, <2>3, <3>2 DEF Closing
      <4>2. (\E other \in Ids : connections[other].name = name /\ connections[other].state = "closed")
            => (\E other \in Ids' : connections'[other].name = name
                                    /\ connections'[other].state = "closed")
        BY <2>4 DEF ClosedStay
      <4> QED BY <2>6, <4>1, <4>2 DEF WasDisconnected
    <3> QED BY <3>1, <3>2
  <2>7. ASSUME NEW name, NEW other, InstanceOf(name, other), ~WasDisconnected(name)'
        PROVE  InstanceOf(name, other)' /\ connections'[other].handler = connections[other].handler
    <3>1. name # n
      BY <2>5, <2>7
    <3>2. InstanceOf(name, other)' /\ other \in Ids
      BY <1>0, <2>3, <2>7, <3>1 DEF InstanceOf, InstancesAre
    <3> QED BY <2>4, <3>2
  <2> QED BY <2>3, <2>4, <2>6, <2>7 DEF KeepsBindings
<1>6. CASE DestroyEnds
  <2>1. stopping = "disconnecting" /\ UNCHANGED <<connections, closing>>
    BY <1>6 DEF DestroyEnds
  <2>2. Ids' = Ids /\ ClosedStay
    BY <2>1 DEF Ids, ClosedStay
  <2>3. \A name : WasDisconnected(name) => WasDisconnected(name)'
    BY <2>1, <2>2, Disconnected
  <2> QED BY <2>1, <2>2, <2>3 DEF KeepsBindings
<1> QED BY <1>2, <1>3, <1>4, <1>5, <1>6 DEF ManagerStep

(* A close() leaves the handlers of the names that it does not disconnect. *)
LEMMA CloseKeeps ==
  ASSUME ManagerInv, NEW names \in SUBSET DOMAIN instances,
         CloseCalled({instances[name] : name \in names}),
         instances' = instances, closing \subseteq closing', \A name \in names : Closing(name)',
         stopping' = stopping \/ names = DOMAIN instances
  PROVE  KeepsBindings
<1>0. ConnectionsForm /\ InstancesAre
  BY DEF ManagerInv, RegistryInv
<1>1. /\ OnlyHandlers
      /\ \A id \in Ids \ {instances[name] : name \in names} : connections'[id] = connections[id]
  BY <1>0, CloseCalledIs
<1>2. ClosedStay /\ Ids' = Ids
  BY <1>1 DEF OnlyHandlers, ClosedStay
<1>3. \A name : WasDisconnected(name) => WasDisconnected(name)'
  BY <1>2, Disconnected
<1>4. \A id \in Ids : \/ connections'[id].handler = None
                      \/ connections'[id].handler = connections[id].handler
  <2>1. ASSUME NEW id \in Ids, id \in {instances[name] : name \in names}
        PROVE  connections'[id].handler = None
    <3>1. connections'[id] = [connections[id] EXCEPT !.handler = None]
      BY <2>1 DEF CloseCalled
    <3>2. connections[id] \in Connection
      BY <1>0, ConnectionType
    <3> QED BY <3>1, <3>2 DEF Connection
  <2> QED BY <1>1, <2>1
<1>5. ASSUME NEW name, NEW id, InstanceOf(name, id)
      PROVE  InstanceOf(name, id)'
  BY <1>5 DEF InstanceOf
<1>6. ASSUME NEW name, NEW id, InstanceOf(name, id), ~WasDisconnected(name)'
      PROVE  stopping' = stopping /\ connections'[id].handler = connections[id].handler
  <2>1. name \in DOMAIN instances /\ id = instances[name] /\ id \in Ids /\ connections[id].name = name
    BY <1>0, <1>6 DEF InstanceOf, InstancesAre
  <2>2. name \notin names
    BY <1>6 DEF WasDisconnected
  <2>3. \A other \in names : instances[other] # id
    BY <1>0, <2>1, <2>2 DEF InstancesAre
  <2>4. id \notin {instances[other] : other \in names}
    BY <2>3
  <2> QED BY <1>1, <2>1, <2>2, <2>4
<1> QED BY <1>2, <1>3, <1>4, <1>5, <1>6 DEF KeepsBindings

LEMMA OutsideKeeps == ASSUME ManagerInv, Outside PROVE KeepsBindings
<1>0. ConnectionsForm /\ InstancesAre
  BY DEF ManagerInv, RegistryInv
<1>1. CASE UserStep(Callers \ {Container})
  <2>1. CASE \E h \in Hooks : Unmount(h)
    BY <1>0, <2>1, ConnectionsKept DEF Unmount, managerVars
  <2> QED BY <1>1, <2>1, AskKeeps DEF UserStep, Render, Use
<1>2. CASE \E p \in Callers : CallerGoesOn(p)
  BY <1>0, <1>2, ConnectionsKept DEF CallerGoesOn
<1>3. CASE \E name : SetDefaultInstance(name)
  BY <1>0, <1>3, ConnectionsKept DEF SetDefaultInstance
<1>4. ASSUME NEW by, NEW name, DisconnectBegins(by, name) PROVE KeepsBindings
  <2>1. PICK d : d = [by |-> by, name |-> name, conn |-> instances[name]]
    OBVIOUS
  <2>2. /\ name \in DOMAIN instances /\ closing' = closing \cup {d} /\ d.name = name
        /\ UNCHANGED <<instances, stopping>>
    BY <1>4, <2>1 DEF DisconnectBegins
  <2>3. CloseCalled({instances[n] : n \in {name}})
    <3>1. {instances[n] : n \in {name}} = {instances[name]}
      OBVIOUS
    <3> QED BY <1>4, <3>1 DEF DisconnectBegins
  <2>4. \A n \in {name} : Closing(n)'
    BY <2>2 DEF Closing
  <2>5. {name} \in SUBSET DOMAIN instances
    BY <2>2
  <2> QED BY <2>2, <2>3, <2>4, <2>5, CloseKeeps
<1>5. CASE DestroyBegins
  <2>1. /\ CloseCalled({instances[n] : n \in DOMAIN instances})
        /\ instances' = instances
        /\ closing' = closing \cup {[by |-> "onModuleDestroy", name |-> name, conn |-> instances[name]] :
                                      name \in DOMAIN instances}
    BY <1>5 DEF DestroyBegins, ActiveNames
  <2>2. ASSUME NEW name \in DOMAIN instances PROVE Closing(name)'
    <3>1. PICK d : d = [by |-> "onModuleDestroy", name |-> name, conn |-> instances[name]]
      OBVIOUS
    <3>2. d \in closing' /\ d.name = name
      BY <2>1, <3>1
    <3> QED BY <3>2 DEF Closing
  <2>3. closing \subseteq closing'
    BY <2>1
  <2> QED BY <2>1, <2>2, <2>3, CloseKeeps
<1>6. CASE \/ Shutdown \/ ResumeSync
           \/ \E id \in Ids, lookup \in Lookups : PauseSync(id, lookup.queue)
  BY <1>0, <1>6, ConnectionsKept DEF Shutdown, ResumeSync, PauseSync, managerVars
<1> QED BY <1>1, <1>2, <1>3, <1>4, <1>5, <1>6, ManagerKeeps DEF Outside, Operate

-----------------------------------------------------------------------------
(* Those steps leave the processors bound.                                 *)
LEMMA SameHomes ==
  ASSUME NamesStay, config' = config
  PROVE  /\ \A id \in Ids : IsSync(id)' = IsSync(id)
         /\ \A i, id : WorkersOf(i, id)' = WorkersOf(i, id)
         /\ \A i : Home(i)' = Home(i)
         /\ \A id, name : Refers(id, name) => Refers(id, name)'
  BY DEF NamesStay, IsSync, WorkersOf, Concurrency, Home, Declared, Refers

LEMMA BoundStays ==
  ASSUME NamesStay, config' = config, KeepsBindings,
         NEW i, WorkersAt(i)' = WorkersAt(i), NEW id \in Ids, Bound(i, id)
  PROVE  Bound(i, id)'
<1>1. PICK name : name = Home(i) /\ name = Home(i)'
  BY SameHomes
<1>2. /\ Refers(id, name)' /\ IsSync(id)' = IsSync(id) /\ WorkersOf(i, id)' = WorkersOf(i, id)
      /\ ProviderInstances' = ProviderInstances
  BY <1>1, SameHomes, SameProviders DEF Bound
<1>3. \/ WasDisconnected(name)'
      \/ /\ stopping' = "no" /\ InstanceOf(name, id)'
         /\ connections'[id].handler = connections[id].handler
         /\ IsSync(id) => HandledFrom(i, id)
  BY <1>1 DEF Bound, KeepsBindings
<1>4. \/ WasDisconnected(name)'
      \/ stopping' = "no" /\ InstanceOf(name, id)' /\ (IsSync(id)' => HandledFrom(i, id)')
  BY <1>2, <1>3 DEF HandledFrom
<1>5. WorkersAt(i)' = IF IsSync(id)' THEN {} ELSE WorkersOf(i, id)'
  BY <1>2 DEF Bound
<1> QED BY <1>1, <1>2, <1>4, <1>5 DEF Bound

LEMMA HandlersStay ==
  ASSUME HandlersAre, NamesStay, config' = config, KeepsBindings
  PROVE  HandlersAre'
<1>1. ProviderInstances' = ProviderInstances /\ \A i : Home(i)' = Home(i)
  BY SameHomes, SameProviders
<1>2. ASSUME NEW id \in Ids', connections'[id].handler # None
      PROVE  /\ connections'[id].handler \in ProviderInstances
             /\ Home(connections'[id].handler) = connections'[id].name
  <2>1. id \in Ids /\ connections'[id].handler = connections[id].handler
    BY <1>2 DEF KeepsBindings
  <2> QED BY <1>2, <2>1 DEF HandlersAre, NamesStay
<1>3. ASSUME NEW id \in Ids', connections'[id].handler # None
      PROVE  /\ connections'[id].handler \in ProviderInstances'
             /\ Home(connections[id].handler)' = connections'[id].name
  <2>1. PICK i : i = connections'[id].handler
    OBVIOUS
  <2>2. i \in ProviderInstances' /\ Home(i)' = connections'[id].name
    BY <1>1, <1>2, <1>3, <2>1
  <2> QED BY <2>1, <2>2 DEF Home
<1> QED BY <1>3 DEF HandlersAre

LEMMA OutsideLoader ==
  ASSUME LoaderInv, Outside
  PROVE  ProcessorsBound' /\ WorkersBound' /\ HandlersAre' /\ AnswerActive'
<1>0. /\ ManagerInv /\ StartInv /\ StartForm /\ RegistryForm /\ ConnectionsForm /\ Late
      /\ DOMAIN calls = Callers /\ at \in Nat /\ Container \in Callers
  BY ApplicationAssumption
     DEF LoaderInv, ManagerInv, RegistryInv, StartInv, RegistryForm, CallsRefer, ConnectionsForm
<1>1. /\ NamesStay /\ KeepsBindings /\ at' = at /\ config' = config
      /\ ProviderInstances' = ProviderInstances
      /\ \/ phase' = phase /\ UNCHANGED running
         \/ Shutdown
      /\ calls'[Container] = calls[Container] \/ Answer(Container)
  BY <1>0, OutsideLeaves, OutsideRefers, OutsideKeeps, SameProviders DEF Steady
<1>2. HandlersAre'
  BY <1>1, HandlersStay DEF LoaderInv
<1>3. CASE Shutdown
  <2>1. phase' = "stopped" /\ running' = {}
    BY <1>0, <1>3 DEF Shutdown, StartInv, HoldersForm
  <2> QED BY <1>2, <2>1 DEF ProcessorsBound, WorkersBound, AnswerActive, Registered
<1>4. CASE phase' = phase /\ UNCHANGED running
  <2>1. \A i : Registered(i)' = Registered(i) /\ WorkersAt(i)' = WorkersAt(i)
    BY <1>1, <1>4 DEF Registered, WorkersAt
  <2>2. ASSUME NEW i \in ProviderInstances, Registered(i)
        PROVE  \E id \in Ids' : Bound(i, id)'
    <3>1. PICK id \in Ids : Bound(i, id)
      BY <2>2 DEF LoaderInv, ProcessorsBound
    <3>2. id \in Ids' /\ Bound(i, id)'
      BY <1>1, <2>1, <3>1, BoundStays DEF NamesStay
    <3> QED BY <3>2
  <2>3. ProcessorsBound'
    BY <1>1, <2>1, <2>2 DEF ProcessorsBound
  <2>4. WorkersBound'
    BY <1>4, <2>1 DEF LoaderInv, WorkersBound
  <2>5. ASSUME phase = "bootstrapping", calls'[Container].stage = "done"
        PROVE  InstanceOf(calls[Container].name, calls[Container].got.conn)'
    <3>1. closing = {} /\ stopping = "no" /\ crossed = {}
      BY <1>0, <2>5 DEF Late, LoaderInv, Early
    <3>2. \A name, id : InstanceOf(name, id) => InstanceOf(name, id)'
      BY <1>1, <3>1 DEF KeepsBindings
    <3>3. PICK name, id : name = calls'[Container].name /\ id = calls'[Container].got.conn
      OBVIOUS
    <3>4. InstanceOf(name, id)
      <4>1. CASE calls'[Container] = calls[Container]
        BY <2>5, <3>3, <4>1 DEF LoaderInv, AnswerActive
      <4>2. CASE Answer(Container)
        <5>1. /\ calls[Container].stage = "waiting"
              /\ connections[calls[Container].conn].state \notin {"connecting", "failed"}
              /\ name = calls[Container].name /\ id = calls[Container].conn
          BY <1>0, <2>5, <3>3, <4>2 DEF Answer
        <5>2. id \in Ids /\ connections[id].name = name
          BY <1>0, <5>1 DEF ManagerInv, RegistryInv, CallsForm, Awaits
        <5>3. Sound(name)
          BY <1>0, <3>1, <5>2, ConnectionType DEF ManagerInv
        <5> QED BY <1>0, <5>1, <5>3 DEF Sound, AwaitsInstance
      <4> QED BY <1>1, <4>1, <4>2
    <3>5. InstanceOf(name, id)'
      BY <3>2, <3>4
    <3> QED BY <3>3, <3>5
  <2>6. AnswerActive'
    BY <1>4, <2>5 DEF AnswerActive
  <2> QED BY <1>2, <2>3, <2>4, <2>6
<1> QED BY <1>1, <1>3, <1>4

(* The steps of the start bind one processor after the other.              *)
LEMMA BootKeeps ==
  ASSUME LoaderInv, Boot, ~RegisterEnds
  PROVE  KeepsBindings /\ NamesStay /\ config' = config /\ HandlersAre'
<1>0. /\ ManagerInv /\ StartInv /\ StartForm /\ RegistryForm /\ InstancesAre /\ ConnectionsForm
      /\ DOMAIN calls = Callers /\ at \in Nat /\ Container \in Callers
  BY ApplicationAssumption
     DEF LoaderInv, ManagerInv, RegistryInv, StartInv, RegistryForm, CallsRefer, ConnectionsForm
<1>1. config' = config /\ NamesStay
  BY <1>0, BootSteady, BootRefers DEF Steady
<1>2. KeepsBindings
  <2>1. CASE \E name, queue : Ask(Container, name, queue)
    BY <1>0, <2>1, AskKeeps
  <2>2. CASE ~ \E name, queue : Ask(Container, name, queue)
    <3>1. UNCHANGED <<connections, instances, closing, stopping>>
      BY <2>2 DEF Boot, Fails, ProvideRegistration, ProvideBegins, ProvideEnds, ModuleProvided,
                  WarmBegins, WarmEnds, SkipsProvider, RegisterBegins,
                  RegisterEventListeners, BootstrapEnds, managerVars
    <3> QED BY <1>0, <3>1, ConnectionsKept
  <2> QED BY <2>1, <2>2
<1> QED BY <1>1, <1>2, HandlersStay DEF LoaderInv

(* A step that makes no worker, and after which the same processors are    *)
(* registered.                                                             *)
LEMMA BoundAfter ==
  ASSUME LoaderInv, Boot, ~RegisterEnds,
         running \subseteq running', \A w \in running' \ running : w.is # "worker",
         \A i \in ProviderInstances : Registered(i)' = Registered(i)
  PROVE  ProcessorsBound'
         /\ (phase \in {"bootstrapping", "subscribing", "up"} =>
               \A w \in running' : w.is = "worker" => Registered(w.processor)')
<1>1. KeepsBindings /\ NamesStay /\ config' = config /\ ProviderInstances' = ProviderInstances
  BY BootKeeps, SameProviders
<1>2. \A i : WorkersAt(i)' = WorkersAt(i)
  BY DEF WorkersAt
<1>3. ASSUME NEW i \in ProviderInstances, Registered(i)
      PROVE  \E id \in Ids' : Bound(i, id)'
  <2>1. PICK id \in Ids : Bound(i, id)
    BY <1>3 DEF LoaderInv, ProcessorsBound
  <2>2. id \in Ids' /\ Bound(i, id)'
    BY <1>1, <1>2, <2>1, BoundStays DEF NamesStay
  <2> QED BY <2>2
<1>4. ProcessorsBound'
  BY <1>1, <1>3 DEF ProcessorsBound
<1>5. ASSUME phase \in {"bootstrapping", "subscribing", "up"}, NEW w \in running', w.is = "worker"
      PROVE  Registered(w.processor)'
  <2>1. PICK i : i = w.processor
    OBVIOUS
  <2>2. Registered(i)
    BY <1>5, <2>1 DEF LoaderInv, WorkersBound
  <2>3. Registered(i)'
    BY <2>2 DEF Registered
  <2> QED BY <2>1, <2>3
<1> QED BY <1>4, <1>5

(* The connection that the loader has waited for.                          *)
LEMMA RegisterEndsBinds ==
  ASSUME LoaderInv, RegisterEnds
  PROVE  ProcessorsBound' /\ WorkersBound' /\ HandlersAre' /\ AnswerActive'
<1>0. /\ ManagerInv /\ StartInv /\ StartForm /\ RegistryForm /\ InstancesAre /\ ConnectionsForm
      /\ Late /\ DOMAIN calls = Callers /\ at \in Nat /\ Container \in Callers
  BY ApplicationAssumption
     DEF LoaderInv, ManagerInv, RegistryInv, StartInv, RegistryForm, CallsRefer, ConnectionsForm
<1>1. /\ phase = "bootstrapping" /\ phase' = "subscribing" /\ calls[Container].stage = "done"
      /\ calls'[Container] = Idle
      /\ UNCHANGED <<config, instances, closing, stopping, at>>
  BY <1>0 DEF RegisterEnds, ContainerAnswer, Taken
<1>2. PICK id, i : id = calls[Container].got.conn /\ i = at /\ i = at' /\ i \in Nat
  BY <1>0, <1>1
<1>3. /\ i \in ProviderInstances /\ calls[Container].name = Home(i)
      /\ InstanceOf(Home(i), id)
  BY <1>0, <1>1, <1>2 DEF StartForm, LoaderCalls, IsIdle, AsksFor, Home, LoaderInv, AnswerActive
<1>4. /\ id \in Ids /\ connections[id].name = Home(i) /\ closing = {} /\ stopping = "no"
  BY <1>0, <1>1, <1>3 DEF InstanceOf, InstancesAre, Late
<1>5. /\ NamesStay /\ ProviderInstances' = ProviderInstances
      /\ \A j : Home(j)' = Home(j)
  BY <1>0, <1>1, BootRefers, SameProviders, SameHomes DEF Boot
<1>6. \/ /\ IsSync(id) /\ running' = running
         /\ connections'[id].handler = i /\ Becomes(id, connections[id].state)
      \/ /\ ~IsSync(id) /\ connections' = connections
         /\ running' = running \cup WorkersOf(i, id)
  <2>1. CASE IsSync(id)
    <3>1. connections' = [connections EXCEPT ![id].handler = i] /\ running' = running
      BY <1>2, <2>1 DEF RegisterEnds, ContainerAnswer
    <3> QED BY <1>0, <1>2, <1>4, <2>1, <3>1, ConnectionEdited
  <2>2. CASE ~IsSync(id)
    BY <1>2, <2>2 DEF RegisterEnds, ContainerAnswer, Starts
  <2> QED BY <2>1, <2>2
<1>7. /\ Ids' = Ids
      /\ \A other \in Ids : /\ connections'[other].state = connections[other].state
                            /\ connections'[other].name = connections[other].name
      /\ \A other \in Ids \ {id} : connections'[other] = connections[other]
  BY <1>6 DEF Becomes, Ids
<1>8. \A name : WasDisconnected(name) => WasDisconnected(name)'
  BY <1>1, <1>7 DEF WasDisconnected, Closing
<1>9. \A j : Registered(j)' <=> Registered(j) \/ j = i
  BY <1>1, <1>2, <1>3, <1>5 DEF Registered
<1>10. /\ WorkersAt(i)' = IF IsSync(id) THEN {} ELSE WorkersOf(i, id)
       /\ \A j : j # i => WorkersAt(j)' = WorkersAt(j)
  <2>1. \A w \in WorkersOf(i, id) : w.is = "worker" /\ w.processor = i
    BY <1>0, <1>3, WorkersAre, ModulesLength
  <2>2. WorkersAt(i) = {}
    <3>1. ~Registered(i)
      BY <1>0, <1>1, <1>2 DEF Registered
    <3> QED BY <1>1, <3>1 DEF LoaderInv, WorkersBound, WorkersAt
  <2>3. CASE IsSync(id)
    BY <1>6, <2>2, <2>3 DEF WorkersAt
  <2>4. CASE ~IsSync(id)
    <3>1. running' = running \cup WorkersOf(i, id)
      BY <1>6, <2>4
    <3> HIDE DEF WorkersOf
    <3>2. {w \in running' : w.is = "worker" /\ w.processor = i} = WorkersOf(i, id)
      BY <2>1, <2>2, <3>1 DEF WorkersAt
    <3>3. \A j : j # i => {w \in running' : w.is = "worker" /\ w.processor = j} = WorkersAt(j)
      BY <2>1, <3>1 DEF WorkersAt
    <3> QED BY <2>4, <3>2, <3>3 DEF WorkersAt
  <2> QED BY <2>3, <2>4
<1>11. Bound(i, id)'
  <2>1. PICK name : name = Home(i) /\ name = Home(i)'
    BY <1>5
  <2>2. IsSync(id)' = IsSync(id) /\ WorkersOf(i, id)' = WorkersOf(i, id)
    BY <1>1, <1>4, <1>5, SameHomes
  <2>3. WorkersAt(i)' = IF IsSync(id)' THEN {} ELSE WorkersOf(i, id)'
    BY <1>10, <2>2
  <2>4. Refers(id, name)' /\ InstanceOf(name, id)' /\ stopping' = "no"
    BY <1>1, <1>3, <1>4, <1>7, <2>1 DEF Refers, InstanceOf
  <2>5. IsSync(id)' => HandledFrom(i, id)'
    BY <1>2, <1>3, <1>5, <1>6, <2>2 DEF HandledFrom
  <2> QED BY <2>1, <2>3, <2>4, <2>5 DEF Bound
<1>12. ASSUME NEW j \in ProviderInstances, Registered(j), j # i, NEW here \in Ids, Bound(j, here)
       PROVE  Bound(j, here)'
  <2>0. j \in Nat /\ j < i
    BY <1>0, <1>1, <1>2, <1>12, ModulesLength DEF Registered
  <2>1. PICK name : name = Home(j) /\ name = Home(j)'
    BY <1>5
  <2>2. /\ Refers(here, name)' /\ IsSync(here)' = IsSync(here)
        /\ WorkersOf(j, here)' = WorkersOf(j, here)
    BY <1>1, <1>5, <1>12, <2>1, SameHomes DEF Bound
  <2>3. IsSync(here) /\ HandledFrom(j, here) => HandledFrom(j, here)'
    BY <1>2, <1>3, <1>5, <1>6, <1>7, <2>0 DEF HandledFrom
  <2>4. \/ WasDisconnected(name)'
        \/ stopping' = "no" /\ InstanceOf(name, here)' /\ (IsSync(here)' => HandledFrom(j, here)')
    BY <1>1, <1>8, <1>12, <2>1, <2>2, <2>3 DEF Bound, InstanceOf
  <2>5. WorkersAt(j)' = IF IsSync(here)' THEN {} ELSE WorkersOf(j, here)'
    BY <1>10, <1>12, <2>2 DEF Bound
  <2> QED BY <2>1, <2>2, <2>4, <2>5 DEF Bound
<1>13. ProcessorsBound'
  <2>1. ASSUME NEW j \in ProviderInstances, Registered(j)', j # i
        PROVE  \E here \in Ids' : Bound(j, here)'
    <3>1. PICK here \in Ids : Bound(j, here)
      BY <1>9, <2>1 DEF LoaderInv, ProcessorsBound
    <3>2. Registered(j)
      BY <1>9, <2>1
    <3> QED BY <1>7, <1>12, <2>1, <3>1, <3>2
  <2>2. \E here \in Ids' : Bound(i, here)'
    BY <1>4, <1>7, <1>11
  <2> QED BY <1>5, <2>1, <2>2 DEF ProcessorsBound
<1>14. WorkersBound'
  <2>1. ASSUME NEW w \in running', w.is = "worker" PROVE Registered(w.processor)'
    <3>1. PICK j : j = w.processor
      OBVIOUS
    <3>2. j = i \/ Registered(j)
      BY <1>0, <1>1, <1>3, <1>6, <2>1, <3>1, WorkersAre, ModulesLength DEF LoaderInv, WorkersBound
    <3>3. Registered(j)'
      BY <1>9, <3>2
    <3> QED BY <3>1, <3>3 DEF Registered
  <2> QED BY <1>1, <2>1 DEF WorkersBound
<1>15. HandlersAre'
  <2>1. ASSUME NEW other \in Ids', connections'[other].handler # None
        PROVE  connections'[other].handler \in ProviderInstances
               /\ Home(connections'[other].handler) = connections'[other].name
    <3>1. CASE other = id /\ IsSync(id)
      BY <1>3, <1>4, <1>6, <1>7, <3>1
    <3>2. CASE ~(other = id /\ IsSync(id))
      BY <1>6, <1>7, <2>1, <3>2 DEF LoaderInv, HandlersAre
    <3> QED BY <3>1, <3>2
  <2>2. ASSUME NEW other \in Ids', connections'[other].handler # None
        PROVE  /\ connections'[other].handler \in ProviderInstances'
               /\ Home(connections[other].handler)' = connections'[other].name
    <3>1. PICK j : j = connections'[other].handler
      OBVIOUS
    <3>2. j \in ProviderInstances' /\ Home(j)' = connections'[other].name
      BY <1>5, <2>1, <2>2, <3>1
    <3> QED BY <3>1, <3>2 DEF Home
  <2> QED BY <2>2 DEF HandlersAre
<1>16. AnswerActive'
  BY <1>1 DEF AnswerActive
<1> QED BY <1>13, <1>14, <1>15, <1>16

(* A call of connection() is never answered from the handles.              *)
LEMMA LoaderAsks ==
  ASSUME RegistryForm, NEW name, Ask(Container, name, None)
  PROVE  calls'[Container].stage # "done"
<1>1. Gives(Container, NameOf(name), None)
  BY AskGives, ApplicationAssumption DEF RegistryForm, CallsRefer
<1> QED BY <1>1 DEF Gives

LEMMA BootLoader ==
  ASSUME LoaderInv, Boot
  PROVE  ProcessorsBound' /\ WorkersBound' /\ HandlersAre' /\ AnswerActive'
<1>0. /\ ManagerInv /\ StartInv /\ StartForm /\ RegistryForm /\ at \in Nat
      /\ DOMAIN calls = Callers /\ Container \in Callers
      /\ Len(Processors) \in Nat /\ ProviderInstances \subseteq 1..Len(Processors)
      /\ ProviderInstances' = ProviderInstances
  BY ApplicationAssumption, ModulesLength, BootSteady, SameProviders
     DEF LoaderInv, StartInv, RegistryForm, CallsRefer, ConnectionsForm, Steady
<1>t. Taken => calls'[Container] = Idle /\ calls'[Container].stage # "done"
  BY <1>0 DEF Taken, Idle
<1>h. ~RegisterEnds => HandlersAre'
  BY BootKeeps
<1>1. CASE RegisterEnds
  BY <1>1, RegisterEndsBinds
<1>2. CASE phase = "providing" /\ Boot
  <2>1. /\ phase' \in {"providing", "warming", "failed"} /\ running' = running
        /\ ~RegisterEnds /\ running = {}
    BY <1>2 DEF Boot, Fails, ProvideRegistration, ProvideBegins, ProvideEnds, ModuleProvided,
                WarmBegins, WarmEnds, SkipsProvider, RegisterBegins, RegisterEnds,
                RegisterEventListeners, BootstrapEnds, appVars, LoaderInv, WorkersBound
  <2> QED BY <1>h, <2>1 DEF ProcessorsBound, WorkersBound, AnswerActive, Registered
<1>3. CASE WarmEnds
  <2>1. /\ phase' = "bootstrapping" /\ at' = 1 /\ running' = {}
        /\ calls'[Container].stage # "done" /\ ~RegisterEnds
    BY <1>3, <1>t DEF WarmEnds, LoaderInv, WorkersBound, RegisterEnds
  <2>2. \A i \in ProviderInstances : i \in 1..Len(Processors) /\ ~(i < 1)
    BY <1>0
  <2> QED BY <1>0, <1>h, <2>1, <2>2 DEF ProcessorsBound, WorkersBound, AnswerActive, Registered
<1>4. CASE Fails \/ (RegisterBegins /\ ~Processors[at].isHost)
  <2>1. phase' = "failed" /\ ~RegisterEnds
    BY <1>4 DEF Fails, RegisterBegins, RegisterEnds
  <2> QED BY <1>h, <2>1 DEF ProcessorsBound, WorkersBound, AnswerActive, Registered
<1>5. CASE SkipsProvider \/ (RegisterBegins /\ Processors[at].isHost)
  <2>1. /\ phase = "bootstrapping" /\ phase' = "bootstrapping" /\ running' = running
        /\ ~RegisterEnds
    BY <1>5 DEF SkipsProvider, RegisterBegins, RegisterEnds
  <2>2. \A i \in ProviderInstances : Registered(i)' = Registered(i)
    BY <1>0, <1>5, <2>1 DEF SkipsProvider, RegisterBegins, Advance, Registered
  <2>3. ProcessorsBound' /\ WorkersBound'
    BY <1>5, <2>1, <2>2, BoundAfter DEF Boot, WorkersBound
  <2>4. calls'[Container].stage # "done"
    <3>1. CASE SkipsProvider
      BY <1>0, <3>1 DEF SkipsProvider, StartForm, LoaderCalls, IsIdle, managerVars
    <3>2. CASE RegisterBegins /\ Processors[at].isHost
      BY <1>0, <3>2, LoaderAsks DEF RegisterBegins
    <3> QED BY <1>5, <3>1, <3>2
  <2> QED BY <1>h, <2>1, <2>3, <2>4 DEF AnswerActive
<1>6. CASE RegisterEventListeners \/ BootstrapEnds
  <2>1. /\ phase \in {"bootstrapping", "subscribing"} /\ phase' \in {"bootstrapping", "up"}
        /\ ~RegisterEnds
    BY <1>0, <1>6
       DEF RegisterEventListeners, BootstrapEnds, RegisterEnds, StartForm, LoaderCalls, IsIdle,
           ContainerAnswer
  <2>2. running \subseteq running' /\ \A w \in running' \ running : w.is # "worker"
    BY <1>6 DEF RegisterEventListeners, BootstrapEnds, Starts, ListenersOf
  <2>3. \A i \in ProviderInstances : Registered(i)' = Registered(i)
    <3>1. CASE RegisterEventListeners
      <4>1. phase = "subscribing" /\ phase' = "bootstrapping" /\ at' = at + 1
        BY <3>1 DEF RegisterEventListeners, Advance
      <4> QED BY <1>0, <4>1 DEF Registered
    <3>2. CASE BootstrapEnds
      BY <1>0, <3>2 DEF BootstrapEnds, Registered
    <3> QED BY <1>6, <3>1, <3>2
  <2>4. ProcessorsBound' /\ WorkersBound'
    BY <1>6, <2>1, <2>2, <2>3, BoundAfter DEF Boot, WorkersBound
  <2>5. AnswerActive'
    <3>1. CASE RegisterEventListeners
      BY <1>0, <3>1
         DEF RegisterEventListeners, StartForm, LoaderCalls, IsIdle, managerVars, AnswerActive
    <3>2. CASE BootstrapEnds
      BY <3>2 DEF BootstrapEnds, AnswerActive
    <3> QED BY <1>6, <3>1, <3>2
  <2> QED BY <1>h, <2>1, <2>4, <2>5
<1>7. CASE ~(phase = "providing")
  BY <1>1, <1>3, <1>4, <1>5, <1>6, <1>7
     DEF Boot, ProvideRegistration, ProvideBegins, ProvideEnds, ModuleProvided, WarmBegins,
         HasProvider
<1> QED BY <1>2, <1>7

LEMMA LoaderInitial == ApplicationInit => LoaderInv
<1> SUFFICES ASSUME ApplicationInit PROVE LoaderInv
  OBVIOUS
<1>1. phase \in {"providing", "refused"} /\ running = {} /\ crossed = {} /\ Ids = {}
  BY DEF ApplicationInit, ManagerInit, Ids
<1>2. ProcessorsBound /\ WorkersBound /\ HandlersAre /\ AnswerActive /\ Early
  BY <1>1 DEF ProcessorsBound, WorkersBound, HandlersAre, AnswerActive, Early, Registered
<1> QED BY <1>2, ManagerInitial, StartInitial DEF LoaderInv

(* Before the application is up nothing is disconnected, so nothing is     *)
(* crossed.                                                                *)
LEMMA EarlyStays ==
  ASSUME Early, Steady, Late', Remembers PROVE Early'
<1> SUFFICES ASSUME phase' \notin {"up", "stopped"} PROVE crossed' = {}
  BY DEF Early
<1>1. crossed = {} /\ closing' = {} /\ stopping' = "no"
  BY DEF Early, Steady, Late
<1>2. \A name : ~Crosses(name)'
  BY <1>1 DEF Crosses, Closing
<1> QED BY <1>1, <1>2 DEF Remembers

LEMMA LoaderInductive == LoaderInv /\ [ApplicationNext]_vars => LoaderInv'
<1> SUFFICES ASSUME LoaderInv, [ApplicationNext]_vars PROVE LoaderInv'
  OBVIOUS
<1>0. ManagerInv /\ ConnectionsForm /\ InstancesAre
  BY DEF LoaderInv, ManagerInv, RegistryInv
<1>1. ManagerInv' /\ StartInv' /\ NamesStay /\ config' = config
  BY ManagerInductive, StartInductive, ConfigStays DEF LoaderInv
<1>2. CASE UNCHANGED vars
  <2>1. /\ UNCHANGED <<connections, instances, calls, closing, stopping, phase, at, running,
                       crossed>>
        /\ ProviderInstances' = ProviderInstances
    BY <1>1, <1>2, SameProviders DEF vars, managerVars, appVars
  <2>2. KeepsBindings
    BY <1>0, <2>1, ConnectionsKept
  <2>3. \A i : Registered(i)' = Registered(i) /\ WorkersAt(i)' = WorkersAt(i)
    BY <2>1 DEF Registered, WorkersAt
  <2>4. ASSUME NEW i \in ProviderInstances, Registered(i)
        PROVE  \E id \in Ids' : Bound(i, id)'
    <3>1. PICK id \in Ids : Bound(i, id)
      BY <2>4 DEF LoaderInv, ProcessorsBound
    <3>2. id \in Ids' /\ Bound(i, id)'
      BY <1>1, <2>2, <2>3, <3>1, BoundStays DEF NamesStay
    <3> QED BY <3>2
  <2>5. ProcessorsBound'
    BY <2>1, <2>3, <2>4 DEF ProcessorsBound
  <2>6. WorkersBound'
    BY <2>1, <2>3 DEF LoaderInv, WorkersBound
  <2>7. HandlersAre'
    BY <1>1, <2>2, HandlersStay DEF LoaderInv
  <2>8. AnswerActive' /\ Early'
    BY <2>1 DEF LoaderInv, AnswerActive, InstanceOf, Early
  <2> QED BY <1>1, <2>5, <2>6, <2>7, <2>8 DEF LoaderInv
<1>3. CASE ApplicationNext
  <2>1. ProcessorsBound' /\ WorkersBound' /\ HandlersAre' /\ AnswerActive'
    BY <1>3, BootLoader, OutsideLoader DEF ApplicationNext, Outside
  <2>2. Steady
    <3>1. at \in Nat /\ DOMAIN calls = Callers
      BY <1>0 DEF ConnectionsForm, ManagerInv, RegistryInv, CallsForm
    <3> QED BY <1>3, <3>1, BootSteady, OutsideLeaves DEF ApplicationNext, Outside
  <2>3. Early'
    BY <1>1, <1>3, <2>2, EarlyStays DEF ApplicationNext, ManagerInv, RegistryInv, LoaderInv
  <2> QED BY <1>1, <2>1, <2>3 DEF LoaderInv
<1> QED BY <1>2, <1>3

-----------------------------------------------------------------------------
LEMMA WorkersCounted ==
  ASSUME NEW i \in DOMAIN Processors, NEW id
  PROVE  Cardinality(WorkersOf(i, id)) = Concurrency(Processors[i])
<1> DEFINE worker(n) == [is |-> "worker", processor |-> i, conn |-> id, n |-> n]
           c == Concurrency(Processors[i])
           f == [n \in 1..c |-> worker(n)]
<1>1. c \in Nat
  BY ConcurrencyIs
<1>2. WorkersOf(i, id) = {worker(n) : n \in 1..c}
  BY DEF WorkersOf
<1>3. \A n : worker(n).n = n
  OBVIOUS
<1> HIDE DEF worker, c
<1>4. f \in [1..c -> WorkersOf(i, id)]
  BY <1>2
<1>5. \A m, n \in 1..c : f[m] = f[n] => m = n
  BY <1>3
<1>6. \A w \in WorkersOf(i, id) : \E n \in 1..c : f[n] = w
  BY <1>2
<1>7. ExistsBijection(1..c, WorkersOf(i, id))
  BY <1>4, <1>5, <1>6
     DEF ExistsBijection, Bijection, Injection, Surjection, IsInjective
<1> QED BY <1>1, <1>7, FS_CountingElements DEF c

LEMMA AllRegistered ==
  ASSUME LoaderInv, phase = "up", NEW i \in ProviderInstances
  PROVE  /\ i \in Nat /\ i \in DOMAIN Processors
         /\ \E id \in Ids : Bound(i, id)
<1>1. i \in Nat /\ i \in DOMAIN Processors /\ Registered(i)
  BY ModulesLength DEF LoaderInv, StartInv, StartForm, Bounds, Registered
<1> QED BY <1>1 DEF LoaderInv, ProcessorsBound

(* In an application whose container has one instance of a processor class *)
(* however many tokens it is known by, every processor is attached to a    *)
(* connection of its name while the application is up, with                *)
(* max(1, concurrency) workers where it polls, and to the active one until *)
(* that name is disconnected, whatever else is looked up and disconnected; *)
(* and a stopped application has neither workers nor listeners.            *)
THEOREM ServedAlways == OneInstancePerClass => (ApplicationSpec => []Served)
<1> SUFFICES ASSUME OneInstancePerClass PROVE ApplicationSpec => []Served
  OBVIOUS
<1>1. ASSUME LoaderInv PROVE Served
  <2>1. phase = "stopped" => running = {}
    BY <1>1 DEF LoaderInv, WorkersBound
  <2>2. ASSUME phase = "up", config.global, NEW p \in Range(Processors)
        PROVE  \E id \in Ids :
                 /\ connections[id].name = Declared(p.connection)
                 /\ ~WasDisconnected(connections[id].name) =>
                      /\ id \in Range(instances)
                      /\ Serves(p.class, id) \/ Replaced(p.class, id)
                 /\ ~IsSync(id) =>
                      /\ Serves(p.class, id)
                      /\ Cardinality(WorkersOfClass(p.class)) = Concurrency(p)
    <3>1. PICK i \in ProviderInstances :
            /\ i \in DOMAIN Processors /\ Processors[i].class = p.class
            /\ Processors[i].connection = p.connection
            /\ Processors[i].concurrency = p.concurrency
      BY <2>2 DEF OneInstancePerClass, ProviderInstances
    <3>2. i \in Nat /\ \E id \in Ids : Bound(i, id)
      BY <1>1, <2>2, AllRegistered
    <3>3. PICK id \in Ids : Bound(i, id)
      BY <3>2
    <3>4. PICK name : name = Home(i) /\ name = connections[id].name /\ name = Declared(p.connection)
      BY <3>1, <3>3 DEF Bound, Refers, Home
    <3>5. /\ WorkersAt(i) = IF IsSync(id) THEN {} ELSE WorkersOf(i, id)
          /\ ~WasDisconnected(name) => InstanceOf(name, id) /\ (IsSync(id) => HandledFrom(i, id))
      BY <3>3, <3>4 DEF Bound
    <3>6. ASSUME ~IsSync(id)
          PROVE  Serves(p.class, id) /\ Cardinality(WorkersOfClass(p.class)) = Concurrency(p)
      <4>1. \E w \in running : w.is = "worker" /\ w.processor = i /\ w.conn = id
        BY <3>1, <3>5, <3>6, WorkersAre DEF WorkersAt
      <4>2. Serves(p.class, id)
        BY <3>1, <4>1 DEF Serves, IsOf, Attached
      <4>3. ASSUME NEW w \in running, w.is = "worker", IsOf(w.processor, p.class)
            PROVE  w.processor = i
        <5>1. w.processor \in ProviderInstances
          BY <1>1, <2>2, <4>3 DEF LoaderInv, WorkersBound, Registered
        <5> QED BY <3>1, <4>3, <5>1 DEF OneInstancePerClass, ProviderInstances, IsOf
      <4>4. WorkersOfClass(p.class) = WorkersAt(i)
        BY <3>1, <4>3 DEF WorkersOfClass, WorkersAt, IsOf
      <4>5. Concurrency(Processors[i]) = Concurrency(p)
        BY <3>1 DEF Concurrency
      <4> QED BY <3>1, <3>5, <3>6, <4>2, <4>4, <4>5, WorkersCounted
    <3>7. ASSUME ~WasDisconnected(name), IsSync(id)
          PROVE  Serves(p.class, id) \/ Replaced(p.class, id)
      <4>1. PICK j \in ProviderInstances : j = connections[id].handler /\ j >= i
        BY <3>5, <3>7 DEF HandledFrom
      <4>2. j \in Nat
        BY <1>1, <2>2, AllRegistered
      <4>3. CASE j = i
        BY <3>1, <4>1, <4>3 DEF Serves, IsOf, Attached
      <4>4. CASE j > i
        BY <3>1, <3>7, <4>1, <4>4 DEF Replaced, IsOf
      <4> QED BY <3>2, <4>1, <4>2, <4>3, <4>4
    <3>8. ~WasDisconnected(name) => id \in Range(instances)
      BY <3>5 DEF InstanceOf, Range
    <3> QED BY <3>4, <3>6, <3>7, <3>8
  <2> QED BY <2>1, <2>2 DEF Served
<1> QED BY <1>1, LoaderInitial, LoaderInductive, PTL DEF ApplicationSpec

(* A dispatch on an active sync connection reaches the processor of that   *)
(* connection that was registered last, whatever its queue, unless that    *)
(* queue is paused, from the end of the start to the call of the           *)
(* connection's close(); without a processor it is dropped.                *)
THEOREM SyncDispatchHandledAlways == ApplicationSpec => []SyncDispatchHandled
<1>1. ASSUME LoaderInv PROVE SyncDispatchHandled
  <2> SUFFICES ASSUME phase = "up", NEW id \in Range(instances), NEW queue \in QueueNames,
                      IsSync(id), ~WasDisconnected(connections[id].name)
               PROVE  IF <<id, queue>> \in paused \/ ProcessorsOn(connections[id].name) = {}
                        THEN HandledBy(id, queue) = None
                        ELSE /\ HandledBy(id, queue) \in ProcessorsOn(connections[id].name)
                             /\ \A i \in ProcessorsOn(connections[id].name) :
                                  i <= HandledBy(id, queue)
    BY DEF SyncDispatchHandled
  <2>1. PICK name \in DOMAIN instances : id = instances[name]
    BY DEF Range
  <2>2. id \in Ids /\ connections[id].name = name
    BY <1>1, <2>1 DEF LoaderInv, ManagerInv, RegistryInv, InstancesAre
  <2>3. connections[id].handler # None => connections[id].handler \in ProcessorsOn(name)
    BY <1>1, <2>2 DEF LoaderInv, HandlersAre, ProcessorsOn, Home
  <2>4. ASSUME NEW i \in ProcessorsOn(name) PROVE HandledFrom(i, id)
    <3>1. i \in ProviderInstances /\ Home(i) = name
      BY <2>4 DEF ProcessorsOn, Home
    <3>2. PICK other \in Ids : Bound(i, other)
      BY <1>1, <3>1, AllRegistered
    <3>3. InstanceOf(name, other) /\ (IsSync(other) => HandledFrom(i, other))
      BY <2>2, <3>1, <3>2 DEF Bound
    <3> QED BY <2>1, <3>3 DEF InstanceOf
  <2>5. \A i \in ProviderInstances : i \in Nat
    BY <1>1, AllRegistered
  <2>6. CASE <<id, queue>> \in paused
    BY <2>6 DEF HandledBy
  <2>7. CASE <<id, queue>> \notin paused /\ ProcessorsOn(name) = {}
    BY <2>2, <2>3, <2>7 DEF HandledBy
  <2>8. CASE <<id, queue>> \notin paused /\ ProcessorsOn(name) # {}
    <3>1. HandledBy(id, queue) = connections[id].handler
      BY <2>8 DEF HandledBy
    <3>2. \A i \in ProcessorsOn(name) : i <= connections[id].handler
      BY <2>4, <2>5 DEF HandledFrom, ProcessorsOn
    <3>3. connections[id].handler # None
      BY <2>4, <2>5, <2>8, ApplicationAssumption DEF HandledFrom
    <3> QED BY <2>2, <2>3, <2>8, <3>1, <3>2, <3>3
  <2> QED BY <2>2, <2>6, <2>7, <2>8
<1> QED BY <1>1, LoaderInitial, LoaderInductive, PTL DEF ApplicationSpec

-----------------------------------------------------------------------------
(* The hooks.  A component has at most one lookup under way, the one for   *)
(* its latest arguments, whose answer it will show; without one it shows   *)
(* the handle of those arguments, or an error, or is not mounted and shows *)
(* nothing.                                                                *)
LookupsOf(h) == {p \in Callers : effects[p] = h}

AsksForArguments(p, h) ==
  /\ p # Container /\ ~IsIdle(p)
  /\ calls[p].stage \in {"waiting", "done"} =>
       calls[p].name = args[h].name /\ calls[p].queue = args[h].queue

ShowsItsArguments(h) ==
  \E id \in Ids : connections[id].name = args[h].name /\ shown[h] = Handle(id, args[h].queue)

Follows(h) ==
  /\ \A p \in LookupsOf(h) : LookupsOf(h) = {p} /\ AsksForArguments(p, h)
  /\ args[h] = None => LookupsOf(h) = {} /\ shown[h] = None
  /\ args[h] # None /\ LookupsOf(h) = {} => shown[h] = Error \/ ShowsItsArguments(h)

HooksFollow == \A h \in Hooks : Follows(h)

HooksInv == StartInv /\ DOMAIN effects = Callers /\ DOMAIN args = Hooks /\ HooksFollow

(* A call that is under way stays what it asks for.                        *)
CallKept(p) ==
  /\ ~IsIdle(p) => calls'[p].stage # "idle"
  /\ ~IsIdle(p) /\ calls'[p].stage \in {"waiting", "done"} =>
       /\ calls[p].stage \in {"waiting", "done"}
       /\ calls'[p].name = calls[p].name /\ calls'[p].queue = calls[p].queue

LEMMA FollowsStill ==
  ASSUME NamesStay, NEW h \in Hooks, Follows(h), LookupsOf(h)' = LookupsOf(h),
         args'[h] = args[h], shown'[h] = shown[h], \A p \in LookupsOf(h) : CallKept(p)
  PROVE  Follows(h)'
<1>1. ASSUME NEW p \in LookupsOf(h) PROVE AsksForArguments(p, h)'
  BY <1>1 DEF Follows, AsksForArguments, CallKept, IsIdle
<1>2. ShowsItsArguments(h) => ShowsItsArguments(h)'
  BY DEF ShowsItsArguments, NamesStay, Handle
<1> QED BY <1>1, <1>2 DEF Follows, Error

LEMMA HooksLeft ==
  ASSUME HooksInv, StartInv', NamesStay, UNCHANGED <<effects, args, shown>>,
         \A p \in Callers \ {Container} : CallKept(p)
  PROVE  HooksInv'
<1>1. ASSUME NEW h \in Hooks PROVE Follows(h)'
  <2>1. LookupsOf(h)' = LookupsOf(h)
    BY DEF LookupsOf
  <2>2. \A p \in LookupsOf(h) : CallKept(p)
    BY DEF HooksInv, HooksFollow, Follows, AsksForArguments, LookupsOf
  <2> QED BY <2>1, <2>2, FollowsStill DEF HooksInv, HooksFollow
<1> QED BY <1>1 DEF HooksInv, HooksFollow

(* The lookups of a component are forgotten, those of others are not.      *)
LEMMA Cancelled ==
  ASSUME DOMAIN effects = Callers, NEW h \in Hooks
  PROVE  /\ DOMAIN EffectsWithout(h) = Callers
         /\ \A p \in Callers : /\ EffectsWithout(h)[p] # h
                               /\ \A g \in Hooks \ {h} : EffectsWithout(h)[p] = g <=> effects[p] = g
  BY ManagerAssumption DEF EffectsWithout

LEMMA RenderFollows ==
  ASSUME HooksInv, StartInv', NamesStay, NEW h \in Hooks, NEW p \in Callers \ {Container},
         NEW lookup \in Lookups, Render(h, p, lookup.name, lookup.queue)
  PROVE  HooksInv'
<1>0. PICK name, n, queue : name = lookup.name /\ n = NameOf(name) /\ queue = lookup.queue
  OBVIOUS
<1>a. Render(h, p, name, queue)
  BY <1>0
<1>1. /\ IsIdle(p) /\ \A q \in Callers \ {p} : calls'[q] = calls[q]
      /\ Gives(p, n, queue)
  BY <1>0, <1>a, AskGives DEF Render, HooksInv, StartInv, RegistryForm, CallsRefer
<1>2. \A g \in Hooks : p \notin LookupsOf(g)
  BY <1>1 DEF HooksInv, HooksFollow, Follows, AsksForArguments
<1>3. /\ DOMAIN effects' = Callers /\ effects'[p] = h
      /\ \A q \in Callers \ {p} : effects'[q] = EffectsWithout(h)[q]
  BY <1>a, Cancelled DEF Render, HooksInv
<1>4. LookupsOf(h)' = {p}
  BY <1>3, Cancelled DEF LookupsOf, HooksInv
<1>5. \A g \in Hooks \ {h} : LookupsOf(g)' = LookupsOf(g)
  BY <1>2, <1>3, Cancelled DEF LookupsOf, HooksInv
<1>6. PICK asked : asked = [name |-> n, queue |-> queue]
  OBVIOUS
<1>7. /\ DOMAIN args' = Hooks /\ args'[h] = asked /\ shown' = shown
      /\ \A g \in Hooks \ {h} : args'[g] = args[g]
  BY <1>0, <1>6, <1>a DEF Render, HooksInv
<1>8. asked.name = n /\ asked.queue = queue /\ asked # None
  <2>1. config \in Configs /\ defaultName \in DOMAIN config.driver \cup {config.default}
    BY DEF HooksInv, StartInv, StartForm, RegistryForm, DefaultsForm, ConnectionNames
  <2>2. /\ name \in (UNION {DOMAIN c.driver : c \in Configs}) \cup {None}
        /\ queue \in QueueNames \cup {None}
    BY <1>0, ManagerAssumption
  <2>3. n \in UNION {DOMAIN c.driver \cup {c.default} : c \in Configs}
    BY <1>0, <2>1, <2>2 DEF NameOf
  <2> QED BY <1>6, <2>2, <2>3, ManagerAssumption
<1>9. Follows(h)'
  <2>1. AsksForArguments(p, h)'
    BY <1>1, <1>7, <1>8 DEF AsksForArguments, Gives, IsIdle
  <2> QED BY <1>4, <1>7, <1>8, <2>1 DEF Follows
<1>10. ASSUME NEW g \in Hooks \ {h} PROVE Follows(g)'
  <2>1. \A q \in LookupsOf(g) : CallKept(q)
    BY <1>1, <1>2 DEF LookupsOf, CallKept, IsIdle
  <2> QED BY <1>5, <1>7, <2>1, FollowsStill DEF HooksInv, HooksFollow
<1> QED BY <1>3, <1>7, <1>9, <1>10 DEF HooksInv, HooksFollow

LEMMA UnmountFollows ==
  ASSUME HooksInv, StartInv', NamesStay, NEW h \in Hooks, Unmount(h)
  PROVE  HooksInv'
<1>1. effects' = EffectsWithout(h) /\ calls' = calls
  BY DEF Unmount, managerVars
<1>2. LookupsOf(h)' = {} /\ \A g \in Hooks \ {h} : LookupsOf(g)' = LookupsOf(g)
  BY <1>1, Cancelled DEF LookupsOf, HooksInv
<1>3. /\ DOMAIN args' = Hooks /\ args'[h] = None /\ shown'[h] = None
      /\ \A g \in Hooks \ {h} : args'[g] = args[g] /\ shown'[g] = shown[g]
  BY DEF Unmount, HooksInv, StartInv, HoldersForm
<1>4. Follows(h)'
  BY <1>2, <1>3 DEF Follows
<1>5. ASSUME NEW g \in Hooks \ {h} PROVE Follows(g)'
  <2>1. \A q \in LookupsOf(g) : CallKept(q)
    BY <1>1 DEF CallKept, IsIdle, HooksInv, StartInv, RegistryForm, CallsRefer, CallForm,
                LookupsOf
  <2> QED BY <1>2, <1>3, <2>1, FollowsStill DEF HooksInv, HooksFollow
<1> QED BY <1>1, <1>3, <1>4, <1>5, Cancelled DEF HooksInv, HooksFollow

LEMMA AnswerFollows ==
  ASSUME HooksInv, StartInv', NamesStay, NEW p \in Callers \ {Container}, CallerGoesOn(p)
  PROVE  HooksInv'
<1>1. /\ calls[p].stage \in {"done", "failed"} /\ UNCHANGED <<connections, args>>
      /\ \A q \in Callers \ {p} : calls'[q] = calls[q]
  BY DEF CallerGoesOn, HooksInv, StartInv, RegistryForm, CallsRefer
<1>2. /\ DOMAIN effects' = Callers /\ effects'[p] = None
      /\ \A q \in Callers \ {p} : effects'[q] = effects[q]
  BY DEF CallerGoesOn, HooksInv
<1>3. ASSUME NEW h \in Hooks, effects[p] = h PROVE Follows(h)'
  <2>1. LookupsOf(h) = {p} /\ AsksForArguments(p, h) /\ args[h] # None
    BY <1>3 DEF HooksInv, HooksFollow, Follows, LookupsOf
  <2>2. LookupsOf(h)' = {}
    BY <1>2, <2>1, ManagerAssumption DEF LookupsOf
  <2>3. shown'[h] = IF calls[p].stage = "done" THEN calls[p].got ELSE Error
    BY <1>3 DEF CallerGoesOn
  <2>4. ASSUME calls[p].stage = "done" PROVE ShowsItsArguments(h)'
    <3>1. CallForm(p)
      BY DEF HooksInv, StartInv, RegistryForm, CallsRefer
    <3>2. PICK id \in Ids : /\ connections[id].name = calls[p].name
                            /\ calls[p].got = Handle(id, calls[p].queue)
      BY <2>4, <3>1 DEF CallForm, Refers
    <3>3. calls[p].name = args[h].name /\ calls[p].queue = args[h].queue
      BY <2>1, <2>4 DEF AsksForArguments
    <3> QED BY <1>1, <2>3, <2>4, <3>2, <3>3 DEF ShowsItsArguments, Ids, Handle
  <2> QED BY <1>1, <2>1, <2>2, <2>3, <2>4 DEF Follows, Error
<1>4. ASSUME NEW h \in Hooks, effects[p] # h PROVE Follows(h)'
  <2>1. LookupsOf(h)' = LookupsOf(h) /\ p \notin LookupsOf(h)
    BY <1>2, <1>4, ManagerAssumption DEF LookupsOf
  <2>2. shown'[h] = shown[h]
    BY <1>4 DEF CallerGoesOn
  <2>3. \A q \in LookupsOf(h) : CallKept(q)
    <3>1. ASSUME NEW q \in LookupsOf(h) PROVE CallKept(q)
      <4>1. CallForm(q) /\ calls'[q] = calls[q]
        BY <1>1, <2>1, <3>1 DEF LookupsOf, HooksInv, StartInv, RegistryForm, CallsRefer
      <4> QED BY <4>1 DEF CallForm, CallKept, IsIdle
    <3> QED BY <3>1
  <2> QED BY <1>1, <2>1, <2>2, <2>3, FollowsStill DEF HooksInv, HooksFollow
<1> QED BY <1>1, <1>2, <1>3, <1>4 DEF HooksInv, HooksFollow

LEMMA HooksInitial == ApplicationInit => HooksInv
<1> SUFFICES ASSUME ApplicationInit PROVE HooksInv
  OBVIOUS
<1>1. /\ effects = [p \in Callers |-> None] /\ args = [h \in Hooks |-> None]
      /\ shown = [h \in Hooks |-> None]
  BY DEF ApplicationInit, HooksInit
<1>2. \A h \in Hooks : LookupsOf(h) = {}
  BY <1>1, ManagerAssumption DEF LookupsOf
<1> QED BY <1>1, <1>2, StartInitial DEF HooksInv, HooksFollow, Follows

LEMMA HooksInductive == HooksInv /\ [ApplicationNext]_vars => HooksInv'
<1> SUFFICES ASSUME HooksInv, [ApplicationNext]_vars PROVE HooksInv'
  OBVIOUS
<1> /\ DOMAIN calls = Callers /\ Container \in Callers
  BY ApplicationAssumption DEF HooksInv, StartInv, RegistryForm, CallsRefer
<1>0. StartInv' /\ NamesStay
  BY StartInductive DEF HooksInv
<1>1. \A p \in Callers : calls'[p] = calls[p] => CallKept(p)
  BY DEF HooksInv, StartInv, RegistryForm, CallsRefer, CallForm, CallKept, IsIdle
<1>2. CASE calls' = calls /\ UNCHANGED <<effects, args, shown>>
  BY <1>0, <1>1, <1>2, HooksLeft
<1>3. ASSUME NEW p \in Callers, NEW name, NEW queue, Ask(p, name, queue),
             UNCHANGED <<effects, args, shown>>
      PROVE  HooksInv'
  <2>1. IsIdle(p) /\ \A q \in Callers \ {p} : calls'[q] = calls[q]
    BY <1>3, AskGives
  <2>2. \A q \in Callers : CallKept(q)
    BY <1>1, <2>1 DEF CallKept
  <2> QED BY <1>0, <1>3, <2>2, HooksLeft
<1>4. CASE Taken /\ UNCHANGED <<effects, args, shown>>
  <2>1. \A q \in Callers \ {Container} : CallKept(q)
    BY <1>1, <1>4 DEF Taken
  <2> QED BY <1>0, <1>4, <2>1, HooksLeft
<1>5. CASE Boot
  <2>1. UNCHANGED <<effects, args, shown>>
    BY <1>5
       DEF Boot, Fails, ProvideRegistration, ProvideBegins, ProvideEnds, ModuleProvided,
           WarmBegins, WarmEnds, SkipsProvider, RegisterBegins, RegisterEnds,
           RegisterEventListeners, BootstrapEnds, hookVars
  <2>2. calls' = calls \/ Taken \/ \E name, queue : Ask(Container, name, queue)
    BY <1>5
       DEF Boot, Fails, ProvideRegistration, ProvideBegins, ProvideEnds, ModuleProvided,
           WarmBegins, WarmEnds, SkipsProvider, RegisterBegins, RegisterEnds,
           RegisterEventListeners, BootstrapEnds, managerVars
  <2> QED BY <1>2, <1>3, <1>4, <2>1, <2>2
<1>6. CASE ManagerStep /\ UNCHANGED appVars
  <2>1. UNCHANGED <<effects, args, shown>>
    BY <1>6 DEF ManagerStep, hookVars
  <2>2. CASE calls' = calls
    BY <1>2, <2>1, <2>2
  <2>3. ASSUME NEW p \in Callers, Answer(p) PROVE HooksInv'
    <3>1. \A q \in Callers \ {p} : calls'[q] = calls[q]
      BY <2>3 DEF Answer
    <3>2. CallKept(p)
      BY <2>3 DEF Answer, CallKept
    <3> QED BY <1>0, <1>1, <2>1, <3>1, <3>2, HooksLeft
  <2> QED BY <1>6, <2>2, <2>3 DEF ManagerStep, Connected, ConnectFails, DisconnectEnds, DestroyEnds
<1>7. CASE Operate
  <2>1. ASSUME UserStep(Callers \ {Container}) PROVE HooksInv'
    <3>1. ASSUME NEW p \in Callers \ {Container}, NEW lookup \in Lookups, NEW h \in Hooks,
                 Render(h, p, lookup.name, lookup.queue)
          PROVE  HooksInv'
      BY <1>0, <3>1, RenderFollows
    <3>2. ASSUME NEW p \in Callers, NEW name, NEW queue, Use(p, name, queue) PROVE HooksInv'
      BY <1>3, <3>2 DEF Use
    <3>3. ASSUME NEW h \in Hooks, Unmount(h) PROVE HooksInv'
      BY <1>0, <3>3, UnmountFollows
    <3> QED BY <2>1, <3>1, <3>2, <3>3 DEF UserStep
  <2>2. ASSUME NEW p \in Callers \ {Container}, CallerGoesOn(p) PROVE HooksInv'
    BY <1>0, <2>2, AnswerFollows
  <2>3. ASSUME \/ \E name \in ConnectionNames : SetDefaultInstance(name)
               \/ \E by \in Disconnects, name \in ConnectionNames : DisconnectBegins(by, name),
               UNCHANGED <<hookVars, appVars>>
        PROVE  HooksInv'
    BY <1>2, <2>3 DEF SetDefaultInstance, DisconnectBegins, hookVars
  <2>4. CASE DestroyBegins /\ UNCHANGED <<hookVars, appVars>>
    BY <1>2, <2>4 DEF DestroyBegins, hookVars
  <2>5. CASE Shutdown \/ ResumeSync \/ \E id \in Ids, lookup \in Lookups : PauseSync(id, lookup.queue)
    BY <1>2, <2>5 DEF Shutdown, ResumeSync, PauseSync, managerVars, hookVars
  <2> QED BY <1>7, <2>1, <2>2, <2>3, <2>4, <2>5 DEF Operate
<1>8. CASE UNCHANGED vars
  BY <1>2, <1>8 DEF vars, managerVars, hookVars
<1> QED BY <1>5, <1>6, <1>7, <1>8 DEF ApplicationNext

(* The safety half of HookCatchesUp, whoever disconnects what: however     *)
(* renders, unmounts and answers interleave, a component has one lookup    *)
(* under way, that of its latest arguments, or shows what it gave, and not *)
(* what an earlier lookup gave that was answered after it; once unmounted  *)
(* it is told nothing any more.                                            *)
THEOREM HooksFollowAlways == ApplicationSpec => []HooksFollow
<1>1. HooksInv => HooksFollow
  BY DEF HooksInv
<1> QED BY <1>1, HooksInitial, HooksInductive, PTL DEF ApplicationSpec

=============================================================================
