----------------------------- MODULE QueueManager -----------------------------
(***************************************************************************)
(* The registry of connections and handles                                 *)
(* (services/queue-manager.service.ts) and the React hooks that use it     *)
(* (react/hooks/use-queue, use-queue-connection).  Its calls overlap: what *)
(* queue() reads before `await this.connection()` may be stale after it,   *)
(* and disconnect() drops handles only after `await conn.close()`.         *)
(*                                                                         *)
(* The base class MultipleInstanceManager is external: it keeps one        *)
(* instance per name, lets the lookups of a name that is being created     *)
(* share the creation, and keeps nothing of a creation that failed.        *)
(*                                                                         *)
(* The cache key `connection:queue` is the pair of the two: no connection  *)
(* name has a ":" in it.                                                   *)
(***************************************************************************)
EXTENDS Naturals, Sequences

CONSTANTS
  Callers,         \* the calls of queue() and connection() that may be under way
  Hooks,           \* mounted components that use a hook
  Drivers,
  QueueNames,
  Lookups,         \* the arguments of queue() and connection() that the users choose:
                   \* [name, queue]
  Configs,         \* the configurations the module may be given
  Disconnects,     \* the calls of disconnect() that may be under way
  MaxConnections,  \* bound: how many connections are ever created
  MaxRenders,      \* bound: how often a component renders with other arguments
  None             \* undefined, and no value

ASSUME ManagerAssumption ==
  /\ \A config \in Configs :
       /\ DOMAIN config = {"default", "driver", "async", "modules", "global"}
       /\ \A name \in DOMAIN config.driver : config.driver[name] \in Drivers \cup {None}
  /\ "onModuleDestroy" \notin Disconnects
  /\ MaxConnections \in Nat /\ MaxRenders \in Nat
  /\ None \notin Hooks
  /\ Lookups \subseteq [name : (UNION {DOMAIN c.driver : c \in Configs}) \cup {None},
                        queue : QueueNames \cup {None}]
  /\ None \notin [name : UNION {DOMAIN c.driver \cup {c.default} : c \in Configs},
                 queue : QueueNames \cup {None}]

VARIABLES
  config,        \* default, driver per connection name, forRoot or forRootAsync,
                 \* the modules that are imported, whether the application is
                 \* registered as the global one; never changes
  defaultName,   \* this.config.default, which setDefaultInstance overwrites
  connectors,    \* this.connectors: the drivers that have one
  connections,   \* every connection ever created, in that order
  instances,     \* base class: connection name -> index in connections
  creating,      \* base class: the same while connect() runs
  handles,       \* this.handles: (connection name, queue) -> handle
  calls,         \* where each call of queue() or connection() is
  closing,       \* the disconnects under way: [by, name, conn]
  stopping,      \* onModuleDestroy: "no", "disconnecting", "destroyed"
  crossed,       \* history: the names of which a lookup was under way while they
                 \* were being disconnected or the module was being destroyed
  effects,       \* the hook whose effect made a call; None once it is cancelled
  args,          \* what each component asks for: [name, queue]; None: not mounted
  shown,         \* the state of each hook: a handle, Error, or None
  renders

managerVars == <<config, defaultName, connectors, connections, instances, creating,
                 handles, calls, closing, stopping>>
hookVars == <<effects, args, shown, renders>>

ConnectionNames == DOMAIN config.driver

NoMap == [x \in {} |-> None]
Put(map, key, value) == [k \in DOMAIN map \cup {key} |-> IF k = key THEN value ELSE map[k]]
Without(map, keys) == [k \in DOMAIN map \ keys |-> map[k]]

Ids == 1..Len(connections)
Error == [conn |-> 0, queue |-> None]
Idle == [stage |-> "idle"]
IsIdle(p) == calls[p].stage = "idle"

ManagerTypeOK ==
  /\ defaultName \in ConnectionNames \cup {config.default} /\ connectors \subseteq Drivers
  /\ \A id \in Ids : /\ connections[id].name \in ConnectionNames
                     /\ connections[id].state \in
                          {"connecting", "open", "failed", "closed"}
  /\ \A map \in {instances, creating} :
       DOMAIN map \subseteq ConnectionNames /\ \A name \in DOMAIN map : map[name] \in Ids
  /\ DOMAIN handles \subseteq ConnectionNames \X QueueNames
  /\ \A p \in DOMAIN calls :
       calls[p].stage \in {"idle", "waiting", "done", "failed"}
  /\ \A h \in Hooks : shown[h] # None => shown[h].conn \in Ids \cup {0}
  /\ renders \in 0..MaxRenders

ManagerInit ==
  /\ config \in Configs
  /\ defaultName = config.default
  /\ connectors = {}
  /\ connections = <<>>
  /\ instances = NoMap /\ creating = NoMap /\ handles = NoMap
  /\ calls = [p \in Callers |-> Idle]
  /\ closing = {}
  /\ stopping = "no"
  /\ crossed = {}

HooksInit ==
  /\ effects = [p \in Callers |-> None]
  /\ args = [h \in Hooks |-> None]
  /\ shown = [h \in Hooks |-> None]
  /\ renders = 0

-----------------------------------------------------------------------------
RegisterConnector(driver) == connectors' = connectors \cup {driver}

NameOf(name) == IF name = None THEN defaultName ELSE name

Unconnectable(name) ==
  IF name \notin ConnectionNames \/ config.driver[name] = None THEN "unknown"
  ELSE IF config.driver[name] \notin connectors THEN "unregistered" ELSE "no"

Waiting(name, queue, id) == [stage |-> "waiting", name |-> name, queue |-> queue, conn |-> id]

(* instanceAsync(): what the base class knows of the name decides whether  *)
(* the call waits for a connection, for the creation of one, or fails.     *)
Lookup(p, name, queue) ==
  IF name \in DOMAIN instances \cup DOMAIN creating
    THEN /\ calls' = [calls EXCEPT ![p] =
                        Waiting(name, queue, IF name \in DOMAIN instances
                                               THEN instances[name] ELSE creating[name])]
         /\ UNCHANGED <<connections, creating>>
  ELSE IF Unconnectable(name) = "no"
    THEN /\ Len(connections) < MaxConnections
         /\ connections' = Append(connections,
                             [name |-> name, state |-> "connecting", handler |-> None])
         /\ creating' = Put(creating, name, Len(connections) + 1)
         /\ calls' = [calls EXCEPT ![p] = Waiting(name, queue, Len(connections) + 1)]
    ELSE /\ calls' = [calls EXCEPT ![p] =
                        [stage |-> "failed", why |-> Unconnectable(name)]]
         /\ UNCHANGED <<connections, creating>>

Key(name, queue) == <<name, queue>>

(* queue(), and with queue = None connection().                            *)
Ask(p, name, queue) ==
  LET key == Key(NameOf(name), queue)
  IN  /\ IsIdle(p)
      /\ IF queue # None /\ key \in DOMAIN handles
           THEN /\ calls' = [calls EXCEPT ![p] =
                               [stage |-> "done", name |-> NameOf(name), queue |-> queue,
                                got |-> handles[key]]]
                /\ UNCHANGED <<connections, creating>>
           ELSE Lookup(p, NameOf(name), queue)
      /\ UNCHANGED <<config, defaultName, connectors, instances, handles, closing, stopping>>

(* connect() resolves or rejects.                                          *)
Connected(id) ==
  /\ connections[id].state = "connecting"
  /\ connections' = [connections EXCEPT ![id].state = "open"]
  /\ instances' = Put(instances, connections[id].name, id)
  /\ creating' = Without(creating, {connections[id].name})
  /\ UNCHANGED <<config, defaultName, connectors, handles, calls, closing, stopping>>

ConnectFails(id) ==
  /\ connections[id].state = "connecting"
  /\ connections' = [connections EXCEPT ![id].state = "failed"]
  /\ creating' = Without(creating, {connections[id].name})
  /\ UNCHANGED <<config, defaultName, connectors, instances, handles, calls, closing, stopping>>

(* queue() goes on after its await: it stores the handle it made, whatever *)
(* has become of the connection since.                                     *)
Answer(p) ==
  /\ calls[p].stage = "waiting"
  /\ connections[calls[p].conn].state # "connecting"
  /\ LET call   == calls[p]
         handle == [conn |-> call.conn, queue |-> call.queue]
     IN  IF connections[call.conn].state = "failed"
           THEN /\ calls' = [calls EXCEPT ![p] = [stage |-> "failed", why |-> "connect"]]
                /\ UNCHANGED handles
           ELSE /\ calls' = [calls EXCEPT ![p] = [stage |-> "done", name |-> call.name,
                                                  queue |-> call.queue, got |-> handle]]
                /\ handles' = IF call.queue = None THEN handles
                              ELSE Put(handles, Key(call.name, call.queue), handle)
  /\ UNCHANGED <<config, defaultName, connectors, connections, instances, creating,
                 closing, stopping>>

SetDefaultInstance(name) ==
  /\ name \in ConnectionNames /\ defaultName # name
  /\ defaultName' = name
  /\ UNCHANGED <<config, connectors, connections, instances, creating, handles, calls,
                 closing, stopping>>

-----------------------------------------------------------------------------
\* Mutant of DropHandles: the cache keeps the handles of a closed connection.
DropNoHandles(name) == handles

DropHandles(name) == Without(handles, {key \in DOMAIN handles : key[1] = name})

Closing(name) == \E d \in closing : d.name = name

LookedUp(name) == \E p \in Callers : calls[p].stage = "waiting" /\ calls[p].name = name

(* close() is called: that of the sync driver drops its handler at once.   *)
CloseCalled(ids) ==
  connections' = [id \in Ids |-> IF id \in ids THEN [connections[id] EXCEPT !.handler = None]
                                                ELSE connections[id]]

(* disconnect() of a connection that has an instance, up to its await.     *)
DisconnectBegins(by, name) ==
  /\ name \in DOMAIN instances
  /\ \A d \in closing : d.by # by
  /\ CloseCalled({instances[name]})
  /\ closing' = closing \cup {[by |-> by, name |-> name, conn |-> instances[name]]}
  /\ UNCHANGED <<config, defaultName, connectors, instances, creating, handles, calls,
                 stopping>>

(* close() resolves or throws, which the finally makes no difference for:  *)
(* whatever has the name by then is forgotten.                             *)
DisconnectEnds(d) ==
  /\ d \in closing
  /\ closing' = closing \ {d}
  /\ connections' = [connections EXCEPT ![d.conn].state = "closed"]
  /\ instances' = Without(instances, {d.name})
  /\ handles' = DropHandles(d.name)
  /\ UNCHANGED <<config, defaultName, connectors, creating, calls, stopping>>

\* Mutant of ActiveNames: shutdown closes the default connection only.
DefaultActive == {defaultName} \cap DOMAIN instances

ActiveNames == DOMAIN instances

(* onModuleDestroy(): disconnectAll() closes what is active, all at once,  *)
(* then the base class and the cache are emptied.                          *)
DestroyBegins ==
  /\ stopping = "no"
  /\ stopping' = "disconnecting"
  /\ CloseCalled({instances[name] : name \in ActiveNames})
  /\ closing' = closing \cup {[by |-> "onModuleDestroy", name |-> name, conn |-> instances[name]] :
                                name \in ActiveNames}
  /\ UNCHANGED <<config, defaultName, connectors, instances, creating, handles, calls>>

DestroyEnds ==
  /\ stopping = "disconnecting"
  /\ \A d \in closing : d.by # "onModuleDestroy"
  /\ stopping' = "destroyed"
  /\ instances' = NoMap
  /\ handles' = NoMap
  /\ UNCHANGED <<config, defaultName, connectors, connections, creating, calls, closing>>

-----------------------------------------------------------------------------
(* The hooks.  An effect asks; the one before it is cancelled first.       *)
\* Mutant of EffectsWithout: the cleanup does not cancel the effect.
EffectsKept(h) == effects

EffectsWithout(h) == [p \in Callers |-> IF effects[p] = h THEN None ELSE effects[p]]

Render(h, p, name, queue) ==
  /\ renders < MaxRenders
  /\ args[h] # [name |-> NameOf(name), queue |-> queue]
  /\ Ask(p, name, queue)
  /\ effects' = [EffectsWithout(h) EXCEPT ![p] = h]
  /\ args' = [args EXCEPT ![h] = [name |-> NameOf(name), queue |-> queue]]
  /\ renders' = renders + 1
  /\ UNCHANGED shown

Unmount(h) ==
  /\ args[h] # None
  /\ effects' = EffectsWithout(h)
  /\ args' = [args EXCEPT ![h] = None]
  /\ shown' = [shown EXCEPT ![h] = None]
  /\ UNCHANGED <<managerVars, renders>>

(* A call by application code.                                             *)
Use(p, name, queue) ==
  /\ renders < MaxRenders
  /\ Ask(p, name, queue)
  /\ renders' = renders + 1
  /\ UNCHANGED <<effects, args, shown>>

(* The caller goes on with what its call gave, in a hook the .then or the  *)
(* .catch of the effect.                                                   *)
CallerGoesOn(p) ==
  /\ calls[p].stage \in {"done", "failed"}
  /\ calls' = [calls EXCEPT ![p] = Idle]
  /\ effects' = [effects EXCEPT ![p] = None]
  /\ shown' = [h \in Hooks |->
                 IF effects[p] # h THEN shown[h]
                 ELSE IF calls[p].stage = "done" THEN calls[p].got ELSE Error]
  /\ UNCHANGED <<config, defaultName, connectors, connections, instances, creating, handles,
                 closing, stopping, args, renders>>

-----------------------------------------------------------------------------
Crosses(name) == LookedUp(name) /\ (Closing(name) \/ stopping # "no")

(* What every step adds to the history.                                    *)
Remembers == crossed' = crossed \cup {name \in ConnectionNames : Crosses(name)'}

-----------------------------------------------------------------------------
(* What the manager and the hooks do whoever uses them.                    *)
ManagerStep ==
  /\ \/ \E id \in Ids : Connected(id) \/ ConnectFails(id)
     \/ \E p \in Callers : Answer(p)
     \/ \E d \in closing : DisconnectEnds(d)
     \/ DestroyEnds
  /\ UNCHANGED hookVars

(* What a running application does with them.                              *)
UserStep(users) ==
  \/ \E p \in users, lookup \in Lookups :
       \/ \E h \in Hooks : Render(h, p, lookup.name, lookup.queue)
       \/ Use(p, lookup.name, lookup.queue)
  \/ \E h \in Hooks : Unmount(h)

-----------------------------------------------------------------------------
(* "Drop cached handles bound to the closed connection.": a cached handle  *)
(* is of its queue and of the connection that is active under its name --  *)
(* unless a lookup of that name, which queue() began before its await or   *)
(* during that of disconnect(), crossed its disconnect or the shutdown.    *)
NoStaleHandle ==
  \A key \in DOMAIN handles :
    /\ key[1] \notin crossed =>
         key[1] \in DOMAIN instances /\ handles[key].conn = instances[key[1]]
    /\ handles[key].queue = key[2]

(* The same comment by itself: no cached handle is of a closed connection. *)
ClosedHandlesDropped ==
  \A key \in DOMAIN handles : connections[handles[key].conn].state # "closed"

(* "closes every active connection so process shutdown isn't blocked": an  *)
(* open connection is one that disconnectAll() will find, and none is open *)
(* when the module is destroyed, also when a disconnect() is under way at  *)
(* the shutdown or one close() throws; again unless a lookup crossed.      *)
NoLeakedConnection ==
  \A id \in Ids : connections[id].state = "open" /\ connections[id].name \notin crossed =>
    /\ connections[id].name \in DOMAIN instances /\ instances[connections[id].name] = id
    /\ stopping # "destroyed"

(* A hook ends up with the connection and the queue of its latest          *)
(* arguments, or with an error, in whatever order its lookups are answered.*)
HookCatchesUp ==
  \A h \in Hooks : <>[](args[h] = None \/ shown[h] = Error \/
                          /\ shown[h] # None
                          /\ connections[shown[h].conn].name = args[h].name
                          /\ shown[h].queue = args[h].queue)
=============================================================================
