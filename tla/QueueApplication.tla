--------------------------- MODULE QueueApplication ---------------------------
(***************************************************************************)
(* An application on the queue module: the providers that                  *)
(* QueueModule.forRoot, forRootAsync, forFeature and forFeatureQueues hand *)
(* to the container (queue.module.ts), the start and the stop of the       *)
(* workers and listeners of its processors                                 *)
(* (loaders/processor-subscribers.loader.ts), and dispatches on a          *)
(* connection of the sync driver (connections/sync.connection.ts).         *)
(*                                                                         *)
(* The container is external: it instantiates the providers of a module in *)
(* the order of the list, one at a time, the modules in the order in which *)
(* they are imported (config.modules), then calls onModuleInit,            *)
(* onApplicationBootstrap and, when the application stops, onModuleDestroy *)
(* and onApplicationShutdown.                                              *)
(***************************************************************************)
EXTENDS QueueManager, SequencesExt

CONSTANTS
  Container,      \* the caller that boots the application
  BuiltIn,        \* BUILT_IN_CONNECTORS: drivers, in order
  Features,       \* the drivers given to forFeature
  FeatureQueues,  \* the [queue, connection] pairs given to forFeatureQueues
  Processors,     \* what the container holds of @Processor classes, in its order:
                  \* [class, isAlias, connection, queue, concurrency, events, isHost]
  HasEvents       \* whether an event manager is injected

ASSUME ApplicationAssumption ==
  /\ Container \in Callers
  /\ BuiltIn \in Seq(Drivers) /\ Features \in Seq(Drivers)
  /\ None \notin Int \cup Drivers \cup QueueNames /\ "default" \in QueueNames
  /\ FeatureQueues \in Seq(Range(FeatureQueues))
  /\ \A i \in DOMAIN FeatureQueues : FeatureQueues[i].queue \in QueueNames
  /\ Processors \in Seq(Range(Processors))
  /\ \A i \in DOMAIN Processors : Processors[i].concurrency \in Int \cup {None}
  /\ \A c \in Configs :
       /\ IsFiniteSet(DOMAIN c.driver) /\ None \notin DOMAIN c.driver
       /\ c.modules \in Seq({"forRoot", "forFeature", "forFeatureQueues"})

VARIABLES
  phase,     \* where the start of the application is
  module,    \* the imported module whose providers are instantiated
  at,        \* the provider of it, or the processor, that it is at
  tokens,    \* what the container has for each token
  running,   \* workers that poll, listeners that are subscribed
  kept,      \* this.workers and this.listeners of the loader
  paused     \* pausedQueues of the sync connections: <<connection, queue>>

appVars == <<phase, module, at, tokens, running, kept, paused>>
vars == <<managerVars, hookVars, appVars, crossed>>

-----------------------------------------------------------------------------
(* Providers: what the factory does, and the token it is for.              *)
Registers(driver) == [does |-> "register", driver |-> driver]
Connects(token, name) == [does |-> "connection", token |-> token, name |-> name, queue |-> None]
Handles(token, name, queue) ==
  [does |-> "queue", token |-> token, name |-> name, queue |-> queue]

ConnectionToken(name) == <<"connection", name>>
DefaultConnectionToken == <<"defaultConnection">>

(* getQueueToken().                                                        *)
QueueToken(queue, name) ==
  <<"queue", IF name = None THEN "default" ELSE name, IF queue = None THEN "default" ELSE queue>>

(* The tokens that @InjectQueueConnection and @InjectQueue ask for.         *)
InjectQueueConnection(name) ==
  IF name = None THEN DefaultConnectionToken ELSE ConnectionToken(name)
InjectQueue(queue, name) == QueueToken(queue, name)

(* The providers of forFeature() and of the connectors in forRoot().       *)
BuildConnectorRegistrations(drivers) == [i \in DOMAIN drivers |-> Registers(drivers[i])]

Names == SetToSeq(ConnectionNames)

ConnectionProviders ==
  <<Connects(DefaultConnectionToken, config.default)>>
  \o [i \in DOMAIN Names |-> Connects(ConnectionToken(Names[i]), Names[i])]

HandleProviders ==
  <<Handles(QueueToken(None, None), None, "default")>>
  \o [i \in DOMAIN Names |-> Handles(QueueToken("default", Names[i]), Names[i], "default")]

ForRoot == BuildConnectorRegistrations(BuiltIn) \o ConnectionProviders \o HandleProviders

(* The list of connections is not known when these providers are made.     *)
ForRootAsync == BuildConnectorRegistrations(BuiltIn)

\* Mutant of ForFeatureQueues: every handle is on the default connection.
ForFeatureQueuesOnDefault ==
  [i \in DOMAIN FeatureQueues |->
     Handles(QueueToken(FeatureQueues[i].queue, FeatureQueues[i].connection),
             None, FeatureQueues[i].queue)]

ForFeatureQueues ==
  [i \in DOMAIN FeatureQueues |->
     Handles(QueueToken(FeatureQueues[i].queue, FeatureQueues[i].connection),
             FeatureQueues[i].connection, FeatureQueues[i].queue)]

ProvidersOf(imported) ==
  CASE imported = "forRoot"          -> IF config.async THEN ForRootAsync ELSE ForRoot
    [] imported = "forFeature"       -> BuildConnectorRegistrations(Features)
    [] imported = "forFeatureQueues" -> ForFeatureQueues

Providers == ProvidersOf(config.modules[module])

(* validate(), which only forRoot() calls.                                 *)
Valid ==
  \/ config.async
  \/ /\ config.default # None /\ ConnectionNames # {}
     /\ config.default \in ConnectionNames
     /\ \A name \in ConnectionNames : config.driver[name] # None

(* collectProviderInstances(): an alias shows an instance a second time;   *)
(* without a global application there is nothing to see.                   *)
ProviderInstances ==
  IF config.global THEN {i \in DOMAIN Processors : ~Processors[i].isAlias} ELSE {}

ApplicationTypeOK ==
  /\ ManagerTypeOK
  /\ phase \in {"providing", "warming", "bootstrapping", "subscribing", "up", "failed",
                "refused", "stopped"}
  /\ module \in 1..(Len(config.modules) + 1)
  /\ phase = "providing" /\ module <= Len(config.modules) => at \in 1..(Len(Providers) + 1)
  /\ phase \in {"bootstrapping", "subscribing", "up"} => at \in 1..(Len(Processors) + 1)
  /\ \A token \in DOMAIN tokens : tokens[token].conn \in Ids
  /\ kept \subseteq running

ApplicationInit ==
  /\ ManagerInit /\ HooksInit
  /\ phase = IF Valid THEN "providing" ELSE "refused"
  /\ module = 1 /\ at = 1
  /\ tokens = NoMap
  /\ running = {} /\ kept = {}
  /\ paused = {}

-----------------------------------------------------------------------------
ContainerAnswer == calls[Container]

(* The container takes the answer to the factory's or the loader's call.   *)
Taken == calls' = [calls EXCEPT ![Container] = Idle]

Fails ==
  /\ ContainerAnswer.stage = "failed" /\ phase \in {"providing", "bootstrapping"}
  /\ phase' = "failed"
  /\ Taken
  /\ UNCHANGED <<config, defaultName, connectors, connections, instances, creating, handles,
                 closing, stopping, hookVars, module, at, tokens, running, kept, paused>>

Advance == at' = at + 1

HasProvider ==
  /\ phase = "providing" /\ module <= Len(config.modules)
  /\ at <= Len(Providers)

ProvideRegistration ==
  /\ HasProvider /\ Providers[at].does = "register"
  /\ RegisterConnector(Providers[at].driver)
  /\ Advance
  /\ UNCHANGED <<config, defaultName, connections, instances, creating, handles, calls,
                 closing, stopping, hookVars, phase, module, tokens, running, kept, paused>>

ProvideBegins ==
  /\ HasProvider /\ Providers[at].does # "register"
  /\ Ask(Container, Providers[at].name, Providers[at].queue)
  /\ UNCHANGED <<hookVars, appVars>>

ProvideEnds ==
  /\ phase = "providing" /\ ContainerAnswer.stage = "done"
  /\ tokens' = Put(tokens, Providers[at].token, ContainerAnswer.got)
  /\ Advance
  /\ Taken
  /\ UNCHANGED <<config, defaultName, connectors, connections, instances, creating, handles,
                 closing, stopping, hookVars, phase, module, running, kept, paused>>

ModuleProvided ==
  /\ phase = "providing" /\ module <= Len(config.modules) /\ at > Len(Providers)
  /\ module' = module + 1 /\ at' = 1
  /\ UNCHANGED <<managerVars, hookVars, phase, tokens, running, kept, paused>>

(* onModuleInit(): warms the default connection if it is declared; what    *)
(* comes of it is only logged.                                             *)
WarmBegins ==
  /\ phase = "providing" /\ module > Len(config.modules)
  /\ phase' = "warming"
  /\ IF defaultName \in ConnectionNames
       THEN Ask(Container, None, None)
       ELSE UNCHANGED managerVars
  /\ UNCHANGED <<hookVars, module, at, tokens, running, kept, paused>>

\* Mutant of WarmEnds: a default connection that cannot be warmed is awaited.
WarmEndsWithSuccess ==
  /\ phase = "warming" /\ ContainerAnswer.stage = "done"
  /\ phase' = "bootstrapping"
  /\ at' = 1
  /\ Taken
  /\ UNCHANGED <<config, defaultName, connectors, connections, instances, creating, handles,
                 closing, stopping, hookVars, module, tokens, running, kept, paused>>

WarmEnds ==
  /\ phase = "warming" /\ ContainerAnswer.stage # "waiting"
  /\ phase' = "bootstrapping"
  /\ at' = 1
  /\ Taken
  /\ UNCHANGED <<config, defaultName, connectors, connections, instances, creating, handles,
                 closing, stopping, hookVars, module, tokens, running, kept, paused>>

-----------------------------------------------------------------------------
(* The loader.  What it is kept from seeing, it does not register.         *)
Concurrency(processor) == IF processor.concurrency = None THEN 1
                          ELSE Max({1, processor.concurrency})

\* Mutant of WorkersOf: a concurrency of 0 is taken as it is.
WorkersUnbounded(i, id) ==
  {[is |-> "worker", processor |-> i, conn |-> id, n |-> n] :
     n \in 1..IF Processors[i].concurrency = None THEN 1 ELSE Processors[i].concurrency}

WorkersOf(i, id) ==
  {[is |-> "worker", processor |-> i, conn |-> id, n |-> n] :
     n \in 1..Concurrency(Processors[i])}

ListenersOf(i) ==
  IF HasEvents
    THEN {[is |-> "listener", processor |-> i, event |-> e] : e \in Processors[i].events}
    ELSE {}

\* Mutant of Starts: what is kept was never started.
StartsNothing(things) == kept' = kept \cup things /\ UNCHANGED running

Starts(things) == running' = running \cup things /\ kept' = kept \cup things

SkipsProvider ==
  /\ phase = "bootstrapping" /\ at \in DOMAIN Processors \ ProviderInstances
  /\ Advance
  /\ UNCHANGED <<managerVars, hookVars, phase, module, tokens, running, kept, paused>>

RegisterBegins ==
  /\ phase = "bootstrapping" /\ at \in ProviderInstances
  /\ IF Processors[at].isHost
       THEN Ask(Container, Processors[at].connection, None) /\ UNCHANGED phase
       ELSE phase' = "failed" /\ UNCHANGED managerVars
  /\ UNCHANGED <<hookVars, module, at, tokens, running, kept, paused>>

IsSync(id) == config.driver[connections[id].name] = "sync"

(* A processor on a sync connection becomes its handler, in place of the   *)
(* one before; on another it gets its workers.                             *)
RegisterEnds ==
  /\ phase = "bootstrapping" /\ ContainerAnswer.stage = "done"
  /\ LET id == ContainerAnswer.got.conn
     IN  IF IsSync(id)
           THEN /\ connections' = [connections EXCEPT ![id].handler = at]
                /\ UNCHANGED <<running, kept>>
           ELSE /\ Starts(WorkersOf(at, id))
                /\ UNCHANGED connections
  /\ phase' = "subscribing"
  /\ Taken
  /\ UNCHANGED <<config, defaultName, connectors, instances, creating, handles, closing,
                 stopping, hookVars, module, at, tokens, paused>>

RegisterEventListeners ==
  /\ phase = "subscribing"
  /\ Starts(ListenersOf(at))
  /\ phase' = "bootstrapping"
  /\ Advance
  /\ UNCHANGED <<managerVars, hookVars, module, tokens, paused>>

BootstrapEnds ==
  /\ phase = "bootstrapping" /\ at > Len(Processors)
  /\ phase' = "up"
  /\ UNCHANGED <<managerVars, hookVars, module, at, tokens, running, kept, paused>>

(* onApplicationShutdown().                                                *)
Shutdown ==
  /\ phase = "up"
  /\ running' = running \ kept
  /\ kept' = {}
  /\ phase' = "stopped"
  /\ UNCHANGED <<managerVars, hookVars, module, at, tokens, paused>>

-----------------------------------------------------------------------------
(* The sync driver.                                                        *)
PauseSync(id, queue) ==
  /\ phase = "up" /\ IsSync(id) /\ connections[id].state = "open" /\ paused = {}
  /\ paused' = {<<id, queue>>}
  /\ UNCHANGED <<managerVars, hookVars, phase, module, at, tokens, running, kept>>

ResumeSync ==
  /\ paused # {}
  /\ paused' = {}
  /\ UNCHANGED <<managerVars, hookVars, phase, module, at, tokens, running, kept>>

\* Mutant of HandledBy: a paused queue pauses the connection.
HandledByUnlessPaused(id, queue) == IF paused # {} THEN None ELSE connections[id].handler

(* push() runs the handler in the call and keeps nothing: the processor    *)
(* that handles a dispatch, None when the job is dropped.                  *)
HandledBy(id, queue) ==
  IF <<id, queue>> \in paused THEN None ELSE connections[id].handler

-----------------------------------------------------------------------------
Attached(i, id) ==
  \/ connections[id].handler = i
  \/ \E w \in running : w.is = "worker" /\ w.processor = i /\ w.conn = id

Boot ==
  \/ Fails
  \/ ProvideRegistration \/ ProvideBegins \/ ProvideEnds \/ ModuleProvided
  \/ WarmBegins \/ WarmEnds
  \/ SkipsProvider \/ RegisterBegins \/ RegisterEnds \/ RegisterEventListeners \/ BootstrapEnds

Operate ==
  \/ phase = "up" /\ UserStep(Callers \ {Container}) /\ UNCHANGED appVars
  \/ \E p \in Callers \ {Container} : CallerGoesOn(p) /\ UNCHANGED appVars
  \/ /\ phase = "up"
     /\ \/ \E name \in ConnectionNames : SetDefaultInstance(name)
        \/ \E by \in Disconnects, name \in ConnectionNames : DisconnectBegins(by, name)
     /\ UNCHANGED <<hookVars, appVars>>
  \/ phase \in {"up", "stopped"} /\ DestroyBegins /\ UNCHANGED <<hookVars, appVars>>
  \/ Shutdown
  \/ \E id \in Ids, lookup \in Lookups : lookup.queue # None /\ PauseSync(id, lookup.queue)
  \/ ResumeSync

ApplicationNext == (Boot \/ (ManagerStep /\ UNCHANGED appVars) \/ Operate) /\ Remembers

ApplicationSpec == ApplicationInit /\ [][ApplicationNext]_vars

(* What the event loop and the container see to: a connect() that ends, a  *)
(* continuation that runs, a close() that ends, a start that goes on.      *)
FairApplicationSpec ==
  /\ ApplicationSpec
  /\ WF_vars(Boot /\ Remembers)
  /\ WF_vars(ManagerStep /\ UNCHANGED appVars /\ Remembers)
  /\ \A p \in Callers \ {Container} :
       WF_vars(CallerGoesOn(p) /\ UNCHANGED appVars /\ Remembers)

-----------------------------------------------------------------------------
(* What some theorems suppose of an application.                           *)
(* Only the default connection is called "default", which is what          *)
(* getQueueToken() puts for a connection without a name.                   *)
NamesApart == \A c \in Configs : "default" \in DOMAIN c.driver => c.default = "default"

(* However many tokens a processor class is known by, the container has    *)
(* one instance of it.                                                     *)
OneInstancePerClass ==
  /\ \A p \in Range(Processors) : \E i \in DOMAIN Processors :
       /\ ~Processors[i].isAlias /\ Processors[i].class = p.class
       /\ Processors[i].connection = p.connection /\ Processors[i].concurrency = p.concurrency
  /\ \A i, j \in DOMAIN Processors :
       ~Processors[i].isAlias /\ ~Processors[j].isAlias /\ Processors[i].class = Processors[j].class
       => i = j

-----------------------------------------------------------------------------
(* What is injected for a connection or a pair is that connection or that  *)
(* pair, those without a name being the default of the configuration,      *)
(* whatever setDefaultInstance has done since; and an application that is  *)
(* up can inject what forRoot and forFeatureQueues were given.             *)
Declared(name) == IF name = None THEN config.default ELSE name

Resolves(token, name, queue) ==
  token \in DOMAIN tokens => /\ connections[tokens[token].conn].name = Declared(name)
                             /\ tokens[token].queue = queue

TokensResolve ==
  /\ \A name \in ConnectionNames \cup {None} :
       /\ Resolves(InjectQueueConnection(name), name, None)
       /\ \A queue \in QueueNames : Resolves(InjectQueue(queue, name), name, queue)
  /\ phase = "up" =>
       /\ \A i \in DOMAIN FeatureQueues : "forFeatureQueues" \in Range(config.modules) =>
            InjectQueue(FeatureQueues[i].queue, FeatureQueues[i].connection) \in DOMAIN tokens
       /\ ~config.async /\ "forRoot" \in Range(config.modules) =>
            \A name \in ConnectionNames \cup {None} :
              {InjectQueueConnection(name), InjectQueue(None, name)} \subseteq DOMAIN tokens

(* "Register an additional connector for a custom driver": a driver that   *)
(* one of the imports registers is never missed by a lookup, whatever the  *)
(* order of the imports.                                                   *)
RegisteredBy(imported, driver) ==
  \/ imported = "forRoot" /\ driver \in Range(BuiltIn)
  \/ imported = "forFeature" /\ driver \in Range(Features)

ImportedConnectorsFound ==
  (\A name \in ConnectionNames : \E k \in DOMAIN config.modules :
      RegisteredBy(config.modules[k], config.driver[name]))
  => \A p \in Callers : calls[p].stage = "failed" => calls[p].why # "unregistered"

(* disconnect() or the shutdown has called close() on a connection of the  *)
(* name; nothing attaches a processor to the next one.                     *)
WasDisconnected(name) ==
  Closing(name) \/ \E id \in Ids : connections[id].name = name /\ connections[id].state = "closed"

(* While the application is up, every processor is attached to a           *)
(* connection of its name, the active one unless that was disconnected: as *)
(* the handler of a sync connection (which a later processor takes over),  *)
(* or with max(1, concurrency) workers, also when the container knows it   *)
(* by several tokens.  "Every worker started by the loader -- stopped on   *)
(* shutdown", and the listeners too, whichever connections were closed.    *)
IsOf(i, class) == Processors[i].class = class

Serves(class, id) == \E i \in ProviderInstances : IsOf(i, class) /\ Attached(i, id)

Replaced(class, id) ==
  IsSync(id) /\ \E i \in ProviderInstances : IsOf(i, class) /\ connections[id].handler > i

WorkersOfClass(class) == {w \in running : w.is = "worker" /\ IsOf(w.processor, class)}

Served ==
  /\ phase = "up" /\ config.global =>
       \A processor \in Range(Processors) : \E id \in Ids :
         /\ connections[id].name = Declared(processor.connection)
         /\ ~WasDisconnected(connections[id].name) =>
              /\ id \in Range(instances)
              /\ Serves(processor.class, id) \/ Replaced(processor.class, id)
         /\ ~IsSync(id) =>
              /\ Serves(processor.class, id)
              /\ Cardinality(WorkersOfClass(processor.class)) = Concurrency(processor)
  /\ phase = "stopped" => running = {}

(* A dispatch on an active sync connection, from the end of the start to   *)
(* the call of its close(), reaches the processor of that connection that  *)
(* was registered last, whatever its queue and name, unless its own queue  *)
(* is paused; without a processor it is dropped.                           *)
ProcessorsOn(name) == {i \in ProviderInstances : Declared(Processors[i].connection) = name}

SyncDispatchHandled ==
  phase = "up" =>
    \A id \in Range(instances), queue \in QueueNames :
      IsSync(id) /\ ~WasDisconnected(connections[id].name) =>
        IF <<id, queue>> \in paused \/ ProcessorsOn(connections[id].name) = {}
          THEN HandledBy(id, queue) = None
          ELSE /\ HandledBy(id, queue) \in ProcessorsOn(connections[id].name)
               /\ \A i \in ProcessorsOn(connections[id].name) : i <= HandledBy(id, queue)

(* The start of the application ends, up or failed, whatever connects.     *)
BootEnds == <>(phase \in {"up", "failed", "refused"})
=============================================================================
