-------------------------- MODULE IndexedDBDatabase --------------------------
(***************************************************************************)
(* How the IndexedDB driver comes by its database (openDb and close of     *)
(* connections/indexeddb.connection.ts): the lazy dbPromise of every       *)
(* connection object, the open requests of all tabs at one database, the   *)
(* schema the first of them creates, and the calls that wait for it all.   *)
(* IndexedDBConnection takes up where a call has its transaction.          *)
(*                                                                         *)
(* The browser's side is external: requests at one database are answered   *)
(* one after the other; a version below the database's is an error, an     *)
(* equal one opens without an upgrade, and a higher one waits until every  *)
(* other handle is closed and its transactions are over, then upgrades.    *)
(***************************************************************************)
EXTENDS Naturals, Sequences

CONSTANTS
  Instances,   \* the connection objects, over all tabs
  NameOf,      \* the prefix and name of each: they name its object stores
  VersionOf,   \* the dbVersion each was configured with
  Callers,     \* whoever calls the methods of a connection
  Uses,        \* the connection object each of them calls
  Closers,     \* whoever calls close(): disconnect(), disconnectAll(), a test's teardown
  MaxOpens,    \* bound: how many open requests are ever made
  Faults       \* what may happen: "refuse" (the browser fails to open), "abort"
               \* (a transaction is aborted when it commits), "reload" (of a tab)

ASSUME DatabaseAssumption ==
  /\ VersionOf \in [Instances -> Nat \ {0}]
  /\ Uses \in [Callers -> Instances]
  /\ MaxOpens \in Nat
  /\ Faults \subseteq {"refuse", "abort", "reload"}

VARIABLES
  version,     \* of the database; 0 before it exists
  stores,      \* its object stores
  promises,    \* every promise openDb has made, oldest first, with its outcome
  dbPromise,   \* the field of each object: the number of a promise, 0 for null
  call,        \* how far the current call of each caller has come
  closing,     \* the promise that each close() under way awaits, 0 if none
  overlapped   \* history: the objects that two close() were under way on at once

vars == <<version, stores, promises, dbPromise, call, closing, overlapped>>

Promises == DOMAIN promises

Idle == [stage |-> "idle"]
Call(stage, promise, kind) == [stage |-> stage, promise |-> promise, kind |-> kind]

DatabaseTypeOK ==
  /\ version \in {0} \cup {VersionOf[i] : i \in Instances}
  /\ stores \subseteq {"jobs", "meta"} \X {NameOf[i] : i \in Instances}
  /\ Len(promises) <= MaxOpens
  /\ \A p \in Promises :
       promises[p] \in [of: Instances, state: {"requested", "open", "closed", "rejected"}]
  /\ dbPromise \in [Instances -> {0} \cup Promises]
  /\ closing \in [Closers -> {0} \cup Promises]
  /\ overlapped \subseteq Instances
  /\ DOMAIN call = Callers
  /\ \A c \in Callers :
       call[c] \in {Idle} \cup [stage: {"awaiting", "running", "hung"},
                                promise: Promises, kind: {"jobs", "meta"}]

DatabaseInit ==
  /\ version = 0
  /\ stores = {}
  /\ promises = << >>
  /\ dbPromise = [i \in Instances |-> 0]
  /\ call = [c \in Callers |-> Idle]
  /\ closing = [k \in Closers |-> 0]
  /\ overlapped = {}

-----------------------------------------------------------------------------
(* jobsStore() and metaStore(): the prefix and name are part of the name.  *)
StoresOf(i) == {<<"jobs", NameOf[i]>>, <<"meta", NameOf[i]>>}

Requests(i, p) ==
  /\ p = Len(promises) + 1 /\ p <= MaxOpens
  /\ promises' = Append(promises, [of |-> i, state |-> "requested"])
  /\ dbPromise' = [dbPromise EXCEPT ![i] = p]

\* Mutant of OpenDb: the field is only consulted once the database is open.
OpenDbTwice(i, p) ==
  IF dbPromise[i] # 0 /\ promises[dbPromise[i]].state # "requested"
    THEN p = dbPromise[i] /\ UNCHANGED <<promises, dbPromise>>
    ELSE Requests(i, p)

(* openDb: p is the promise it returns, the cached one whatever became of  *)
(* it, or that of a new request.                                           *)
OpenDb(i, p) ==
  IF dbPromise[i] # 0
    THEN p = dbPromise[i] /\ UNCHANGED <<promises, dbPromise>>
    ELSE Requests(i, p)

(* A call of a method that works on the jobs or on the pause flags.        *)
Calls(c) ==
  /\ call[c] = Idle
  /\ \E p \in 1..MaxOpens, kind \in {"jobs", "meta"} :
       OpenDb(Uses[c], p) /\ call' = [call EXCEPT ![c] = Call("awaiting", p, kind)]
  /\ UNCHANGED <<version, stores, closing, overlapped>>

-----------------------------------------------------------------------------
Settles(p, state) == promises' = [promises EXCEPT ![p].state = state]

(* The request that the browser works at.                                  *)
IsNext(p) ==
  promises[p].state = "requested" /\ \A q \in 1..(p - 1) : promises[q].state # "requested"

NewerThanStored(p) == VersionOf[promises[p].of] > version

\* Mutant of CreateStores: whoever finds no job store creates just that.
CreateJobStore(i) == stores' = stores \cup {<<"jobs", NameOf[i]>>}

\* Mutant of CreateStores: the connection's name is not part of theirs.
CreateUnnamedStores(i) == stores' = stores \cup {<<"jobs", "">>, <<"meta", "">>}

(* onupgradeneeded: what is missing is created.                            *)
CreateStores(i) == stores' = stores \cup StoresOf(i)

Upgrades(p) ==
  /\ IsNext(p) /\ NewerThanStored(p)
  /\ \A q \in Promises : promises[q].state # "open"
  /\ \A c \in Callers : call[c].stage # "running"
  /\ version' = VersionOf[promises[p].of]
  /\ CreateStores(promises[p].of)
  /\ Settles(p, "open")
  /\ UNCHANGED <<dbPromise, call, closing, overlapped>>

Opens(p) ==
  /\ IsNext(p) /\ VersionOf[promises[p].of] = version
  /\ Settles(p, "open")
  /\ UNCHANGED <<version, stores, dbPromise, call, closing, overlapped>>


OpenFails(p) ==
  /\ IsNext(p)
  /\ "refuse" \in Faults \/ VersionOf[promises[p].of] < version
  /\ Settles(p, "rejected")
  /\ UNCHANGED <<version, stores, dbPromise, call, closing, overlapped>>

-----------------------------------------------------------------------------
Awaits(c) == call[c].stage = "awaiting" /\ promises[call[c].promise].state # "requested"

(* db.transaction() throws on a closed handle and on a missing store.      *)
HasTransaction(c) ==
  /\ promises[call[c].promise].state = "open"
  /\ <<call[c].kind, NameOf[Uses[c]]>> \in stores

Begins(c) ==
  /\ Awaits(c) /\ HasTransaction(c)
  /\ call' = [call EXCEPT ![c].stage = "running"]
  /\ UNCHANGED <<version, stores, promises, dbPromise, closing, overlapped>>

Rejects(c) ==
  /\ Awaits(c) /\ ~HasTransaction(c)
  /\ call' = [call EXCEPT ![c] = Idle]
  /\ UNCHANGED <<version, stores, promises, dbPromise, closing, overlapped>>

(* The transaction completes, or a request in it fails: the call answers.  *)
Answers(c) ==
  /\ call[c].stage = "running"
  /\ call' = [call EXCEPT ![c] = Idle]
  /\ UNCHANGED <<version, stores, promises, dbPromise, closing, overlapped>>

(* Aborted by the quota when it commits: abort is fired, for which nobody  *)
(* listens, and error is not.                                              *)
Aborts(c) ==
  /\ "abort" \in Faults
  /\ call[c].stage = "running"
  /\ call' = [call EXCEPT ![c].stage = "hung"]
  /\ UNCHANGED <<version, stores, promises, dbPromise, closing, overlapped>>

-----------------------------------------------------------------------------
IsClosing(k, i) == closing[k] # 0 /\ promises[closing[k]].of = i

(* close() awaits the promise of the field, if there is one ...            *)
CloseCalled(k, i) ==
  /\ closing[k] = 0 /\ dbPromise[i] # 0
  /\ closing' = [closing EXCEPT ![k] = dbPromise[i]]
  /\ overlapped' = IF \E other \in Closers : IsClosing(other, i) THEN overlapped \cup {i}
                                                               ELSE overlapped
  /\ UNCHANGED <<version, stores, promises, dbPromise, call>>

(* ... closes the handle, to no effect if it is closed already, and        *)
(* forgets the field's promise, whichever that is by now ...               *)
Closes(k) ==
  /\ closing[k] # 0 /\ promises[closing[k]].state \in {"open", "closed"}
  /\ Settles(closing[k], "closed")
  /\ dbPromise' = [dbPromise EXCEPT ![promises[closing[k]].of] = 0]
  /\ closing' = [closing EXCEPT ![k] = 0]
  /\ UNCHANGED <<version, stores, call, overlapped>>

(* ... unless the awaited promise was rejected: close() throws and the     *)
(* field stays.                                                            *)
CloseThrows(k) ==
  /\ closing[k] # 0 /\ promises[closing[k]].state = "rejected"
  /\ closing' = [closing EXCEPT ![k] = 0]
  /\ UNCHANGED <<version, stores, promises, dbPromise, call, overlapped>>

(* The tab of object i is reloaded: its handle is closed, its requests and *)
(* calls are gone.                                                         *)
Reload(i) ==
  /\ "reload" \in Faults
  /\ promises' = [p \in Promises |-> IF promises[p].of = i /\ promises[p].state # "rejected"
                                       THEN [promises[p] EXCEPT !.state = "closed"]
                                       ELSE promises[p]]
  /\ dbPromise' = [dbPromise EXCEPT ![i] = 0]
  /\ closing' = [k \in Closers |-> IF IsClosing(k, i) THEN 0 ELSE closing[k]]
  /\ overlapped' = overlapped \ {i}
  /\ call' = [c \in Callers |-> IF Uses[c] = i THEN Idle ELSE call[c]]
  /\ UNCHANGED <<version, stores>>

-----------------------------------------------------------------------------
Browser == \E p \in Promises : Upgrades(p) \/ Opens(p) \/ OpenFails(p)
Resumes(c) == Begins(c) \/ Rejects(c) \/ Answers(c)

DatabaseNext ==
  \/ \E c \in Callers : Calls(c) \/ Resumes(c) \/ Aborts(c)
  \/ Browser
  \/ \E k \in Closers : (\E i \in Instances : CloseCalled(k, i)) \/ Closes(k) \/ CloseThrows(k)
  \/ \E i \in Instances : Reload(i)

DatabaseSpec == DatabaseInit /\ [][DatabaseNext]_vars

(* The browser answers requests and executes transactions, and runs the    *)
(* continuations of settled promises.  Nobody has to call anything.        *)
FairDatabaseSpec ==
  /\ DatabaseSpec
  /\ WF_vars(Browser)
  /\ \A c \in Callers : WF_vars(Resumes(c))
  /\ \A k \in Closers : WF_vars(Closes(k) \/ CloseThrows(k))

-----------------------------------------------------------------------------
(* openDb: the stores are added "if they don't already exist so multiple   *)
(* connections can share the same database": whoever got a handle finds    *)
(* its own stores there.                                                   *)
SchemaComplete ==
  \A p \in Promises : promises[p].state = "open" => StoresOf(promises[p].of) \subseteq stores

(* close: "so tests don't leak open databases and hot-reload doesn't       *)
(* accumulate handles": a handle that no field refers to is never open,    *)
(* unless two close() of its object overlapped: the later one then forgets *)
(* the promise of an open that came in between.  (An open handle that      *)
(* nobody can close blocks every later upgrade.)                           *)
NoLeakedHandle ==
  \A p \in Promises :
    promises[p].state = "open" /\ promises[p].of \notin overlapped => dbPromise[promises[p].of] = p

(* The one thing that keeps a call waiting for the database for ever is an *)
(* upgrade that waits for a handle of an older version: a failed open, a   *)
(* close or a reload in any order answers it.                              *)
UpgradeBlocked ==
  \E p, q \in Promises : IsNext(p) /\ NewerThanStored(p) /\ promises[q].state = "open"

=============================================================================
