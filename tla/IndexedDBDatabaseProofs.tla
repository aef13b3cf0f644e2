----------------------- MODULE IndexedDBDatabaseProofs -----------------------
(***************************************************************************)
(* What TLAPS proves of how the IndexedDB driver opens, upgrades and       *)
(* closes its database: for any number of connections, callers and open    *)
(* requests, and any faults.                                               *)
(***************************************************************************)
EXTENDS IndexedDBDatabase, SequenceTheorems, TLAPS

PromiseState == {"requested", "open", "closed", "rejected"}
PromiseRecord == [of: Instances, state: PromiseState]

(* The form of the promises, which DatabaseTypeOK takes for granted.       *)
PromisesForm == promises \in Seq(PromiseRecord)

LEMMA SequenceForm ==
  ASSUME NEW S, NEW s \in Seq(S)
  PROVE  /\ DOMAIN s = 1..Len(s) /\ Len(s) \in Nat
         /\ \A p \in 1..Len(s) : s[p] \in S
         /\ \A e \in S : /\ Append(s, e) \in Seq(S)
                         /\ Len(Append(s, e)) = Len(s) + 1
                         /\ DOMAIN Append(s, e) = 1..(Len(s) + 1)
                         /\ Append(s, e)[Len(s) + 1] = e
                         /\ \A p \in 1..Len(s) : Append(s, e)[p] = s[p]
  OBVIOUS

LEMMA FunctionIsSequence ==
  ASSUME NEW S, NEW n \in Nat, NEW s \in [1..n -> S]
  PROVE  s \in Seq(S) /\ Len(s) = n
  OBVIOUS

(* A step that settles one promise changes the state of no other.          *)
LEMMA SettlesOne ==
  ASSUME PromisesForm, NEW p \in Promises, NEW state \in PromiseState, Settles(p, state)
  PROVE  /\ PromisesForm' /\ Len(promises') = Len(promises) /\ Promises' = Promises
         /\ promises'[p].state = state
         /\ \A q \in Promises : /\ promises'[q].of = promises[q].of
                                /\ q # p => promises'[q] = promises[q]
<1> USE DEF PromisesForm, Promises
<1>1. Promises = 1..Len(promises) /\ Len(promises) \in Nat
      /\ \A q \in Promises : promises[q] \in PromiseRecord
  BY SequenceForm
<1>2. promises' = [q \in 1..Len(promises) |->
                     IF q = p THEN [promises[p] EXCEPT !.state = state] ELSE promises[q]]
  BY <1>1 DEF Settles
<1>3. [promises[p] EXCEPT !.state = state] \in PromiseRecord
  BY <1>1 DEF PromiseRecord
<1>4. promises' \in [1..Len(promises) -> PromiseRecord]
  BY <1>1, <1>2, <1>3
<1>5. promises' \in Seq(PromiseRecord) /\ Len(promises') = Len(promises)
  BY <1>1, <1>4, FunctionIsSequence
<1> QED BY <1>1, <1>2, <1>3, <1>5 DEF PromiseRecord

LEMMA RequestAppends ==
  ASSUME PromisesForm, NEW i \in Instances, NEW p, Requests(i, p)
  PROVE  /\ PromisesForm' /\ p = Len(promises) + 1 /\ p <= MaxOpens
         /\ Len(promises') = p /\ Promises' = Promises \cup {p} /\ p \notin Promises
         /\ promises'[p].of = i /\ promises'[p].state = "requested"
         /\ \A q \in Promises : promises'[q] = promises[q]
<1> USE DEF PromisesForm, Promises
<1>1. [of |-> i, state |-> "requested"] \in PromiseRecord
  BY DEF PromiseRecord, PromiseState
<1>2. promises'[p] = [of |-> i, state |-> "requested"]
  BY <1>1, SequenceForm DEF Requests
<1> QED BY <1>1, <1>2, SequenceForm DEF Requests

-----------------------------------------------------------------------------
(* The state is well-formed.                                               *)
CallState(ps) ==
  {Idle} \cup [stage: {"awaiting", "running", "hung"}, promise: ps, kind: {"jobs", "meta"}]

WellFormed ==
  /\ PromisesForm
  /\ Len(promises) <= MaxOpens
  /\ version \in {0} \cup {VersionOf[i] : i \in Instances}
  /\ stores \subseteq {"jobs", "meta"} \X {NameOf[i] : i \in Instances}
  /\ dbPromise \in [Instances -> {0} \cup Promises]
  /\ closing \in [Closers -> {0} \cup Promises]
  /\ overlapped \subseteq Instances
  /\ DOMAIN call = Callers
  /\ \A c \in Callers : call[c] \in CallState(Promises)

LEMMA FormIsType == WellFormed => DatabaseTypeOK
<1> SUFFICES ASSUME WellFormed PROVE DatabaseTypeOK
  OBVIOUS
<1>1. \A p \in Promises : promises[p] \in PromiseRecord
  BY SequenceForm DEF WellFormed, PromisesForm, Promises
<1> QED BY <1>1 DEF WellFormed, DatabaseTypeOK, CallState, PromiseRecord, PromiseState

LEMMA FormInit == DatabaseInit => WellFormed
<1> SUFFICES ASSUME DatabaseInit PROVE WellFormed
  OBVIOUS
<1>1. PromisesForm /\ Len(promises) = 0
  BY EmptySeq DEF DatabaseInit, PromisesForm
<1> QED BY <1>1, DatabaseAssumption DEF DatabaseInit, CallState, WellFormed

LEMMA FormStep == WellFormed /\ [DatabaseNext]_vars => WellFormed'
<1> SUFFICES ASSUME WellFormed, [DatabaseNext]_vars PROVE WellFormed'
  OBVIOUS
<1> USE DatabaseAssumption
<1>0. ASSUME PromisesForm', Len(promises') <= MaxOpens, Promises \subseteq Promises',
             version' \in {version} \cup {VersionOf[i] : i \in Instances},
             stores' \subseteq stores \cup ({"jobs", "meta"} \X {NameOf[i] : i \in Instances}),
             dbPromise' \in [Instances -> {0} \cup Promises'],
             closing' \in [Closers -> {0} \cup Promises'],
             overlapped' \subseteq Instances,
             DOMAIN call' = Callers,
             \A c \in Callers : call'[c] = call[c] \/ call'[c] \in CallState(Promises')
      PROVE  WellFormed'
  <2>1. \A c \in Callers : call'[c] \in CallState(Promises')
    BY <1>0 DEF CallState, WellFormed
  <2> QED BY <1>0, <2>1 DEF WellFormed
<1>a. PromisesForm
  BY DEF WellFormed
<1>b. /\ Promises = 1..Len(promises) /\ Len(promises) \in Nat
      /\ \A p \in Promises : promises[p] \in PromiseRecord
  BY <1>a, SequenceForm DEF PromisesForm, Promises
<1> USE DEF CallState, WellFormed
<1>1. ASSUME NEW c \in Callers, Calls(c) PROVE WellFormed'
  <2> DEFINE i == Uses[c]
  <2>1. PICK p \in 1..MaxOpens, kind \in {"jobs", "meta"} :
          OpenDb(i, p) /\ call' = [call EXCEPT ![c] = Call("awaiting", p, kind)]
    BY <1>1 DEF Calls
  <2>2. i \in Instances /\ UNCHANGED <<version, stores, closing, overlapped>>
    BY <1>1 DEF Calls
  <2> HIDE DEF i
  <2>3. CASE dbPromise[i] # 0
    <3>1. UNCHANGED <<promises, dbPromise>> /\ p \in Promises /\ Promises' = Promises
      BY <2>1, <2>2, <2>3 DEF OpenDb, Promises
    <3> QED BY <1>0, <2>1, <2>2, <3>1 DEF Call, PromisesForm
  <2>4. CASE dbPromise[i] = 0
    <3>1. Requests(i, p)
      BY <2>1, <2>4 DEF OpenDb
    <3>2. /\ PromisesForm' /\ p <= MaxOpens /\ Len(promises') = p
          /\ Promises' = Promises \cup {p}
      <4> HIDE DEF CallState, WellFormed
      <4> QED BY <1>a, <2>2, <3>1, RequestAppends
    <3>3. dbPromise' \in [Instances -> {0} \cup Promises']
      BY <2>2, <3>1, <3>2 DEF Requests
    <3> QED BY <1>0, <2>1, <2>2, <3>2, <3>3 DEF Call
  <2> QED BY <2>3, <2>4
<1>2. ASSUME NEW c \in Callers, Resumes(c) \/ Aborts(c) PROVE WellFormed'
  <2>1. UNCHANGED <<version, stores, promises, dbPromise, closing, overlapped>> /\ Promises' = Promises
    BY <1>2 DEF Resumes, Begins, Rejects, Answers, Aborts, Promises
  <2>2. call[c] # Idle => \A stage \in {"running", "hung"} :
                            [call[c] EXCEPT !.stage = stage] \in CallState(Promises)
    OBVIOUS
  <2>3. \/ /\ call[c].stage \in {"awaiting", "running"}
           /\ \E stage \in {"running", "hung"} : call' = [call EXCEPT ![c].stage = stage]
        \/ call' = [call EXCEPT ![c] = Idle]
    BY <1>2 DEF Resumes, Begins, Rejects, Answers, Aborts, Awaits
  <2>4. call[c].stage \in {"awaiting", "running"} => call[c] # Idle
    BY DEF Idle
  <2>5. DOMAIN call' = Callers
        /\ \A d \in Callers : call'[d] = call[d] \/ call'[d] \in CallState(Promises')
    <3>1. DOMAIN call = Callers /\ Idle \in CallState(Promises)
      OBVIOUS
    <3> HIDE DEF CallState, WellFormed
    <3> QED BY <2>1, <2>2, <2>3, <2>4, <3>1
  <2> QED BY <1>0, <2>1, <2>5 DEF PromisesForm
<1>3. ASSUME NEW p \in Promises, Upgrades(p) \/ Opens(p) \/ OpenFails(p) PROVE WellFormed'
  <2>1. /\ \E state \in PromiseState : Settles(p, state)
        /\ UNCHANGED <<dbPromise, call, closing, overlapped>>
        /\ \/ UNCHANGED <<version, stores>>
           \/ /\ version' = VersionOf[promises[p].of]
              /\ stores' = stores \cup StoresOf(promises[p].of)
    BY <1>3 DEF Upgrades, Opens, OpenFails, CreateStores, PromiseState
  <2>2. promises[p].of \in Instances
    BY <1>b DEF PromiseRecord
  <2>3. PromisesForm' /\ Len(promises') = Len(promises) /\ Promises' = Promises
    BY <2>1, SettlesOne
  <2> QED BY <1>0, <2>1, <2>2, <2>3 DEF StoresOf
<1>4. ASSUME NEW k \in Closers, NEW i \in Instances, CloseCalled(k, i) PROVE WellFormed'
  BY <1>0, <1>4 DEF CloseCalled, PromisesForm, Promises
<1>5. ASSUME NEW k \in Closers, Closes(k) PROVE WellFormed'
  <2>1. closing[k] \in Promises /\ Settles(closing[k], "closed")
    BY <1>5 DEF Closes
  <2>2. PromisesForm' /\ Len(promises') = Len(promises) /\ Promises' = Promises
    BY <2>1, SettlesOne DEF PromiseState
  <2> QED BY <1>0, <1>5, <2>2 DEF Closes
<1>6. ASSUME NEW k \in Closers, CloseThrows(k) PROVE WellFormed'
  BY <1>0, <1>6 DEF CloseThrows, PromisesForm, Promises
<1>7. ASSUME NEW i \in Instances, Reload(i) PROVE WellFormed'
  <2>1. PromisesForm' /\ Len(promises') = Len(promises) /\ Promises' = Promises
    <3>1. \A record \in PromiseRecord : [record EXCEPT !.state = "closed"] \in PromiseRecord
      BY DEF PromiseRecord, PromiseState
    <3>2. \A p \in Promises : [promises[p] EXCEPT !.state = "closed"] \in PromiseRecord
      BY <1>b, <3>1
    <3>3. promises' \in [1..Len(promises) -> PromiseRecord]
      BY <1>7, <1>b, <3>2 DEF Reload
    <3>4. promises' \in Seq(PromiseRecord) /\ Len(promises') = Len(promises)
      BY <1>b, <3>3, FunctionIsSequence
    <3> QED BY <1>b, <3>3, <3>4 DEF PromisesForm, Promises
  <2> QED BY <1>0, <1>7, <2>1 DEF Reload
<1>8. CASE UNCHANGED vars
  BY <1>0, <1>8 DEF vars, PromisesForm, Promises
<1> QED BY <1>1, <1>2, <1>3, <1>4, <1>5, <1>6, <1>7, <1>8 DEF DatabaseNext, Browser

(* The version is that of some connection, the stores are those of some,   *)
(* and every field, pending close and call refers to a promise that openDb *)
(* made.                                                                   *)
THEOREM DatabaseTypeCorrect == DatabaseSpec => []DatabaseTypeOK
<1> QED BY FormIsType, FormInit, FormStep, PTL DEF DatabaseSpec

-----------------------------------------------------------------------------
(* Handles.  A request that is under way or has been answered with a       *)
(* handle is the one its object's field refers to: openDb makes a request  *)
(* only when the field is null, and a close clears the field together with *)
(* the promise it awaited.  Only another close can have changed the field  *)
(* meanwhile: hence this holds of the objects whose closes never overlap.  *)
Live(p) == promises[p].state \in {"requested", "open"}

FieldHolds(i) ==
  /\ \A p \in Promises : Live(p) /\ promises[p].of = i => dbPromise[i] = p
  /\ \A k \in Closers : IsClosing(k, i) => closing[k] = dbPromise[i]
  /\ \A k, m \in Closers : IsClosing(k, i) /\ IsClosing(m, i) => k = m

FieldsHold ==
  /\ \A i \in Instances : dbPromise[i] # 0 => promises[dbPromise[i]].of = i
  /\ \A i \in Instances \ overlapped : FieldHolds(i)

(* What a step leaves alone of an object.                                  *)
LEMMA ObjectUntouched ==
  ASSUME WellFormed, WellFormed', FieldsHold, NEW i \in Instances \ overlapped,
         dbPromise'[i] = dbPromise[i], Promises \subseteq Promises',
         \A p \in Promises : /\ promises'[p].of = promises[p].of
                             /\ promises[p].of = i /\ Live(p)' => Live(p),
         \A p \in Promises' \ Promises : promises'[p].of # i,
         \A k \in Closers : closing'[k] = closing[k] \/ closing'[k] = 0
  PROVE  FieldHolds(i)'
<1>1. FieldHolds(i)
  BY DEF FieldsHold
<1>2. \A k \in Closers : IsClosing(k, i)' => IsClosing(k, i) /\ closing'[k] = closing[k]
  BY DEF WellFormed, IsClosing
<1> QED BY <1>1, <1>2 DEF FieldHolds

LEMMA FieldsStep == WellFormed /\ FieldsHold /\ [DatabaseNext]_vars => FieldsHold'
<1> SUFFICES ASSUME WellFormed, FieldsHold, [DatabaseNext]_vars PROVE FieldsHold'
  OBVIOUS
<1>a. /\ PromisesForm /\ WellFormed'
      /\ dbPromise \in [Instances -> {0} \cup Promises]
      /\ closing \in [Closers -> {0} \cup Promises]
  BY FormStep DEF WellFormed
<1>b. /\ Promises = 1..Len(promises) /\ Len(promises) \in Nat
      /\ \A p \in Promises : promises[p] \in PromiseRecord
  BY <1>a, SequenceForm DEF PromisesForm, Promises
<1>1. ASSUME NEW c \in Callers, Calls(c) PROVE FieldsHold'
  <2> DEFINE i == Uses[c]
  <2>1. i \in Instances /\ closing' = closing /\ overlapped' = overlapped
    BY <1>1, DatabaseAssumption DEF Calls
  <2>2. PICK p \in 1..MaxOpens : OpenDb(i, p)
    BY <1>1 DEF Calls
  <2> HIDE DEF i
  <2>3. CASE dbPromise[i] # 0
    BY <2>1, <2>2, <2>3 DEF OpenDb, FieldsHold, FieldHolds, IsClosing, Live, Promises
  <2>4. CASE dbPromise[i] = 0
    <3>1. Requests(i, p)
      BY <2>2, <2>4 DEF OpenDb
    <3>2. /\ Promises' = Promises \cup {p} /\ p \notin Promises /\ p # 0
          /\ promises'[p].of = i
          /\ \A q \in Promises : promises'[q] = promises[q]
      BY <1>a, <2>1, <3>1, RequestAppends
    <3>3. \A j \in Instances : dbPromise'[j] = IF j = i THEN p ELSE dbPromise[j]
      BY <1>a, <2>1, <3>1 DEF Requests
    <3>4. \A j \in Instances : dbPromise'[j] # 0 => promises'[dbPromise'[j]].of = j
      BY <1>a, <3>2, <3>3 DEF FieldsHold
    <3>5. ASSUME NEW j \in Instances \ overlapped, j # i PROVE FieldHolds(j)'
      BY <1>a, <2>1, <3>2, <3>3, <3>5, ObjectUntouched DEF Live
    <3>6. ASSUME i \notin overlapped PROVE FieldHolds(i)'
      <4>1. FieldHolds(i)
        BY <2>1, <3>6 DEF FieldsHold
      <4>2. \A q \in Promises : ~(Live(q) /\ promises[q].of = i)
        BY <1>b, <2>4, <4>1 DEF FieldHolds
      <4>3. \A k \in Closers : ~IsClosing(k, i)
        BY <2>4, <4>1 DEF FieldHolds, IsClosing
      <4>4. \A k \in Closers : ~IsClosing(k, i)'
        BY <1>a, <2>1, <3>2, <4>3 DEF IsClosing
      <4>5. \A q \in Promises' : Live(q)' /\ promises'[q].of = i => q = p
        BY <3>2, <4>2 DEF Live
      <4> QED BY <2>1, <3>3, <4>4, <4>5 DEF FieldHolds
    <3> QED BY <2>1, <3>4, <3>5, <3>6 DEF FieldsHold
  <2> QED BY <2>3, <2>4
<1>2. ASSUME NEW c \in Callers, Resumes(c) \/ Aborts(c) PROVE FieldsHold'
  BY <1>2 DEF Resumes, Begins, Rejects, Answers, Aborts, FieldsHold, FieldHolds, IsClosing,
              Live, Promises
<1>3. ASSUME NEW p \in Promises, Upgrades(p) \/ Opens(p) \/ OpenFails(p) PROVE FieldsHold'
  <2>1. /\ \E state \in PromiseState : Settles(p, state)
        /\ Live(p) /\ UNCHANGED <<dbPromise, closing, overlapped>>
    BY <1>3 DEF Upgrades, Opens, OpenFails, IsNext, Live, PromiseState
  <2>2. /\ Promises' = Promises
        /\ \A q \in Promises : /\ promises'[q].of = promises[q].of
                               /\ q # p => promises'[q] = promises[q]
    BY <1>a, <2>1, SettlesOne
  <2>3. \A q \in Promises : Live(q)' => Live(q)
    BY <2>1, <2>2 DEF Live
  <2>4. \A j \in Instances \ overlapped : FieldHolds(j)'
    BY <1>a, <2>1, <2>2, <2>3, ObjectUntouched
  <2>5. \A j \in Instances : dbPromise'[j] # 0 => promises'[dbPromise'[j]].of = j
    BY <1>a, <2>1, <2>2 DEF FieldsHold
  <2> QED BY <2>1, <2>4, <2>5 DEF FieldsHold
<1>4. ASSUME NEW k \in Closers, NEW i \in Instances, CloseCalled(k, i) PROVE FieldsHold'
  <2>1. /\ promises' = promises /\ dbPromise' = dbPromise
        /\ \A m \in Closers : closing'[m] = IF m = k THEN dbPromise[i] ELSE closing[m]
        /\ promises[dbPromise[i]].of = i /\ dbPromise[i] # 0
    BY <1>a, <1>4 DEF CloseCalled, FieldsHold
  <2>2. \A j \in Instances, m \in Closers :
          IsClosing(m, j)' <=> IF m = k THEN j = i ELSE IsClosing(m, j)
    BY <2>1 DEF IsClosing
  <2>3. overlapped \subseteq overlapped'
        /\ (i \notin overlapped' => \A m \in Closers : ~IsClosing(m, i))
    BY <1>4 DEF CloseCalled
  <2>4. \A j \in Instances \ overlapped' : FieldHolds(j)'
    BY <2>1, <2>2, <2>3 DEF FieldsHold, FieldHolds, Live, Promises
  <2> QED BY <2>1, <2>4 DEF FieldsHold
<1>5. ASSUME NEW k \in Closers, Closes(k) PROVE FieldsHold'
  <2>1. PICK p \in Promises : p = closing[k]
    BY <1>a, <1>5 DEF Closes
  <2>2. PICK i \in Instances : i = promises[p].of
    BY <1>b DEF PromiseRecord
  <2>3. IsClosing(k, i) /\ overlapped' = overlapped
    BY <1>5, <2>1, <2>2 DEF IsClosing, Closes
  <2>4. /\ Promises' = Promises
        /\ promises'[p].state = "closed"
        /\ \A q \in Promises : /\ promises'[q].of = promises[q].of
                               /\ q # p => promises'[q] = promises[q]
    BY <1>a, <1>5, <2>1, SettlesOne DEF Closes, PromiseState
  <2>5. /\ \A j \in Instances : dbPromise'[j] = IF j = i THEN 0 ELSE dbPromise[j]
        /\ \A m \in Closers : closing'[m] = IF m = k THEN 0 ELSE closing[m]
    BY <1>a, <1>5, <2>1, <2>2 DEF Closes
  <2>6. \A j \in Instances : dbPromise'[j] # 0 => promises'[dbPromise'[j]].of = j
    BY <1>a, <2>4, <2>5 DEF FieldsHold
  <2>7. ASSUME NEW j \in Instances \ overlapped, j # i PROVE FieldHolds(j)'
    BY <1>a, <2>4, <2>5, <2>7, ObjectUntouched DEF Live
  <2>8. ASSUME i \notin overlapped PROVE FieldHolds(i)'
    <3>1. FieldHolds(i)
      BY <2>8 DEF FieldsHold
    <3>2. p = dbPromise[i] /\ \A m \in Closers : IsClosing(m, i) => m = k
      BY <2>1, <2>3, <3>1 DEF FieldHolds
    <3>3. \A q \in Promises : ~(Live(q)' /\ promises'[q].of = i)
      BY <2>4, <3>1, <3>2 DEF FieldHolds, Live
    <3>4. \A m \in Closers : ~IsClosing(m, i)'
      BY <1>a, <2>4, <2>5, <3>2 DEF IsClosing
    <3> QED BY <2>4, <3>3, <3>4 DEF FieldHolds
  <2> QED BY <2>3, <2>6, <2>7, <2>8 DEF FieldsHold
<1>6. ASSUME NEW k \in Closers, CloseThrows(k) PROVE FieldsHold'
  <2>1. UNCHANGED <<promises, dbPromise, overlapped>> /\ Promises' = Promises
        /\ \A m \in Closers : closing'[m] = closing[m] \/ closing'[m] = 0
    BY <1>a, <1>6 DEF CloseThrows, Promises
  <2>2. \A j \in Instances \ overlapped : FieldHolds(j)'
    BY <1>a, <2>1, ObjectUntouched DEF Live
  <2> QED BY <2>1, <2>2 DEF FieldsHold
<1>7. ASSUME NEW i \in Instances, Reload(i) PROVE FieldsHold'
  <2>1. /\ Promises' = Promises
        /\ \A q \in Promises : /\ promises'[q].of = promises[q].of
                               /\ promises[q].of = i => ~Live(q)'
                               /\ promises[q].of # i => promises'[q] = promises[q]
    <3>1. \A record \in PromiseRecord :
            /\ [record EXCEPT !.state = "closed"].of = record.of
            /\ [record EXCEPT !.state = "closed"].state = "closed"
      BY DEF PromiseRecord
    <3> QED BY <1>7, <1>b, <3>1 DEF Reload, Promises, Live
  <2>2. /\ \A j \in Instances : dbPromise'[j] = IF j = i THEN 0 ELSE dbPromise[j]
        /\ \A k \in Closers : closing'[k] = IF IsClosing(k, i) THEN 0 ELSE closing[k]
        /\ overlapped' = overlapped \ {i}
    BY <1>a, <1>7 DEF Reload
  <2>3. \A j \in Instances : dbPromise'[j] # 0 => promises'[dbPromise'[j]].of = j
    BY <1>a, <2>1, <2>2 DEF FieldsHold
  <2>4. ASSUME NEW j \in Instances \ overlapped, j # i PROVE FieldHolds(j)'
    BY <1>a, <2>1, <2>2, <2>4, ObjectUntouched DEF Live
  <2>5. FieldHolds(i)'
    <3>1. ASSUME NEW k \in Closers PROVE ~IsClosing(k, i)'
      <4>1. closing[k] # 0 => closing[k] \in Promises
        BY <1>a
      <4> QED BY <2>1, <2>2, <4>1 DEF IsClosing
    <3> QED BY <2>1, <3>1 DEF FieldHolds
  <2> QED BY <2>2, <2>3, <2>4, <2>5 DEF FieldsHold
<1>8. CASE UNCHANGED vars
  BY <1>8 DEF vars, FieldsHold, FieldHolds, IsClosing, Live, Promises
<1> QED BY <1>1, <1>2, <1>3, <1>4, <1>5, <1>6, <1>7, <1>8 DEF DatabaseNext, Browser

(* "So tests don't leak open databases and hot-reload doesn't accumulate   *)
(* handles": no handle is open that no field refers to, however calls,     *)
(* closes, failures and reloads interleave, unless two close() of the      *)
(* object were under way at once.                                          *)
THEOREM NoLeakedHandleAlways == DatabaseSpec => []NoLeakedHandle
<1>1. DatabaseInit => WellFormed /\ FieldsHold
  BY FormInit, EmptySeq DEF DatabaseInit, FieldsHold, FieldHolds, IsClosing, Promises
<1>2. WellFormed /\ FieldsHold /\ [DatabaseNext]_vars => WellFormed' /\ FieldsHold'
  BY FormStep, FieldsStep
<1>3. WellFormed /\ FieldsHold => NoLeakedHandle
  <2> SUFFICES ASSUME WellFormed, FieldsHold PROVE NoLeakedHandle
    OBVIOUS
  <2>1. \A p \in Promises : promises[p].of \in Instances
    <3>1. \A p \in Promises : promises[p] \in PromiseRecord
      BY SequenceForm DEF WellFormed, PromisesForm, Promises
    <3> QED BY <3>1 DEF PromiseRecord
  <2>2. ASSUME NEW p \in Promises, promises[p].state = "open", promises[p].of \notin overlapped
        PROVE  dbPromise[promises[p].of] = p
    <3>1. PICK i \in Instances \ overlapped : i = promises[p].of
      BY <2>1, <2>2
    <3>2. FieldHolds(i) /\ Live(p)
      BY <2>2 DEF FieldsHold, Live
    <3> QED BY <3>1, <3>2 DEF FieldHolds
  <2> QED BY <2>2 DEF NoLeakedHandle
<1> QED BY <1>1, <1>2, <1>3, PTL DEF DatabaseSpec

-----------------------------------------------------------------------------
(* The schema.  Whoever brings the database to a version creates the       *)
(* stores of its own name, and whoever finds it there creates nothing:     *)
(* that is enough when connections with the same version have the same     *)
(* name.  (Without this hypothesis it is not: see the run database_shared.)*)
OneNamePerVersion ==
  \A i, j \in Instances : VersionOf[i] = VersionOf[j] => NameOf[i] = NameOf[j]

VersionHasStores ==
  /\ SchemaComplete
  /\ \A i \in Instances : VersionOf[i] = version => StoresOf(i) \subseteq stores

LEMMA SchemaStep ==
  ASSUME OneNamePerVersion, WellFormed, VersionHasStores, [DatabaseNext]_vars
  PROVE  VersionHasStores'
<1>a. PromisesForm
  BY DEF WellFormed
<1>b. \A p \in Promises : promises[p] \in PromiseRecord
  BY <1>a, SequenceForm DEF PromisesForm, Promises
<1>0. ASSUME UNCHANGED <<version, stores>>,
             \A p \in Promises' : promises'[p].state = "open" =>
               p \in Promises /\ promises'[p] = promises[p]
      PROVE  VersionHasStores'
  BY <1>0 DEF VersionHasStores, SchemaComplete, StoresOf
<1>1. ASSUME NEW c \in Callers, Calls(c) PROVE VersionHasStores'
  <2>1. PICK p \in 1..MaxOpens : OpenDb(Uses[c], p)
    BY <1>1 DEF Calls
  <2>2. CASE promises' = promises
    BY <1>0, <1>1, <2>2 DEF Calls, Promises
  <2>3. CASE Requests(Uses[c], p)
    <3> Uses[c] \in Instances
      BY DatabaseAssumption
    <3>1. /\ Promises' = Promises \cup {p}
          /\ promises'[p].state = "requested"
          /\ \A q \in Promises : promises'[q] = promises[q]
      BY <1>a, <2>3, RequestAppends
    <3> QED BY <1>0, <1>1, <3>1 DEF Calls
  <2> QED BY <2>1, <2>2, <2>3 DEF OpenDb
<1>2. ASSUME NEW c \in Callers, Resumes(c) \/ Aborts(c) PROVE VersionHasStores'
  BY <1>0, <1>2 DEF Resumes, Begins, Rejects, Answers, Aborts, Promises
<1>3. ASSUME NEW p \in Promises, Upgrades(p) \/ Opens(p) PROVE VersionHasStores'
  <2> DEFINE i == promises[p].of
  <2>1. i \in Instances /\ Settles(p, "open")
    BY <1>3, <1>b DEF Upgrades, Opens, PromiseRecord
  <2>2. /\ Promises' = Promises
        /\ \A q \in Promises : /\ promises'[q].of = promises[q].of
                               /\ q # p => promises'[q] = promises[q]
    BY <1>a, <2>1, SettlesOne DEF PromiseState
  <2>3. version' = VersionOf[i] /\ stores \subseteq stores' /\ StoresOf(i) \subseteq stores'
    BY <1>3, <2>1 DEF Upgrades, Opens, CreateStores, VersionHasStores
  <2> HIDE DEF i
  <2>4. \A j \in Instances : VersionOf[j] = version' => StoresOf(j) \subseteq stores'
    BY <2>1, <2>3 DEF OneNamePerVersion, StoresOf
  <2>5. SchemaComplete'
    BY <2>2, <2>3 DEF SchemaComplete, VersionHasStores, StoresOf, i
  <2> QED BY <2>4, <2>5 DEF VersionHasStores, StoresOf
<1>4. ASSUME NEW p \in Promises, OpenFails(p) PROVE VersionHasStores'
  <2>1. /\ Promises' = Promises /\ promises'[p].state = "rejected"
        /\ \A q \in Promises : q # p => promises'[q] = promises[q]
    BY <1>a, <1>4, SettlesOne DEF OpenFails, PromiseState
  <2> QED BY <1>0, <1>4, <2>1 DEF OpenFails
<1>5. ASSUME NEW k \in Closers, (\E i \in Instances : CloseCalled(k, i)) \/ CloseThrows(k)
      PROVE  VersionHasStores'
  BY <1>0, <1>5 DEF CloseCalled, CloseThrows, Promises
<1>6. ASSUME NEW k \in Closers, Closes(k) PROVE VersionHasStores'
  <2>1. PICK p \in Promises : p = closing[k]
    BY <1>6 DEF Closes, WellFormed
  <2>2. /\ Promises' = Promises /\ promises'[p].state = "closed"
        /\ \A q \in Promises : q # p => promises'[q] = promises[q]
    BY <1>a, <1>6, <2>1, SettlesOne DEF Closes, PromiseState
  <2> QED BY <1>0, <1>6, <2>2 DEF Closes
<1>7. ASSUME NEW i \in Instances, Reload(i) PROVE VersionHasStores'
  <2>1. \A record \in PromiseRecord : [record EXCEPT !.state = "closed"].state = "closed"
    BY DEF PromiseRecord
  <2> QED BY <1>0, <1>7, <1>b, <2>1 DEF Reload, Promises
<1>8. CASE UNCHANGED vars
  BY <1>0, <1>8 DEF vars, Promises
<1> QED
  BY <1>1, <1>2, <1>3, <1>4, <1>5, <1>6, <1>7, <1>8 DEF DatabaseNext, Browser

(* Whoever was given a handle finds its object stores, through upgrades by *)
(* later deployments, failed opens and reloads: no call fails for want of  *)
(* a store.                                                                *)
THEOREM SchemaCompleteAlways == OneNamePerVersion => (DatabaseSpec => []SchemaComplete)
<1> SUFFICES ASSUME OneNamePerVersion PROVE DatabaseSpec => []SchemaComplete
  OBVIOUS
<1>1. DatabaseInit => WellFormed /\ VersionHasStores
  BY FormInit, EmptySeq, DatabaseAssumption
     DEF DatabaseInit, VersionHasStores, SchemaComplete, Promises
<1>2. WellFormed /\ VersionHasStores /\ [DatabaseNext]_vars => WellFormed' /\ VersionHasStores'
  BY FormStep, SchemaStep
<1>3. VersionHasStores => SchemaComplete
  BY DEF VersionHasStores
<1> QED BY <1>1, <1>2, <1>3, PTL DEF DatabaseSpec
=============================================================================
