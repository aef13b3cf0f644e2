--------------------- MODULE BroadcastChannelConnection ---------------------
(***************************************************************************)
(* The cross-tab driver (connections/broadcast-channel.connection.ts): the *)
(* IndexedDB driver, whose pop answers null unless this tab is the leader. *)
(* Every other method is inherited.  Every loop of the leader's tab passes *)
(* the check.                                                              *)
(*                                                                         *)
(* Leadership is the TabCoordinator's, of another package: all the driver  *)
(* asks of it is isLeader().  It is modelled at its best: at any time at   *)
(* most one tab is the leader, all tabs agree on which, and a tab that is  *)
(* reloaded is the leader no more.  An election may come at any time, in   *)
(* the middle of a pop of the old leader, too.                             *)
(***************************************************************************)
EXTENDS IndexedDBConnection

CONSTANTS
  NoLeader,
  Coordination   \* whether the connector gives a TabCoordinator: the cases to look at

ASSUME BroadcastAssumption ==
  /\ Coordination \subseteq BOOLEAN
  /\ NoLeader \notin Tabs

VARIABLES
  coordinated,   \* whether this application's connector does
  leader,        \* the tab for which isLeader() holds
  deposed        \* history: the loops whose tab lost the leadership during their pop

election == <<coordinated, leader, deposed>>
bc       == <<idb, election>>

(* Mid-pop: pop has been called, the reservation is not yet written.       *)
Popping(l) == poll[l].stage \in {"asked", "selecting", "selected"}

BroadcastTypeOK ==
  /\ coordinated \in Coordination
  /\ leader \in Tabs \cup {NoLeader}
  /\ deposed \subseteq Loops

BroadcastInit ==
  /\ IndexedDBInit
  /\ coordinated \in Coordination
  /\ leader = NoLeader
  /\ deposed = {}

-----------------------------------------------------------------------------
\* Mutant of LeaderAsks: followers pop as well.
AnyTabAsks(l) == AskPaused(l)

(* A connection that its connector gave no coordinator takes itself for    *)
(* the leader.                                                             *)
IsLeader(tab) == coordinated => leader = tab

(* Leadership is looked at once, when pop is called.                       *)
LeaderAsks(l) == IsLeader(tabOf[l]) /\ AskPaused(l)

(* The leader is another tab, or none: whoever pops is caught by it.       *)
Handover(tab) ==
  /\ leader' = tab
  /\ deposed' = deposed \cup {l \in Loops : Popping(l) /\ tabOf[l] # tab}

Elect(tab) ==
  /\ coordinated
  /\ Handover(tab)
  /\ UNCHANGED <<idb, coordinated>>

(* What a loop does, and what that leaves of its having been deposed.      *)
LoopStep(l) ==
  /\ LeaderAsks(l) \/ Proceed(l)
  /\ deposed' = {m \in deposed : Popping(m)'}
  /\ UNCHANGED <<coordinated, leader>>

TabIsReloaded(tab) ==
  /\ "reload" \in Disturbances /\ Reload(tab)
  /\ leader' = IF leader = tab THEN NoLeader ELSE leader
  /\ deposed' = {m \in deposed : Popping(m)'}
  /\ UNCHANGED coordinated

(* close() leaves the leadership to the coordinator.                       *)
TabIsClosed(tab) ==
  /\ "close" \in Disturbances /\ Close(tab)
  /\ deposed' = {m \in deposed : Popping(m)'}
  /\ UNCHANGED <<coordinated, leader>>

BroadcastNext ==
  /\ \/ \E tab \in Tabs : Elect(tab) \/ TabIsReloaded(tab) \/ TabIsClosed(tab)
     \/ \E l \in Loops : LoopStep(l)
     \/ (Dispatch \/ Elapse) /\ UNCHANGED election
  /\ UNCHANGED tabOf

BroadcastSpec == BroadcastInit /\ [][BroadcastNext]_bc

(* The browser executes transactions and runs what awaits them, and time   *)
(* passes.  Nobody has to be elected.                                      *)
FairBroadcastSpec ==
  /\ BroadcastSpec
  /\ \A l \in Loops : WF_bc(LoopStep(l) /\ UNCHANGED tabOf)
  /\ WF_bc(Elapse /\ UNCHANGED <<election, tabOf>>)

-----------------------------------------------------------------------------
(* What the leader check achieves: with a coordinator, two tabs are in the *)
(* middle of a pop at once only if one of them lost the leadership during  *)
(* its own.  (Two loops of the leader may be at any time.)                 *)
LeaderPopsAlone ==
  coordinated =>
    \A l, m \in Loops :
      Popping(l) /\ Popping(m) /\ tabOf[l] # tabOf[m] => l \in deposed \/ m \in deposed

(* No job waits for ever on a queue that a loop of a lasting leader polls, *)
(* whatever the other tabs do and former leaders were doing, as long as    *)
(* that loop is not left hanging by a close.                               *)
LeaderDrains ==
  \A l \in Loops :
    <>[](leader = tabOf[l] /\ QueueOf[l] \notin paused /\ poll[l] # Hung) =>
      \A id \in JobIds :
        []<>~(/\ id \in DOMAIN store /\ store[id].queue = QueueOf[l]
              /\ store[id].status \in {"pending", "delayed"})

-----------------------------------------------------------------------------
(* What the documentation says and the code does not do.                   *)

(* indexeddb.connection.ts: "the chosen job is then marked Reserved in a   *)
(* follow-up transaction so concurrent workers don't double-dispatch";     *)
(* broadcast-channel.connection.ts: the leader check "keeps work           *)
(* serialised without requiring locks".                                    *)
NoDoubleDispatch ==
  \A l, m \in Loops :
    poll[l].stage = "holding" /\ poll[m].stage = "holding" /\ poll[l].id = poll[m].id => l = m
=============================================================================
