--------------------- MODULE MCBroadcastChannelConnection ---------------------
(***************************************************************************)
(* Two tabs and two polling loops on one queue, both in one tab or one in  *)
(* each, with and without a TabCoordinator.                                *)
(***************************************************************************)
EXTENDS BroadcastChannelConnection, TLC

CONSTANTS q1, t1, t2, l1, l2, u1

Together == {(l1 :> t1) @@ (l2 :> t1)}
MCLayouts == Together \cup {(l1 :> t1) @@ (l2 :> t2)}

MCQueueOf == [l \in Loops |-> q1]

MCOptions ==
  [queue: {q1}, delayMs: {0}, tries: {Undefined, 2}, backoffMs: {Undefined},
   uniqueFor: {1}, uniqueId: {u1}]
=============================================================================
