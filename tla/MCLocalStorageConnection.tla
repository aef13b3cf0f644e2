----------------------- MODULE MCLocalStorageConnection -----------------------
(***************************************************************************)
(* Tabs whose workers poll one queue.  A job of it either has a uniqueId   *)
(* or a second attempt; one of another queue is only dispatched.  The tabs *)
(* are interchangeable: they poll the same queue, and no property names    *)
(* one.                                                                    *)
(***************************************************************************)
EXTENDS LocalStorageConnection, TLC

CONSTANTS q1, q2, t1, t2, u1

MCQueueOf == [t \in Tabs |-> q1]

TabSymmetry == Permutations(Tabs)

MCOptionsQ1 ==
  {[queue |-> q1, delayMs |-> 0, tries |-> Undefined, backoffMs |-> Undefined,
    uniqueFor |-> 1, uniqueId |-> u1],
   [queue |-> q1, delayMs |-> 0, tries |-> 2, backoffMs |-> Undefined,
    uniqueFor |-> Undefined, uniqueId |-> u1]}

MCOptions ==
  MCOptionsQ1 \cup
  {[queue |-> q2, delayMs |-> 1, tries |-> 2, backoffMs |-> Undefined,
    uniqueFor |-> 1, uniqueId |-> u1]}
=============================================================================
