----------------------------- MODULE MCWorkerPool -----------------------------
(***************************************************************************)
(* A small instance of WorkerPool: a worker polls one queue of a           *)
(* connection, whose other queue is only dispatched to.  Dispatches are    *)
(* immediate or delayed, with and without uniqueFor and tries.             *)
(***************************************************************************)
EXTENDS WorkerPool

CONSTANTS q1, q2, w1, u1

MCQueueOf == [w \in Workers |-> q1]

MCOptions ==
  [queue: {q1}, delayMs: {0, 1}, tries: {2}, backoffMs: {Undefined},
   uniqueFor: {1}, uniqueId: {u1}]
  \cup
  [queue: {q1}, delayMs: {0}, tries: {0}, backoffMs: {Undefined},
   uniqueFor: {Undefined}, uniqueId: {u1}]
  \cup
  [queue: {q2}, delayMs: {0}, tries: {Undefined}, backoffMs: {Undefined},
   uniqueFor: {1}, uniqueId: {u1}]

(* Every delay computeBackoff can return here: 2 after the first attempt.  *)
MCDelays == 0..MaxBackoff
=============================================================================
