---------------------------- MODULE JobLifecycle ----------------------------
(***************************************************************************)
(* What a driver promises about the life of a job, whatever it stores and  *)
(* however it finds the next job: a job waits, is held by exactly one      *)
(* holder at a time, and each time it is handed out costs one try; its     *)
(* holder finishes it, gives it back or buries it; a buried or forgotten   *)
(* job is never handed out again.  Wiping a queue forgets jobs in any      *)
(* phase.                                                                  *)
(***************************************************************************)
EXTENDS Integers

CONSTANT MaxJobs

VARIABLES
  phase,   \* of each job
  tries    \* how often each known job was handed out

life == <<phase, tries>>

Phase == {"unborn", "waiting", "held", "buried", "gone"}

LifeInit ==
  /\ phase = [id \in 1..MaxJobs |-> "unborn"]
  /\ tries = [id \in 1..MaxJobs |-> 0]

Arrive(id) ==
  /\ phase[id] = "unborn"
  /\ \A other \in 1..(id - 1) : phase[other] # "unborn"
  /\ phase' = [phase EXCEPT ![id] = "waiting"]
  /\ UNCHANGED tries

Take(id) ==
  /\ phase[id] = "waiting"
  /\ phase' = [phase EXCEPT ![id] = "held"]
  /\ tries' = [tries EXCEPT ![id] = @ + 1]

GiveBack(id) ==
  /\ phase[id] = "held"
  /\ phase' = [phase EXCEPT ![id] = "waiting"]
  /\ UNCHANGED tries

Bury(id) ==
  /\ phase[id] = "held"
  /\ phase' = [phase EXCEPT ![id] = "buried"]
  /\ UNCHANGED tries

(* Finishing a job is forgetting that one; wiping a queue forgets many.    *)
Forget(ids) ==
  /\ \A id \in ids : phase[id] # "unborn"
  /\ phase' = [id \in 1..MaxJobs |-> IF id \in ids THEN "gone" ELSE phase[id]]
  /\ tries' = [id \in 1..MaxJobs |-> IF id \in ids THEN 0 ELSE tries[id]]

LifeNext ==
  \/ \E id \in 1..MaxJobs : Arrive(id) \/ Take(id) \/ GiveBack(id) \/ Bury(id)
  \/ \E ids \in SUBSET (1..MaxJobs) : Forget(ids)

LifeSpec == LifeInit /\ [][LifeNext]_life
=============================================================================
