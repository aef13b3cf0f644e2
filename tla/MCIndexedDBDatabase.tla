------------------------- MODULE MCIndexedDBDatabase -------------------------
(***************************************************************************)
(* Small instances of IndexedDBDatabase.                                   *)
(***************************************************************************)
EXTENDS IndexedDBDatabase, TLC

CONSTANTS i1, i2, c1, c2, c3, k1, k2, jobs, scans

(* One connection in two tabs, the second of a later deployment.           *)
OneName == [i \in Instances |-> jobs]
Rollout == (i1 :> 1) @@ (i2 :> 2)

(* Two connections of one tab, configured with the default database.       *)
TwoNames == (i1 :> jobs) @@ (i2 :> scans)
Defaults == [i \in Instances |-> 1]

MCUses == (c1 :> i1) @@ (c2 :> i1) @@ (c3 :> i2)
=============================================================================
