-------------------------- MODULE MCQueueApplication --------------------------
(***************************************************************************)
(* One or two connections, which may be created three times in all; two    *)
(* processors, each on its connection or both on the same of the sync      *)
(* driver; one component with a hook, and two calls that may overlap next  *)
(* to those of the container.                                              *)
(***************************************************************************)
EXTENDS QueueApplication

CONSTANTS c1, c2, h1, x1, Undefined

(* forRoot before forFeature, as documented.                               *)
Documented == [default |-> "main", async |-> FALSE, global |-> TRUE,
               modules |-> <<"forRoot", "forFeature">>,
               driver |-> [main |-> "memory", queues |-> "custom"]]

MCConfigs ==
  {Documented,
   [default |-> "main", async |-> FALSE, global |-> TRUE,
    modules |-> <<"forFeature", "forRoot", "forFeatureQueues">>,
    driver |-> [main |-> "custom", side |-> "memory"]],
   \* two processors on one sync connection
   [default |-> "side", async |-> TRUE, global |-> TRUE,
    modules |-> <<"forRoot", "forFeatureQueues">>,
    driver |-> [side |-> "sync"]],
   \* without a global application, so without processors
   [default |-> "other", async |-> TRUE, global |-> FALSE, modules |-> <<"forRoot">>,
    driver |-> [main |-> "sync"]],
   \* starts that fail or are refused
   [default |-> "other", async |-> TRUE, global |-> TRUE, modules |-> <<"forRoot">>,
    driver |-> [main |-> "memory"]],
   [default |-> "main", async |-> FALSE, global |-> TRUE, modules |-> <<"forRoot">>,
    driver |-> [main |-> Undefined]]}

MCLookups == {[name |-> Undefined, queue |-> "scans"], [name |-> "side", queue |-> "scans"],
              [name |-> "main", queue |-> Undefined]}

MCBuiltIn == <<"memory", "sync">>
MCFeatures == <<"custom">>

MCFeatureQueues == <<[queue |-> "scans", connection |-> Undefined],
                     [queue |-> "scans", connection |-> "side"]>>

Scans == [class |-> "Scans", isAlias |-> FALSE, connection |-> Undefined, queue |-> "scans",
          concurrency |-> 0, events |-> {"failed"}, isHost |-> TRUE]

MCProcessors ==
  <<Scans, [Scans EXCEPT !.isAlias = TRUE],
    [class |-> "Side", isAlias |-> FALSE, connection |-> "side", queue |-> "scans",
     concurrency |-> Undefined, events |-> {}, isHost |-> TRUE]>>

(* What theorems suppose of an application holds of this one.              *)
ASSUME InstanceAssumption == NamesApart /\ OneInstancePerClass
=============================================================================
