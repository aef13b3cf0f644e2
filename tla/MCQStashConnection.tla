-------------------------- MODULE MCQStashConnection --------------------------
(***************************************************************************)
(* Two callers on one connection, over configurations of both modes; one   *)
(* of their lists is a bulk() of two jobs.                                 *)
(***************************************************************************)
EXTENDS QStashConnection

CONSTANTS c1, c2, d1, d2, u1, u2

Plain == [delayMs |-> 999, laterMs |-> Undefined, tries |-> 3, uniqueId |-> u1,
          destination |-> Undefined]
Delayed == [delayMs |-> 0, laterMs |-> 2500, tries |-> Undefined, uniqueId |-> u2,
            destination |-> d2]
Repeatable == [delayMs |-> Undefined, laterMs |-> Undefined, tries |-> 1,
               uniqueId |-> Undefined, destination |-> d2]

MCOptions == {Plain, Delayed, Repeatable}

MCLists == {<<Plain>>, <<Delayed>>, <<Repeatable, Plain>>}

MCConfigs ==
  [mode: {"proxy", "direct"}, proxyUrl: {TRUE}, token: {TRUE},
   defaultDestination: {d1}, sdkInstalled: BOOLEAN]
  \cup
  [mode: {Undefined}, proxyUrl: {TRUE, FALSE}, token: {FALSE},
   defaultDestination: {Undefined}, sdkInstalled: {FALSE}]
  \cup
  [mode: {"direct"}, proxyUrl: {FALSE}, token: BOOLEAN,
   defaultDestination: {Undefined}, sdkInstalled: {TRUE}]
=============================================================================
