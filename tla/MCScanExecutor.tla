--------------------------- MODULE MCScanExecutor ---------------------------
(***************************************************************************)
(* Small instances of the scan executor: plans of up to three scopes, one  *)
(* of them with a repeated scope, answers that overlap, fail or are empty. *)
(***************************************************************************)
EXTENDS ScanExecutor

CONSTANTS east, west

\* Two keys; the key "a" has two conflicting versions.
MCResources == [key : {"a", "b"}, version : {1, 2}]

A1 == [key |-> "a", version |-> 1]
A2 == [key |-> "a", version |-> 2]
B1 == [key |-> "b", version |-> 1]

Response(resources, errors) ==
    [kind |-> "response", resources |-> resources, errors |-> errors]

MCAnswers ==
    {[kind |-> "error", resources |-> <<>>, errors |-> <<>>],
     [kind |-> "empty", resources |-> <<>>, errors |-> <<>>],
     Response(<<A1, B1>>, <<"notice">>),
     Response(<<NoResource, A2, A1>>, <<"notice", "error">>),
     Response(<<A2>>, <<>>)}

MCPlans ==
    {[scopes |-> <<>>, maxConcurrency |-> 2],
     [scopes |-> <<west>>, maxConcurrency |-> 3],
     [scopes |-> <<east, west>>, maxConcurrency |-> 0],
     [scopes |-> <<east, west, east>>, maxConcurrency |-> 2]}
=============================================================================
