--------------------------- MODULE MCScanHistory ---------------------------
(***************************************************************************)
(* Small instances of the scan history: scans of the same regions or of    *)
(* different ones, over resources with distinct ids or with a name that    *)
(* both regions use.                                                       *)
(***************************************************************************)
EXTENDS ScanHistory

CONSTANTS east, west, acct, bucket, queue

Resource(id, region, rank) == [id |-> id, account |-> acct, region |-> region, rank |-> rank]

DistinctIds == {Resource(bucket, east, 1), Resource(queue, west, 2)}

\* The function name "queue" exists in both regions.
SharedName == {Resource(queue, east, 1), Resource(queue, west, 2)}

OneId == {Resource(bucket, east, 1)}

\* The whole cloud, and one region of it.
MixedScopes == {Regions, {east}}

WholeScans == {Regions}

ScansOfEast == {{east}}

\* What is in the east exists from the start; the rest may be created.
EastExists == {[r \in Resources |-> IF r.region = east THEN 1 ELSE 0]}

AnyCloud == [Resources -> Versions \cup {0}]
=============================================================================
