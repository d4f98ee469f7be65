----------------------------- MODULE MCFindings -----------------------------
(***************************************************************************)
(* Small instances of the finding lifecycle: completed scans of one scope  *)
(* at two start times and at a tie, a completed scan of another scope and  *)
(* a partial scan.                                                         *)
(***************************************************************************)
EXTENDS Findings, TLC

CONSTANTS c1, c2, prod, dev, bucket, e1, e2, e3, s1, s2

Scan(id, start, scope, complete) ==
    [id |-> id, start |-> start, scope |-> scope, complete |-> complete]

MCScans ==
    {Scan("old", 1, prod, TRUE), Scan("new", 2, prod, TRUE), Scan("tie", 2, prod, TRUE),
     Scan("other", 2, dev, TRUE), Scan("partial", 2, prod, FALSE)}

TwoControls == <<c1, c2>>

\* Rows carry the id of the query they come from.
OwnControl == [p \in Controls \X Resources |-> p[1]]

Symmetric == Permutations(Evaluations) \cup Permutations(Suppressions)
=============================================================================
