---------------------------- MODULE ScanContract ----------------------------
(***************************************************************************)
(* What Execute promises its caller, without goroutines or channels: the   *)
(* plugin is asked once for every scope of the plan, in any order, and     *)
(* when all have answered the resources are a function of the plan and of  *)
(* the answers, and so is the status of a scan that was not cancelled.     *)
(* Nobody promises a status of a cancelled one beyond that it is not       *)
(* complete: the code and its documents disagree about it.                 *)
(***************************************************************************)
EXTENDS Integers, FiniteSets, Sequences

CONSTANTS Plans, Answers, NoResource

VARIABLES plan, hasScanner, cancelled, given, result

vars == <<plan, hasScanner, cancelled, given, result>>

Scope == DOMAIN plan.scopes

NoOutcome == [status |-> "none", resources |-> <<>>]

-----------------------------------------------------------------------------
(* The result, from the answers *)

Answered(i) == given[i][1].kind = "response"

HasErrors(i) == ~Answered(i) \/ "error" \in {given[i][1].errors[k] : k \in DOMAIN given[i][1].errors}

\* A scan is failed only when no scope answered at all; any error in any other
\* scan makes it partial.
Status ==
    IF \A i \in Scope : ~HasErrors(i) THEN "complete"
    ELSE IF \A i \in Scope : ~Answered(i) THEN "failed" ELSE "partial"

\* The statuses a caller may be given.
Promised == IF cancelled THEN {"failed", "partial"} ELSE {Status}

\* Where the non-nil resources stand: <<scope index, position in its answer>>.
Positions ==
    UNION {{i} \X {k \in DOMAIN given[i][1].resources : given[i][1].resources[k] # NoResource} :
               i \in {j \in Scope : Answered(j)}}

At(p) == given[p[1]][1].resources[p[2]]

Earlier(p, q) == p[1] < q[1] \/ (p[1] = q[1] /\ p[2] < q[2])

\* Of every key, the resource of the earliest requested scope, and within a
\* scope the first of the response.
Winners == {p \in Positions : \A q \in Positions : Earlier(q, p) => At(q).key # At(p).key}

\* The winners in order of position.
InOrder(S) ==
    [n \in 1..Cardinality(S) |->
        At(CHOOSE p \in S : Cardinality({q \in S : Earlier(q, p)}) = n - 1)]

-----------------------------------------------------------------------------
Init ==
    /\ plan \in Plans
    /\ hasScanner \in BOOLEAN
    /\ cancelled = FALSE
    /\ given = [i \in Scope |-> <<>>]
    /\ result = NoOutcome

Cancel == cancelled' = TRUE /\ UNCHANGED <<plan, hasScanner, given, result>>

Refuse ==
    /\ result = NoOutcome
    /\ ~hasScanner \/ Scope = {}
    /\ result' = [status |-> "failed", resources |-> <<>>]
    /\ UNCHANGED <<plan, hasScanner, cancelled, given>>

Answer(i, answer) ==
    /\ hasScanner
    /\ given[i] = <<>>
    /\ given' = [given EXCEPT ![i] = <<answer>>]
    /\ UNCHANGED <<plan, hasScanner, cancelled, result>>

Return ==
    /\ result = NoOutcome
    /\ hasScanner /\ Scope # {}
    /\ \A i \in Scope : given[i] # <<>>
    /\ \E status \in Promised :
           result' = [status |-> status, resources |-> InOrder(Winners)]
    /\ UNCHANGED <<plan, hasScanner, cancelled, given>>

Next ==
    \/ Cancel
    \/ Refuse
    \/ Return
    \/ \E i \in Scope, answer \in Answers : Answer(i, answer)

Spec == Init /\ [][Next]_vars
=============================================================================
