------------------------------ MODULE Findings ------------------------------
(***************************************************************************)
(* The finding lifecycle of internal/app/findings.  An evaluation loads a  *)
(* completed scan in one session, runs the controls of a pack against a    *)
(* private copy of its observations, and records the results in one        *)
(* transaction of a second session: failing rows open or refresh findings, *)
(* findings the control no longer reports are resolved.  Users suppress    *)
(* and unsuppress findings.                                                *)
(*                                                                         *)
(* Scans may be evaluated in any order, more than once, by several         *)
(* processes.  A session owns the database file, so the transactions do    *)
(* not overlap; any of them may fail and roll back.  What a control        *)
(* reports for a scan is chosen anew at every evaluation, because packs    *)
(* and their parameters change.  Titles, severities and details are left   *)
(* out; times are the start times of scans.                                *)
(***************************************************************************)
EXTENDS Integers, FiniteSets, Sequences

CONSTANTS
    Scans,           \* records [id, start, scope, complete]
    Scopes,          \* scope keys: provider, services and scopes of a scan
    Controls,        \* control ids, of the queries and of their rows
    Queries,         \* the sequence of query ids an evaluation runs
    Resources,       \* resource ids
    RowControl,      \* RowControl[<<q, r>>]: the control id on the rows of q about r
    MaxRows,         \* bound: failing rows of one query about one resource
    Evaluations,     \* the ids of the evaluations
    Suppressions,    \* the ids of suppressions, hence a bound on those in force at a time
    None             \* no finding, no scan, NULL

ASSUME ScansAssumption ==
    \A s \in Scans : s.start \in Nat /\ s.scope \in Scopes /\ s.complete \in BOOLEAN

ASSUME QueriesAssumption ==
    /\ Queries \in Seq(Controls) /\ IsFiniteSet(Resources)
    /\ MaxRows \in Nat
    /\ RowControl \in [Controls \X Resources -> Controls]

ScanIds == {s.id : s \in Scans}

\* A row of the findings table.
FindingRow ==
    [status : {"open", "resolved"}, firstScan : ScanIds, firstAt : Nat, lastScan : ScanIds,
     lastAt : Nat, resolvedAt : Nat \cup {None}, count : Nat \ {0}]

\* A row of the finding_evaluations table.
EvaluationRow == [scan : ScanIds, status : {"completed", "partial", "failed"}]

Fingerprint == [control : Controls, resource : Resources, scope : Scopes]

ASSUME NoneAssumption ==
    None \notin Evaluations \cup Fingerprint \cup FindingRow \cup EvaluationRow

VARIABLES
    findings,     \* findings[f]: the row of fingerprint f, or None
    occurrences,  \* rows <<evaluation, fingerprint, scan>>
    recorded,     \* rows of finding_evaluations, by evaluation id
    suppressions, \* suppressions[i]: the finding that i suppresses, or None once it is
                  \* revoked or has expired: such a row is never read again
    evaluation,   \* evaluation[e]: the state of the process running e
    tx,           \* the open transaction: [by, findings, occurrences]
    log           \* history: what each committed control result saw, in commit order

vars == <<findings, occurrences, recorded, suppressions, evaluation, tx, log>>

-----------------------------------------------------------------------------
(* Rows and fingerprints *)

findingFingerprint(q, r, scan) ==
    [control |-> RowControl[<<q, r>>], resource |-> r, scope |-> scan.scope]

\* The result of a query: an error, or the number of its FAIL and WARNING rows
\* about every resource.
Result == [error : {TRUE}] \cup [error : {FALSE}, rows : [Resources -> 0..MaxRows]]

Reported(result) == {r \in Resources : result.rows[r] > 0}

Observed(q, result, scan) == {findingFingerprint(q, r, scan) : r \in Reported(result)}

RowCount(f, result) == result.rows[f.resource]

TotalRows(result) ==
    Cardinality({p \in Resources \X (1..MaxRows) : p[2] <= result.rows[p[1]]})

\* A new fingerprint counts as opened once; all its other rows, and every row of
\* a stored one, count as recurred.
RecurredRows(result, new) == TotalRows(result) - Cardinality(new)

\* Bug variant: only new findings get an occurrence.
insertFirstOccurrences(e, scan, observed, new) == {<<e, f, scan.id>> : f \in new}

insertOccurrences(e, scan, observed, new) == {<<e, f, scan.id>> : f \in observed}

Opening(scan, n) ==
    [status |-> "open", firstScan |-> scan.id, firstAt |-> scan.start,
     lastScan |-> scan.id, lastAt |-> scan.start, resolvedAt |-> None, count |-> n]

\* Bug variants of the upsert: a scan of the same start time does not refresh
\* the finding; older scans overwrite newer ones.
upsertStrict(old, scan, n) ==
    CASE old = None -> Opening(scan, n)
      [] old # None /\ scan.start > old.lastAt ->
            [old EXCEPT !.status = "open", !.lastScan = scan.id, !.lastAt = scan.start,
                        !.resolvedAt = None, !.count = @ + n]
      [] OTHER -> old
upsertAlways(old, scan, n) ==
    IF old = None THEN Opening(scan, n)
    ELSE [old EXCEPT !.status = "open", !.lastScan = scan.id, !.lastAt = scan.start,
                     !.resolvedAt = None, !.count = @ + n]

\* INSERT ... ON CONFLICT DO UPDATE ... WHERE excluded.last_seen_at >= last_seen_at
upsert(old, scan, n) ==
    CASE old = None -> Opening(scan, n)
      [] old # None /\ scan.start >= old.lastAt ->
            [old EXCEPT !.status = "open", !.lastScan = scan.id, !.lastAt = scan.start,
                        !.resolvedAt = None, !.count = @ + n]
      [] OTHER -> old

\* Bug variants: an older scan resolves a finding seen since; the scope key is
\* not compared.
AbsentIgnoringTime(table, q, scan, observed) ==
    {f \in Fingerprint : /\ f.control = q /\ f.scope = scan.scope
                         /\ table[f] # None /\ table[f].status = "open"
                         /\ f \notin observed}
AbsentInAnyScope(table, q, scan, observed) ==
    {f \in Fingerprint : /\ f.control = q /\ table[f] # None
                         /\ table[f].status = "open" /\ table[f].lastAt <= scan.start
                         /\ f \notin observed}

\* The findings resolveAbsent sets to resolved: those of the query's own control
\* id and the scan's scope key that are open and not seen later than the scan.
Absent(table, q, scan, observed) ==
    {f \in Fingerprint : /\ f.control = q /\ f.scope = scan.scope
                         /\ table[f] # None
                         /\ table[f].status = "open" /\ table[f].lastAt <= scan.start
                         /\ f \notin observed}

upsertFindings(table, q, result, scan) ==
    [f \in Fingerprint |->
        IF f \in Observed(q, result, scan)
        THEN upsert(table[f], scan, RowCount(f, result)) ELSE table[f]]

Resolved(old, scan) == [old EXCEPT !.status = "resolved", !.resolvedAt = scan.start]

resolveAbsent(table, q, result, scan) ==
    LET absent == Absent(table, q, scan, Observed(q, result, scan))
    IN  [f \in Fingerprint |-> IF f \in absent THEN Resolved(table[f], scan) ELSE table[f]]

-----------------------------------------------------------------------------
NoTx == [by |-> None, findings |-> <<>>, occurrences |-> {}]

Fresh == [pc |-> "new", scan |-> None, results |-> <<>>, next |-> 1, opened |-> 0,
          recurred |-> 0, resolved |-> 0]

Init ==
    /\ findings = [f \in Fingerprint |-> None]
    /\ occurrences = {}
    /\ recorded = [e \in Evaluations |-> None]
    /\ suppressions = [i \in Suppressions |-> None]
    /\ evaluation = [e \in Evaluations |-> Fresh]
    /\ tx = NoTx
    /\ log = <<>>

\* The first session reads the scan and its observations, and is closed; only a
\* completed snapshot is evaluated.
Load(e, scan) ==
    /\ evaluation[e].pc = "new"
    /\ tx.by = None
    /\ evaluation' = [evaluation EXCEPT
           ![e].pc = IF scan.complete THEN "loaded" ELSE "error",
           ![e].scan = IF scan.complete THEN scan ELSE None]
    /\ UNCHANGED <<findings, occurrences, recorded, suppressions, tx, log>>

\* The controls run against the private copy of the scan; each may fail.
Execute(e, results) ==
    /\ evaluation[e].pc = "loaded"
    /\ evaluation' = [evaluation EXCEPT ![e].pc = "executed", ![e].results = results]
    /\ UNCHANGED <<findings, occurrences, recorded, suppressions, tx, log>>

\* The second session is opened and its transaction begins.
Begin(e) ==
    /\ evaluation[e].pc = "executed"
    /\ tx.by = None
    /\ tx' = [by |-> e, findings |-> findings, occurrences |-> occurrences]
    /\ evaluation' = [evaluation EXCEPT ![e].pc = "recording"]
    /\ UNCHANGED <<findings, occurrences, recorded, suppressions, log>>

\* recordResults takes the next result: nothing for a failed control; else
\* recordResult counts and upserts what it saw, and resolveAbsent runs.
Record(e) ==
    LET ev == evaluation[e]
        q == Queries[ev.next]
        result == ev.results[ev.next]
        observed == Observed(q, result, ev.scan)
        new == {f \in observed : tx.findings[f] = None}
        upserted == upsertFindings(tx.findings, q, result, ev.scan)
    IN  /\ ev.pc = "recording"
        /\ ev.next <= Len(Queries)
        /\ \/ /\ result.error
              /\ evaluation' = [evaluation EXCEPT ![e].next = @ + 1]
              /\ UNCHANGED tx
           \/ /\ ~result.error
              /\ tx' = [tx EXCEPT
                     !.findings = resolveAbsent(upserted, q, result, ev.scan),
                     !.occurrences = @ \cup insertOccurrences(e, ev.scan, observed, new)]
              /\ evaluation' = [evaluation EXCEPT
                     ![e].next = @ + 1,
                     ![e].opened = @ + Cardinality(new),
                     ![e].recurred = @ + RecurredRows(result, new),
                     ![e].resolved = @ + Cardinality(Absent(upserted, q, ev.scan, observed))]
        /\ UNCHANGED <<findings, occurrences, recorded, suppressions, log>>

Failed(results) == {i \in DOMAIN results : results[i].error}

StatusOf(results) ==
    CASE Failed(results) = {} -> "completed"
      [] Failed(results) # {} /\ Failed(results) = DOMAIN results -> "failed"
      [] OTHER -> "partial"

\* The evaluation row is inserted and the transaction committed.
Commit(e) ==
    LET ev == evaluation[e]
    IN  /\ ev.pc = "recording"
        /\ ev.next > Len(Queries)
        /\ findings' = tx.findings
        /\ occurrences' = tx.occurrences
        /\ recorded' = [recorded EXCEPT ![e] = [scan |-> ev.scan.id, status |-> StatusOf(ev.results)]]
        /\ evaluation' = [evaluation EXCEPT ![e].pc = "done"]
        /\ log' = log \o [i \in DOMAIN Queries |->
                            [query |-> Queries[i], scan |-> ev.scan, result |-> ev.results[i]]]
        /\ tx' = NoTx
        /\ UNCHANGED suppressions

\* Any step fails, or the process dies: the transaction, if one is open, is
\* rolled back.
Abort(e) ==
    /\ evaluation[e].pc \in {"loaded", "executed", "recording"}
    /\ evaluation' = [evaluation EXCEPT ![e] = [Fresh EXCEPT !.pc = "error"]]
    /\ tx' = IF tx.by = e THEN NoTx ELSE tx
    /\ UNCHANGED <<findings, occurrences, recorded, suppressions, log>>

-----------------------------------------------------------------------------
(* Suppressions *)

Suppress(f, i) ==
    /\ tx.by = None
    /\ findings[f] # None
    /\ suppressions[i] = None
    /\ suppressions' = [suppressions EXCEPT ![i] = f]
    /\ UNCHANGED <<findings, occurrences, recorded, evaluation, tx, log>>

\* Bug variant: only one of the active suppressions is revoked.
UnsuppressOne(f) ==
    /\ tx.by = None
    /\ \E i \in Suppressions : /\ suppressions[i] = f
                              /\ suppressions' = [suppressions EXCEPT ![i] = None]
    /\ UNCHANGED <<findings, occurrences, recorded, evaluation, tx, log>>

\* UPDATE ... SET revoked_at WHERE fingerprint = ? AND revoked_at IS NULL
Unsuppress(f) ==
    /\ tx.by = None
    /\ suppressions' = [i \in Suppressions |->
           IF suppressions[i] = f THEN None ELSE suppressions[i]]
    /\ UNCHANGED <<findings, occurrences, recorded, evaluation, tx, log>>

\* A suppression with an expiry date runs out.
Expire(i) ==
    /\ suppressions[i] # None
    /\ suppressions' = [suppressions EXCEPT ![i] = None]
    /\ UNCHANGED <<findings, occurrences, recorded, evaluation, tx, log>>

\* The status List shows.
ListedStatus(f) ==
    IF findings[f].status = "open" /\ \E i \in Suppressions : suppressions[i] = f
    THEN "suppressed" ELSE findings[f].status

-----------------------------------------------------------------------------
Evaluate(e) ==
    \/ \E scan \in Scans : Load(e, scan)
    \/ \E results \in [DOMAIN Queries -> Result] : Execute(e, results)
    \/ Begin(e)
    \/ Record(e)
    \/ Commit(e)
    \/ Abort(e)

Next ==
    \/ \E e \in Evaluations : Evaluate(e)
    \/ \E f \in Fingerprint, i \in Suppressions : Suppress(f, i)
    \/ \E f \in Fingerprint : Unsuppress(f)
    \/ \E i \in Suppressions : Expire(i)

Spec == Init /\ [][Next]_vars

-----------------------------------------------------------------------------
(* Properties *)

\* The type invariant: among others, a finding was reported at least once.
TypeOK ==
    /\ findings \in [Fingerprint -> FindingRow \cup {None}]
    /\ occurrences \subseteq Evaluations \X Fingerprint \X ScanIds
    /\ recorded \in [Evaluations -> EvaluationRow \cup {None}]
    /\ suppressions \in [Suppressions -> Fingerprint \cup {None}]
    /\ \A e \in Evaluations :
          /\ evaluation[e].pc \in {"new", "loaded", "executed", "recording", "done", "error"}
          /\ evaluation[e].scan \in Scans \cup {None}
          /\ evaluation[e].next \in 1..Len(Queries) + 1
    /\ tx.by \in Evaluations \cup {None}

\* The log of a table of findings: the control results recorded in it, in order.
Start(L, k) == L[k].scan.start

\* The successful results for the same query and scope as entry k.
Peers(L, k) == {j \in DOMAIN L : /\ ~L[j].result.error
                                 /\ L[j].query = L[k].query
                                 /\ L[j].scan.scope = L[k].scan.scope}

\* Entry k is the last word on its control and scope: no successful result is of
\* a scan that started later, or of one that started with it and was recorded later.
IsLatest(L, k) ==
    /\ k \in Peers(L, k)
    /\ \A j \in Peers(L, k) :
          Start(L, j) < Start(L, k) \/ (Start(L, j) = Start(L, k) /\ j <= k)

\* The fingerprints that entry k reports, if it is not an error, and those the
\* query of entry k can report in its scope.
Saw(L, k) ==
    IF L[k].result.error THEN {} ELSE Observed(L[k].query, L[k].result, L[k].scan)

Reportable(L, k) == {findingFingerprint(L[k].query, r, L[k].scan) : r \in Resources}

\* What SeenByLatestIsOpen asks of a table and the log of its results.
LatestIsOpen(table, L) ==
    \A k \in DOMAIN L : IsLatest(L, k) =>
        \A f \in Saw(L, k) : table[f] # None /\ table[f].status = "open"

\* A finding reported by the latest scan evaluated for its control and scope is
\* open, whatever older scans are evaluated after it: recording an older scan
\* does not resolve it and does not take its place.
SeenByLatestIsOpen == LatestIsOpen(findings, log)

\* Scans of the same scope were evaluated in the order in which they started.
InOrder(L) == \A j, k \in DOMAIN L :
                  j < k /\ L[j].scan.scope = L[k].scan.scope => Start(L, j) <= Start(L, k)

\* The failing rows of the log about finding f.
RowsSeen(L, f) ==
    {p \in (DOMAIN L) \X (1..MaxRows) :
        f \in Saw(L, p[1]) /\ p[2] <= RowCount(f, L[p[1]].result)}

\* What InOrderEvaluationIsExact asks of a table and the log of its results.
Exact(table, L) ==
    InOrder(L) =>
        \A k \in DOMAIN L : IsLatest(L, k) =>
            \A f \in Reportable(L, k) :
                /\ f \in Saw(L, k) <=> table[f] # None /\ table[f].status = "open"
                /\ table[f] # None => table[f].count = Cardinality(RowsSeen(L, f))

\* Evaluated in order, the open findings of a control and scope are exactly the
\* ones its latest successful result reports, and the occurrence count of a
\* finding is the number of failing rows ever recorded for it.
InOrderEvaluationIsExact == Exact(findings, log)

\* An evaluation changes only findings of its scan's scope whose control ran
\* without error, and only when the scan is a completed snapshot: partial scans
\* and failed controls never open, refresh or resolve anything.
OnlyObservedFindingsChange ==
    [][\A f \in Fingerprint : findings'[f] # findings[f] =>
          \E e \in Evaluations, i \in DOMAIN Queries :
              /\ tx.by = e
              /\ evaluation[e].scan.complete
              /\ f.scope = evaluation[e].scan.scope
              /\ ~evaluation[e].results[i].error
              /\ f.control = Queries[i] \/ RowControl[<<Queries[i], f.resource>>] = f.control]_vars

\* A finding is never forgotten, and the scan it was last seen in never moves
\* back in time when scans are evaluated out of order.
LastSeenNeverGoesBack ==
    [][\A f \in Fingerprint : findings[f] # None =>
          /\ findings'[f] # None
          /\ findings'[f].firstScan = findings[f].firstScan
          /\ findings'[f].lastAt >= findings[f].lastAt]_vars

\* Every finding can be traced: the scan it was last seen in has an occurrence
\* for it, made by an evaluation that is on record, and a resolution is never
\* dated before the last sighting.
FindingsHaveEvidence ==
    \A f \in Fingerprint : findings[f] # None =>
        /\ \E e \in Evaluations : /\ <<e, f, findings[f].lastScan>> \in occurrences
                                  /\ recorded[e] # None
        /\ findings[f].status = "resolved" => findings[f].resolvedAt >= findings[f].lastAt

\* After Unsuppress, List shows the finding with its own status again, however
\* often it was suppressed.
UnsuppressRestores ==
    [][\A f \in Fingerprint : findings[f] # None /\ Unsuppress(f) =>
          ListedStatus(f)' = findings[f].status]_vars
=============================================================================
