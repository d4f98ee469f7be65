--------------------------- MODULE FindingsProofs ---------------------------
(***************************************************************************)
(* Proofs about the finding lifecycle, for any scans, packs, resources and *)
(* number of evaluations.  The argument follows a table and the log of the *)
(* control results recorded in it: what recording one more result does to  *)
(* a table that agrees with its log.  The committed table agrees with the  *)
(* committed log, and the table of the open transaction with that log and  *)
(* the results recorded so far.                                            *)
(***************************************************************************)
EXTENDS Findings, FiniteSetTheorems, SequenceTheorems, TLAPS

Table == [Fingerprint -> FindingRow \cup {None}]

QueryIds == {Queries[i] : i \in DOMAIN Queries}

Entry == [query : QueryIds, scan : Scans, result : Result]

\* What recording the result of an entry makes of a table.
Recorded(table, x) ==
    IF x.result.error THEN table
    ELSE resolveAbsent(upsertFindings(table, x.query, x.result, x.scan), x.query, x.result, x.scan)

\* What an entry reports, and whether it resolves a finding.
Reports(x) == IF x.result.error THEN {} ELSE Observed(x.query, x.result, x.scan)

Resolves(table, x, f) ==
    /\ ~x.result.error /\ f \notin Reports(x)
    /\ f.control = x.query /\ f.scope = x.scan.scope
    /\ table[f] # None /\ table[f].status = "open" /\ table[f].lastAt <= x.scan.start

\* Rows that carry the control id of a query of the pack come from that query.
RowsNameTheirQuery ==
    \A p, q \in QueryIds, r \in Resources : RowControl[<<p, r>>] = q => p = q

\* Rows carry the control id of their query.
RowsAreOwn == \A q \in QueryIds, r \in Resources : RowControl[<<q, r>>] = q

-----------------------------------------------------------------------------
(* One entry *)

\* The queries of the pack have control ids.
LEMMA QueryIdsAreControls == QueryIds \subseteq Controls
  BY QueriesAssumption DEF QueryIds

\* The fields of a scan.
LEMMA ScanFacts ==
    ASSUME NEW scan \in Scans
    PROVE  scan.start \in Nat /\ scan.scope \in Scopes /\ scan.id \in ScanIds
  BY ScansAssumption DEF ScanIds

\* A fingerprint that an entry reports belongs to its scope and to the control id
\* of its rows, and the entry has rows about it.
LEMMA ReportsFacts ==
    ASSUME NEW x \in Entry, NEW f \in Reports(x)
    PROVE  /\ f \in Fingerprint /\ ~x.result.error
           /\ f.control = RowControl[<<x.query, f.resource>>] /\ f.scope = x.scan.scope
           /\ RowCount(f, x.result) \in 1..MaxRows /\ RowCount(f, x.result) \in Nat \ {0}
<1>1. ~x.result.error /\ f \in Observed(x.query, x.result, x.scan)
  BY DEF Reports
<1>2. PICK r \in Reported(x.result) : f = findingFingerprint(x.query, r, x.scan)
  BY <1>1 DEF Observed
<1>3. x.query \in Controls /\ x.scan \in Scans /\ x.result \in Result
  BY QueryIdsAreControls DEF Entry
<1>4. x.result.rows \in [Resources -> 0..MaxRows]
  BY <1>1, <1>3 DEF Result
<1>5. r \in Resources /\ x.result.rows[r] > 0
  BY <1>2 DEF Reported
<1>6. RowControl[<<x.query, r>>] \in Controls /\ x.scan.scope \in Scopes
  BY <1>3, <1>5, QueriesAssumption, ScansAssumption
<1>7. f = [control |-> RowControl[<<x.query, r>>], resource |-> r, scope |-> x.scan.scope]
  BY <1>2 DEF findingFingerprint
<1>8. f \in Fingerprint /\ f.resource = r
  BY <1>5, <1>6, <1>7 DEF Fingerprint
<1>9. RowCount(f, x.result) \in 1..MaxRows /\ RowCount(f, x.result) \in Nat \ {0}
  BY <1>4, <1>5, <1>8, QueriesAssumption DEF RowCount
<1> QED BY <1>1, <1>7, <1>8, <1>9

\* The upsert of a row: what it keeps, and when it refreshes.
LEMMA UpsertFacts ==
    ASSUME NEW old \in FindingRow \cup {None}, NEW scan \in Scans, NEW n \in Nat \ {0}
    PROVE  /\ upsert(old, scan, n) \in FindingRow
           /\ old = None \/ scan.start >= old.lastAt =>
                 /\ upsert(old, scan, n).status = "open"
                 /\ upsert(old, scan, n).lastAt = scan.start
                 /\ upsert(old, scan, n).lastScan = scan.id
           /\ old = None => upsert(old, scan, n).count = n
           /\ old # None /\ scan.start >= old.lastAt =>
                 /\ upsert(old, scan, n).count = old.count + n
                 /\ upsert(old, scan, n).firstScan = old.firstScan
           /\ old # None /\ ~(scan.start >= old.lastAt) => upsert(old, scan, n) = old
<1>1. scan.start \in Nat /\ scan.id \in ScanIds
  BY ScanFacts
<1>2. CASE old = None
  BY <1>1, <1>2 DEF upsert, Opening, FindingRow
<1>3. CASE old # None /\ scan.start >= old.lastAt
  <2>1. upsert(old, scan, n) =
           [old EXCEPT !.status = "open", !.lastScan = scan.id, !.lastAt = scan.start,
                       !.resolvedAt = None, !.count = @ + n]
    BY <1>3 DEF upsert
  <2>2. old \in FindingRow
    BY <1>3
  <2>3. upsert(old, scan, n) =
           [status |-> "open", firstScan |-> old.firstScan, firstAt |-> old.firstAt,
            lastScan |-> scan.id, lastAt |-> scan.start, resolvedAt |-> None,
            count |-> old.count + n]
    BY <2>1, <2>2 DEF FindingRow
  <2>4. /\ old.firstScan \in ScanIds /\ old.firstAt \in Nat
        /\ old.count + n \in Nat \ {0}
    BY <2>2 DEF FindingRow
  <2>5. upsert(old, scan, n) \in FindingRow
    BY <1>1, <2>3, <2>4 DEF FindingRow
  <2> QED BY <1>3, <2>3, <2>5
<1>4. CASE old # None /\ ~(scan.start >= old.lastAt)
  BY <1>4 DEF upsert
<1> QED BY <1>2, <1>3, <1>4

\* Resolving a finding only changes its status and dates the resolution.
LEMMA ResolvedFacts ==
    ASSUME NEW old \in FindingRow, NEW scan \in Scans
    PROVE  /\ Resolved(old, scan) \in FindingRow
           /\ Resolved(old, scan).status = "resolved"
           /\ Resolved(old, scan).resolvedAt = scan.start
           /\ Resolved(old, scan).lastAt = old.lastAt
           /\ Resolved(old, scan).lastScan = old.lastScan
           /\ Resolved(old, scan).firstScan = old.firstScan
           /\ Resolved(old, scan).count = old.count
<1>1. Resolved(old, scan) =
         [status |-> "resolved", firstScan |-> old.firstScan, firstAt |-> old.firstAt,
          lastScan |-> old.lastScan, lastAt |-> old.lastAt, resolvedAt |-> scan.start,
          count |-> old.count]
  <2>1. Resolved(old, scan) = [old EXCEPT !.status = "resolved", !.resolvedAt = scan.start]
    BY DEF Resolved
  <2>2. old \in FindingRow
    OBVIOUS
  <2> QED BY <2>1, <2>2 DEF FindingRow
<1>2. /\ old.firstScan \in ScanIds /\ old.firstAt \in Nat /\ old.lastScan \in ScanIds
      /\ old.lastAt \in Nat /\ old.count \in Nat \ {0} /\ scan.start \in Nat
  BY ScanFacts DEF FindingRow
<1> QED BY <1>1, <1>2 DEF FindingRow

\* Recording an entry, row by row.
LEMMA RecordedFacts ==
    ASSUME NEW t \in Table, NEW x \in Entry
    PROVE  /\ Recorded(t, x) \in Table
           /\ \A f \in Fingerprint :
                 /\ f \in Reports(x) =>
                       Recorded(t, x)[f] = upsert(t[f], x.scan, RowCount(f, x.result))
                 /\ Resolves(t, x, f) =>
                       Recorded(t, x)[f] = Resolved(t[f], x.scan)
                 /\ f \notin Reports(x) /\ ~Resolves(t, x, f) => Recorded(t, x)[f] = t[f]
<1>1. CASE x.result.error
  BY <1>1 DEF Recorded, Reports, Resolves
<1>2. CASE ~x.result.error
  <2> DEFINE o == Observed(x.query, x.result, x.scan)
             u == upsertFindings(t, x.query, x.result, x.scan)
             g == resolveAbsent(u, x.query, x.result, x.scan)
  <2>1. Recorded(t, x) = g /\ Reports(x) = o
    BY <1>2 DEF Recorded, Reports
  <2>2. \A f \in Fingerprint :
           u[f] = IF f \in o THEN upsert(t[f], x.scan, RowCount(f, x.result)) ELSE t[f]
    BY DEF upsertFindings
  <2>3. \A f \in Fingerprint :
           g[f] = IF f \in Absent(u, x.query, x.scan, o)
                  THEN Resolved(u[f], x.scan) ELSE u[f]
    BY DEF resolveAbsent
  <2>4. \A f \in Fingerprint : f \in Absent(u, x.query, x.scan, o) <=> Resolves(t, x, f)
    BY <1>2, <2>1, <2>2 DEF Absent, Resolves
  <2>5. \A f \in Fingerprint :
            /\ f \in Reports(x) => g[f] = upsert(t[f], x.scan, RowCount(f, x.result))
            /\ Resolves(t, x, f) => g[f] = Resolved(t[f], x.scan)
            /\ f \notin Reports(x) /\ ~Resolves(t, x, f) => g[f] = t[f]
    BY <2>1, <2>2, <2>3, <2>4 DEF Resolves
  <2>6. ASSUME NEW f \in Fingerprint PROVE g[f] \in FindingRow \cup {None}
    <3>1. t[f] \in FindingRow \cup {None} /\ x.scan \in Scans
      BY DEF Table, Entry
    <3>2. CASE f \in Reports(x)
      <4>1. RowCount(f, x.result) \in Nat \ {0}
        BY <3>2, ReportsFacts
      <4> QED BY <2>5, <3>1, <3>2, <4>1, UpsertFacts
    <3>3. CASE Resolves(t, x, f)
      <4>1. t[f] \in FindingRow /\ x.scan \in Scans
        BY <3>1, <3>3 DEF Resolves
      <4> QED BY <2>5, <3>3, <4>1, ResolvedFacts
    <3>4. CASE f \notin Reports(x) /\ ~Resolves(t, x, f)
      BY <2>5, <3>1, <3>4
    <3> QED BY <3>2, <3>3, <3>4
  <2>7. g \in Table
    BY <2>6 DEF resolveAbsent, Table
  <2> QED BY <2>1, <2>5, <2>7
<1> QED BY <1>1, <1>2

-----------------------------------------------------------------------------
(* A table and its log *)

\* The rows of a table say what its log says: a finding is stored once an entry has
\* reported it, it was last seen in the scan that started last among those, and a
\* resolution is not older than that and was made by the finding's own query.
Agrees(t, L) ==
    /\ t \in Table /\ L \in Seq(Entry)
    /\ \A f \in Fingerprint : t[f] = None => \A j \in DOMAIN L : f \notin Saw(L, j)
    /\ \A f \in Fingerprint : t[f] # None =>
          /\ \E j \in DOMAIN L : f \in Saw(L, j) /\ t[f].lastAt = Start(L, j)
          /\ \A j \in DOMAIN L : f \in Saw(L, j) => Start(L, j) <= t[f].lastAt
          /\ t[f].status = "resolved" =>
                /\ f.control \in QueryIds
                /\ t[f].resolvedAt \in Nat /\ t[f].resolvedAt >= t[f].lastAt

\* What the entries of a log are made of.
LEMMA LogFacts ==
    ASSUME NEW L \in Seq(Entry), NEW j \in DOMAIN L
    PROVE  /\ j \in Nat /\ 1 <= j /\ j <= Len(L)
           /\ L[j] \in Entry /\ L[j].scan \in Scans /\ L[j].query \in QueryIds
           /\ Saw(L, j) = Reports(L[j]) /\ Start(L, j) = L[j].scan.start
           /\ Start(L, j) \in Nat
<1>1. L[j] \in Entry /\ j \in 1..Len(L)
  OBVIOUS
<1>2. L[j].scan \in Scans /\ L[j].query \in QueryIds
  BY <1>1 DEF Entry
<1> QED BY <1>1, <1>2, ScanFacts DEF Saw, Reports, Start

\* M is L with the entry x at its end, at position n.
Extends(M, n, L, x) ==
    /\ M \in Seq(Entry) /\ DOMAIN M = DOMAIN L \cup {n} /\ n \in Nat
    /\ \A j \in DOMAIN L : /\ j \in Nat /\ j < n /\ M[j] = L[j]
                           /\ Saw(M, j) = Saw(L, j) /\ Start(M, j) = Start(L, j)
    /\ M[n] = x /\ Saw(M, n) = Reports(x) /\ Start(M, n) = x.scan.start

\* An appended log keeps its entries and adds one.
LEMMA AppendFacts ==
    ASSUME NEW L \in Seq(Entry), NEW x \in Entry
    PROVE  Extends(Append(L, x), Len(L) + 1, L, x)
<1> DEFINE M == Append(L, x)
           n == Len(L) + 1
<1>1. /\ M \in Seq(Entry) /\ Len(L) \in Nat
      /\ DOMAIN M = 1..n /\ DOMAIN L = 1..Len(L)
      /\ M[n] = x /\ \A j \in 1..Len(L) : M[j] = L[j]
  OBVIOUS
<1>2. DOMAIN M = DOMAIN L \cup {n} /\ n \in Nat
  BY <1>1
<1>3. \A j \in DOMAIN L : j \in Nat /\ j < n /\ M[j] = L[j]
  BY <1>1
<1> HIDE DEF M, n
<1>4. Extends(M, n, L, x)
  BY <1>1, <1>2, <1>3 DEF Saw, Reports, Start, Extends
<1> QED BY <1>4 DEF M, n

\* Recording an entry keeps table and log in agreement.
LEMMA AgreesStep ==
    ASSUME NEW t, NEW L, Agrees(t, L), NEW x \in Entry
    PROVE  Agrees(Recorded(t, x), Append(L, x))
<1> DEFINE M == Append(L, x)
           n == Len(L) + 1
           u == Recorded(t, x)
<1>1. t \in Table /\ L \in Seq(Entry)
  BY DEF Agrees
<1>0. M = Append(L, x) /\ n = Len(L) + 1 /\ u = Recorded(t, x)
  OBVIOUS
<1> HIDE DEF M, n, u
<1>2. /\ M \in Seq(Entry) /\ DOMAIN M = DOMAIN L \cup {n} /\ n \in Nat
      /\ \A j \in DOMAIN L : /\ j \in Nat /\ j < n /\ M[j] = L[j]
                             /\ Saw(M, j) = Saw(L, j) /\ Start(M, j) = Start(L, j)
      /\ M[n] = x /\ Saw(M, n) = Reports(x) /\ Start(M, n) = x.scan.start
  <2>1. Extends(M, n, L, x)
    BY <1>0, <1>1, AppendFacts
  <2> QED BY <2>1 DEF Extends
<1>3. u \in Table
  BY <1>0, <1>1, RecordedFacts
<1>4. x.scan \in Scans /\ x.scan.start \in Nat
  <2>1. x \in Entry
    OBVIOUS
  <2>2. x.scan \in Scans
    BY <2>1 DEF Entry
  <2> QED BY <2>2, ScanFacts
<1>5. ASSUME NEW f \in Fingerprint
      PROVE  /\ u[f] = None => \A j \in DOMAIN M : f \notin Saw(M, j)
             /\ u[f] # None =>
                  /\ \E j \in DOMAIN M : f \in Saw(M, j) /\ u[f].lastAt = Start(M, j)
                  /\ \A j \in DOMAIN M : f \in Saw(M, j) => Start(M, j) <= u[f].lastAt
                  /\ u[f].status = "resolved" =>
                        /\ f.control \in QueryIds
                        /\ u[f].resolvedAt \in Nat /\ u[f].resolvedAt >= u[f].lastAt
  <2>1. t[f] \in FindingRow \cup {None}
    BY <1>1 DEF Table
  <2>2. /\ t[f] = None => \A j \in DOMAIN L : f \notin Saw(L, j)
        /\ t[f] # None =>
             /\ \E j \in DOMAIN L : f \in Saw(L, j) /\ t[f].lastAt = Start(L, j)
             /\ \A j \in DOMAIN L : f \in Saw(L, j) => Start(L, j) <= t[f].lastAt
             /\ t[f].status = "resolved" =>
                   /\ f.control \in QueryIds
                   /\ t[f].resolvedAt \in Nat /\ t[f].resolvedAt >= t[f].lastAt
    BY DEF Agrees
  <2>3. \A j \in DOMAIN L : Start(L, j) \in Nat
    BY <1>1, LogFacts
  <2>4. t[f] # None => t[f].lastAt \in Nat
    BY <2>1 DEF FindingRow
  <2>5. CASE f \in Reports(x)
    <3>1. RowCount(f, x.result) \in Nat \ {0}
      BY <2>5, ReportsFacts
    <3> DEFINE new == upsert(t[f], x.scan, RowCount(f, x.result))
    <3>2. u[f] = new /\ u[f] \in FindingRow
      BY <1>0, <1>1, <1>4, <2>1, <2>5, <3>1, RecordedFacts, UpsertFacts
    <3>3. u[f] # None
      BY <3>2, NoneAssumption
    <3>4. CASE t[f] = None \/ x.scan.start >= t[f].lastAt
      <4>1. u[f].status = "open" /\ u[f].lastAt = x.scan.start
        BY <1>4, <2>1, <3>1, <3>2, <3>4, UpsertFacts
      <4>2. \A j \in DOMAIN L : f \in Saw(L, j) => Start(L, j) <= x.scan.start
        BY <1>4, <2>2, <2>3, <2>4, <3>4
      <4> QED BY <1>2, <1>4, <2>5, <3>3, <4>1, <4>2
    <3>5. CASE t[f] # None /\ ~(x.scan.start >= t[f].lastAt)
      <4>1. u[f] = t[f]
        BY <1>4, <2>1, <3>1, <3>2, <3>5, UpsertFacts
      <4> QED BY <1>2, <1>4, <2>2, <2>4, <3>5, <4>1
    <3> QED BY <3>4, <3>5
  <2>6. CASE Resolves(t, x, f)
    <3>1. /\ t[f] \in FindingRow /\ t[f].lastAt <= x.scan.start /\ f \notin Reports(x)
          /\ f.control = x.query
      BY <2>1, <2>6 DEF Resolves
    <3>2. u[f] = Resolved(t[f], x.scan)
      BY <1>0, <1>1, <2>6, RecordedFacts
    <3>3. /\ u[f] \in FindingRow /\ u[f].lastAt = t[f].lastAt
          /\ u[f].resolvedAt = x.scan.start
      BY <1>4, <3>1, <3>2, ResolvedFacts
    <3>4. u[f] # None /\ t[f] # None
      BY <3>1, <3>3, NoneAssumption
    <3>5. x.query \in QueryIds
      <4>1. x \in Entry
        OBVIOUS
      <4> QED BY <4>1 DEF Entry
    <3> QED BY <1>2, <1>4, <2>2, <2>4, <3>1, <3>3, <3>4, <3>5
  <2>7. CASE f \notin Reports(x) /\ ~Resolves(t, x, f)
    <3>1. u[f] = t[f]
      BY <1>0, <1>1, <2>7, RecordedFacts
    <3> QED BY <1>2, <2>2, <2>7, <3>1
  <2> QED BY <2>5, <2>6, <2>7
<1>6. Agrees(u, M)
  BY <1>2, <1>3, <1>5 DEF Agrees
<1> QED BY <1>0, <1>6

-----------------------------------------------------------------------------
(* The latest results *)

\* A result that is the latest of a longer log was so before.
LEMMA LatestInPrefix ==
    ASSUME NEW L \in Seq(Entry), NEW x \in Entry, NEW M, NEW n, Extends(M, n, L, x),
           NEW k \in DOMAIN L, IsLatest(M, k)
    PROVE  IsLatest(L, k)
<1>1. \A j \in DOMAIN L : j \in DOMAIN M /\ M[j] = L[j] /\ Start(M, j) = Start(L, j)
  BY DEF Extends
<1>2. \A j \in DOMAIN L : j \in Peers(L, k) <=> j \in Peers(M, k)
  BY <1>1 DEF Peers
<1>3. Peers(L, k) \subseteq DOMAIN L
  BY DEF Peers
<1> QED BY <1>1, <1>2, <1>3 DEF IsLatest

\* A finding that two entries report, under the control id of a query, is of that
\* query for both, so that they are about the same control and scope.
LEMMA SameQuery ==
    ASSUME RowsNameTheirQuery, NEW x \in Entry, NEW f \in Reports(x), f.control \in QueryIds
    PROVE  x.query = f.control /\ x.scan.scope = f.scope
<1>1. f \in Fingerprint /\ f.control = RowControl[<<x.query, f.resource>>] /\ f.scope = x.scan.scope
  BY ReportsFacts
<1>2. x \in Entry
  OBVIOUS
<1>3. x.query \in QueryIds
  BY <1>2 DEF Entry
<1>4. f.resource \in Resources
  BY <1>1 DEF Fingerprint
<1> QED BY <1>1, <1>3, <1>4 DEF RowsNameTheirQuery

\* Recording a result keeps what the latest scans report open.
LEMMA LatestStep ==
    ASSUME RowsNameTheirQuery, NEW t, NEW L, Agrees(t, L), LatestIsOpen(t, L), NEW x \in Entry
    PROVE  LatestIsOpen(Recorded(t, x), Append(L, x))
<1> DEFINE M == Append(L, x)
           n == Len(L) + 1
           u == Recorded(t, x)
<1>0. M = Append(L, x) /\ n = Len(L) + 1 /\ u = Recorded(t, x)
  OBVIOUS
<1> HIDE DEF M, n, u
<1>1. t \in Table /\ L \in Seq(Entry)
  BY DEF Agrees
<1>2. Extends(M, n, L, x)
  BY <1>0, <1>1, AppendFacts
<1>3. x \in Entry
  OBVIOUS
<1>4. x.scan \in Scans /\ x.scan.start \in Nat /\ x.query \in QueryIds
  BY <1>3, ScanFacts DEF Entry
<1>5. ASSUME NEW k \in DOMAIN M, IsLatest(M, k), NEW f \in Saw(M, k)
      PROVE  u[f] # None /\ u[f].status = "open"
  <2>1. M[k] \in Entry /\ Saw(M, k) = Reports(M[k]) /\ Start(M, k) = M[k].scan.start
    BY <1>2, LogFacts DEF Extends
  <2>2. f \in Fingerprint /\ f.scope = M[k].scan.scope
    BY <2>1, ReportsFacts
  <2>3. t[f] \in FindingRow \cup {None} /\ (t[f] # None => t[f].lastAt \in Nat)
    <3>1. t[f] \in FindingRow \cup {None}
      BY <1>1, <2>2 DEF Table
    <3> QED BY <3>1 DEF FindingRow
  <2>4. u \in Table /\ (f \in Reports(x) => u[f] = upsert(t[f], x.scan, RowCount(f, x.result)))
        /\ (f \notin Reports(x) /\ ~Resolves(t, x, f) => u[f] = t[f])
    BY <1>0, <1>1, <2>2, RecordedFacts
  <2>5. ASSUME f \in Reports(x), t[f] = None \/ x.scan.start >= t[f].lastAt
        PROVE  u[f] # None /\ u[f].status = "open"
    <3>1. RowCount(f, x.result) \in Nat \ {0}
      BY <2>5, ReportsFacts
    <3> DEFINE new == upsert(t[f], x.scan, RowCount(f, x.result))
    <3>2. new \in FindingRow /\ new.status = "open"
      BY <1>4, <2>3, <2>5, <3>1, UpsertFacts
    <3>3. u[f] = new
      BY <2>4, <2>5
    <3> HIDE DEF new
    <3> QED BY <3>2, <3>3, NoneAssumption
  <2>6. ASSUME f \in Reports(x), ~(t[f] = None \/ x.scan.start >= t[f].lastAt)
        PROVE  u[f] = t[f]
    <3>1. RowCount(f, x.result) \in Nat \ {0}
      BY <2>6, ReportsFacts
    <3> QED BY <1>4, <2>3, <2>4, <2>6, <3>1, UpsertFacts
  <2>7. CASE k = n
    <3>1. f \in Reports(x) /\ M[k] = x
      BY <1>2, <2>7 DEF Extends
    <3>2. ASSUME ~(t[f] = None \/ x.scan.start >= t[f].lastAt), t[f].status # "open"
          PROVE  FALSE
      <4>1. t[f] \in FindingRow /\ t[f].status = "resolved"
        <5>1. t[f] \in FindingRow
          BY <2>3, <3>2
        <5> QED BY <3>2, <5>1 DEF FindingRow
      <4>2. f.control \in QueryIds
        BY <2>2, <3>2, <4>1 DEF Agrees
      <4>3. PICK j \in DOMAIN L : f \in Saw(L, j) /\ t[f].lastAt = Start(L, j)
        BY <2>2, <3>2 DEF Agrees
      <4>4. L[j] \in Entry /\ f \in Reports(L[j]) /\ Start(L, j) = L[j].scan.start
        BY <1>1, <4>3, LogFacts
      <4>5. /\ L[j].query = f.control /\ L[j].scan.scope = f.scope
            /\ x.query = f.control /\ x.scan.scope = f.scope
        BY <3>1, <4>2, <4>4, SameQuery
      <4>6. ~L[j].result.error
        BY <4>4, ReportsFacts
      <4>7. j \in Peers(M, k) /\ Start(M, j) = Start(L, j)
        BY <1>2, <3>1, <4>5, <4>6 DEF Peers, Extends
      <4>8. Start(M, j) <= Start(M, k)
        <5>1. Start(M, j) \in Nat /\ Start(M, k) \in Nat
          BY <1>2, <1>4, <2>1, <2>3, <3>1, <3>2, <4>3, <4>7
        <5> QED BY <1>5, <4>7, <5>1 DEF IsLatest
      <4> QED BY <1>4, <2>1, <2>3, <3>1, <3>2, <4>3, <4>7, <4>8
    <3>3. CASE t[f] = None \/ x.scan.start >= t[f].lastAt
      BY <2>5, <3>1, <3>3
    <3> QED BY <2>6, <3>1, <3>2, <3>3
  <2>8. CASE k \in DOMAIN L
    <3>1. f \in Saw(L, k) /\ M[k] = L[k] /\ k < n /\ k \in Nat /\ n \in Nat
      BY <1>2, <2>8 DEF Extends
    <3>2. t[f] # None /\ t[f].status = "open"
      BY <1>1, <1>2, <1>5, <2>8, <3>1, LatestInPrefix DEF LatestIsOpen
    <3>3. ~Resolves(t, x, f)
      <4> SUFFICES ASSUME Resolves(t, x, f) PROVE FALSE
        OBVIOUS
      <4>1. /\ ~x.result.error /\ f.control = x.query /\ f.scope = x.scan.scope
            /\ t[f].lastAt <= x.scan.start
        BY DEF Resolves
      <4>2. M[k].query = x.query /\ M[k].scan.scope = x.scan.scope
        BY <1>4, <2>1, <4>1, SameQuery
      <4>3. n \in Peers(M, k)
        BY <1>2, <4>1, <4>2 DEF Peers, Extends
      <4>4. Start(M, n) < Start(M, k)
        BY <1>5, <3>1, <4>3 DEF IsLatest
      <4>5. Start(M, n) = x.scan.start /\ Start(M, k) = Start(L, k)
        BY <1>2, <2>8 DEF Extends
      <4>6. Start(L, k) <= t[f].lastAt /\ Start(L, k) \in Nat
        BY <1>1, <2>2, <2>8, <3>1, <3>2, LogFacts DEF Agrees
      <4> QED BY <1>4, <2>3, <3>2, <4>1, <4>4, <4>5, <4>6
    <3>4. CASE f \notin Reports(x)
      BY <2>4, <3>2, <3>3, <3>4
    <3> QED BY <2>5, <2>6, <3>2, <3>4
  <2> QED BY <1>2, <2>7, <2>8 DEF Extends
<1>6. LatestIsOpen(u, M)
  BY <1>5 DEF LatestIsOpen
<1> QED BY <1>0, <1>6

-----------------------------------------------------------------------------
(* Evaluation in order *)

\* A log holds finitely many rows about a finding.
LEMMA RowsSeenFinite ==
    ASSUME NEW L \in Seq(Entry), NEW f
    PROVE  IsFiniteSet(RowsSeen(L, f))
<1>1. Len(L) \in Nat /\ MaxRows \in Nat /\ DOMAIN L = 1..Len(L)
  BY QueriesAssumption
<1>2. IsFiniteSet((DOMAIN L) \X (1..MaxRows))
  <2>1. IsFiniteSet(DOMAIN L)
    BY <1>1, FS_Interval
  <2>2. IsFiniteSet(1..MaxRows)
    BY <1>1, FS_Interval
  <2> QED BY <2>1, <2>2, FS_Product
<1>3. RowsSeen(L, f) \in SUBSET ((DOMAIN L) \X (1..MaxRows))
  BY DEF RowsSeen
<1> QED BY <1>2, <1>3, FS_Subset

\* An entry adds its rows about a finding to those of the log.
LEMMA RowsSeenStep ==
    ASSUME NEW L \in Seq(Entry), NEW x \in Entry, NEW M, NEW n, Extends(M, n, L, x), NEW f
    PROVE  /\ f \in Reports(x) => Cardinality(RowsSeen(M, f)) =
                                     Cardinality(RowsSeen(L, f)) + RowCount(f, x.result)
           /\ f \notin Reports(x) => RowsSeen(M, f) = RowsSeen(L, f)
           /\ Cardinality(RowsSeen(L, f)) \in Nat
<1>1. /\ DOMAIN M = DOMAIN L \cup {n} /\ n \notin DOMAIN L
      /\ \A j \in DOMAIN L : M[j] = L[j] /\ Saw(M, j) = Saw(L, j)
      /\ M[n] = x /\ Saw(M, n) = Reports(x)
  BY DEF Extends
<1>2. IsFiniteSet(RowsSeen(L, f)) /\ Cardinality(RowsSeen(L, f)) \in Nat
  BY RowsSeenFinite, FS_CardinalityType
<1>3. f \notin Reports(x) => RowsSeen(M, f) = RowsSeen(L, f)
  BY <1>1 DEF RowsSeen
<1>4. ASSUME f \in Reports(x)
      PROVE  Cardinality(RowsSeen(M, f)) = Cardinality(RowsSeen(L, f)) + RowCount(f, x.result)
  <2> DEFINE c == RowCount(f, x.result)
             added == {n} \X (1..c)
  <2>1. c \in 1..MaxRows /\ c \in Nat \ {0}
    BY <1>4, ReportsFacts
  <2>2. RowsSeen(M, f) = RowsSeen(L, f) \cup added
    <3>1. \A p : p \in RowsSeen(M, f) <=>
                 p \in (DOMAIN M) \X (1..MaxRows) /\ f \in Saw(M, p[1])
                 /\ p[2] <= RowCount(f, M[p[1]].result)
      BY DEF RowsSeen
    <3>2. \A p : p \in RowsSeen(L, f) <=>
                 p \in (DOMAIN L) \X (1..MaxRows) /\ f \in Saw(L, p[1])
                 /\ p[2] <= RowCount(f, L[p[1]].result)
      BY DEF RowsSeen
    <3>3. ASSUME NEW p \in (DOMAIN L) \X (1..MaxRows)
          PROVE  p \in RowsSeen(M, f) <=> p \in RowsSeen(L, f)
      BY <1>1, <3>1, <3>2
    <3>4. ASSUME NEW p \in {n} \X (1..MaxRows)
          PROVE  p \in RowsSeen(M, f) <=> p \in added
      <4>1. p[1] = n /\ p[2] \in 1..MaxRows /\ p = <<p[1], p[2]>>
        OBVIOUS
      <4>2. p \in RowsSeen(M, f) <=> p[2] <= c
        BY <1>1, <1>4, <3>1, <4>1
      <4>3. p \in added <=> p[2] \in 1..c
        BY <4>1
      <4> QED BY <2>1, <4>1, <4>2, <4>3, QueriesAssumption
    <3>5. added \subseteq {n} \X (1..MaxRows)
      BY <2>1, QueriesAssumption
    <3>6. (DOMAIN M) \X (1..MaxRows) =
             ((DOMAIN L) \X (1..MaxRows)) \cup ({n} \X (1..MaxRows))
      BY <1>1
    <3> QED BY <3>1, <3>2, <3>3, <3>4, <3>5, <3>6
  <2>3. RowsSeen(L, f) \cap added = {}
    BY <1>1 DEF RowsSeen
  <2>4. IsFiniteSet({n}) /\ Cardinality({n}) = 1 /\ IsFiniteSet(1..c) /\ Cardinality(1..c) = c
    <3>1. IsFiniteSet({n}) /\ Cardinality({n}) = 1
      BY FS_Singleton
    <3> HIDE DEF c
    <3>2. IsFiniteSet(1..c) /\ Cardinality(1..c) = c
      BY <2>1, FS_Interval
    <3> QED BY <3>1, <3>2
  <2>5. IsFiniteSet(added) /\ Cardinality(added) = 1 * c
    BY <2>4, FS_Product
  <2> HIDE DEF c, added
  <2>6. Cardinality(RowsSeen(M, f)) = Cardinality(RowsSeen(L, f)) + Cardinality(added) - 0
    BY <1>2, <2>2, <2>3, <2>5, FS_Union, FS_EmptySet
  <2> QED BY <1>2, <2>1, <2>5, <2>6 DEF c
<1> QED BY <1>2, <1>3, <1>4

\* What makes Exact inductive: the counts are right for every finding.
ExactInv(t, L) ==
    InOrder(L) =>
        /\ \A k \in DOMAIN L : IsLatest(L, k) =>
              \A f \in Reportable(L, k) :
                  f \in Saw(L, k) <=> t[f] # None /\ t[f].status = "open"
        /\ \A f \in Fingerprint : t[f] # None => t[f].count = Cardinality(RowsSeen(L, f))

\* What the rows of a query can report carries its control id and the scope of its scan.
LEMMA ReportableFacts ==
    ASSUME RowsAreOwn, NEW L \in Seq(Entry), NEW k \in DOMAIN L, NEW f
    PROVE  f \in Reportable(L, k) =>
              f \in Fingerprint /\ f.control = L[k].query /\ f.scope = L[k].scan.scope
<1> SUFFICES ASSUME f \in Reportable(L, k)
             PROVE  f \in Fingerprint /\ f.control = L[k].query /\ f.scope = L[k].scan.scope
  OBVIOUS
<1>1. PICK r \in Resources : f = findingFingerprint(L[k].query, r, L[k].scan)
  BY DEF Reportable
<1>2. L[k].query \in QueryIds /\ L[k].scan \in Scans
  BY LogFacts
<1>3. f = [control |-> L[k].query, resource |-> r, scope |-> L[k].scan.scope]
  BY <1>1, <1>2 DEF findingFingerprint, RowsAreOwn
<1>4. L[k].query \in Controls /\ L[k].scan.scope \in Scopes
  BY <1>2, QueryIdsAreControls, ScanFacts
<1> QED BY <1>3, <1>4 DEF Fingerprint

\* In order, the counts stay right.
LEMMA CountStep ==
    ASSUME NEW t, NEW L, Agrees(t, L), NEW x \in Entry, NEW M, NEW n, Extends(M, n, L, x),
           InOrder(M), NEW f \in Fingerprint,
           t[f] # None => t[f].count = Cardinality(RowsSeen(L, f)),
           Recorded(t, x)[f] # None
    PROVE  /\ Recorded(t, x)[f].count = Cardinality(RowsSeen(M, f))
           /\ f \in Reports(x) => Recorded(t, x)[f].status = "open"
<1> DEFINE u == Recorded(t, x)
<1>1. t \in Table /\ L \in Seq(Entry)
  BY DEF Agrees
<1>2. x \in Entry
  OBVIOUS
<1>3. x.scan \in Scans /\ x.scan.start \in Nat
  BY <1>2, ScanFacts DEF Entry
<1>4. t[f] \in FindingRow \cup {None}
  BY <1>1 DEF Table
<1>5. /\ f \in Reports(x) => u[f] = upsert(t[f], x.scan, RowCount(f, x.result))
      /\ Resolves(t, x, f) => u[f] = Resolved(t[f], x.scan)
      /\ f \notin Reports(x) /\ ~Resolves(t, x, f) => u[f] = t[f]
  BY <1>1, RecordedFacts
<1>6. CASE f \in Reports(x)
  <2> DEFINE c == RowCount(f, x.result)
  <2>1. c \in Nat \ {0} /\ f.scope = x.scan.scope
    BY <1>6, ReportsFacts
  <2>2. Cardinality(RowsSeen(M, f)) = Cardinality(RowsSeen(L, f)) + c
        /\ Cardinality(RowsSeen(L, f)) \in Nat
    BY <1>1, <1>6, RowsSeenStep
  <2>3. CASE t[f] = None
    <3>1. RowsSeen(L, f) = {}
      BY <2>3 DEF Agrees, RowsSeen
    <3>2. Cardinality(RowsSeen(L, f)) = 0
      BY <3>1, FS_EmptySet
    <3> HIDE DEF c
    <3>3. upsert(t[f], x.scan, c).count = c /\ upsert(t[f], x.scan, c).status = "open"
      BY <1>3, <1>4, <2>1, <2>3, UpsertFacts
    <3> QED BY <1>5, <1>6, <2>1, <2>2, <3>2, <3>3 DEF c
  <2>4. CASE t[f] # None
    <3>1. PICK j \in DOMAIN L : f \in Saw(L, j) /\ t[f].lastAt = Start(L, j)
      BY <2>4 DEF Agrees
    <3>2. L[j] \in Entry /\ f \in Reports(L[j])
      BY <1>1, <3>1, LogFacts
    <3>3. L[j].scan.scope = f.scope
      BY <3>2, ReportsFacts
    <3>4. Start(M, j) <= Start(M, n)
      <4>1. j \in DOMAIN M /\ n \in DOMAIN M /\ j < n /\ M[j].scan.scope = M[n].scan.scope
        BY <2>1, <3>3 DEF Extends
      <4> QED BY <4>1 DEF InOrder
    <3>5. t[f].lastAt <= x.scan.start
      BY <3>1, <3>4 DEF Extends
    <3>6. t[f].lastAt \in Nat
      <4>1. t[f] \in FindingRow
        BY <1>4, <2>4
      <4> QED BY <4>1 DEF FindingRow
    <3> HIDE DEF c
    <3>7. upsert(t[f], x.scan, c).count = t[f].count + c
          /\ upsert(t[f], x.scan, c).status = "open"
      BY <1>3, <1>4, <2>1, <2>4, <3>5, <3>6, UpsertFacts
    <3> QED BY <1>5, <1>6, <2>2, <2>4, <3>7 DEF c
  <2> QED BY <2>3, <2>4
<1>7. CASE Resolves(t, x, f)
  <2>1. t[f] \in FindingRow /\ t[f] # None /\ f \notin Reports(x)
    BY <1>4, <1>7 DEF Resolves
  <2>2. u[f].count = t[f].count
    BY <1>3, <1>5, <1>7, <2>1, ResolvedFacts
  <2> QED BY <1>1, <2>1, <2>2, RowsSeenStep
<1>8. CASE f \notin Reports(x) /\ ~Resolves(t, x, f)
  BY <1>1, <1>5, <1>8, RowsSeenStep
<1> QED BY <1>6, <1>7, <1>8

\* Recording a result in order keeps the table exact.
LEMMA ExactStep ==
    ASSUME RowsAreOwn, NEW t, NEW L, Agrees(t, L), ExactInv(t, L), NEW x \in Entry
    PROVE  ExactInv(Recorded(t, x), Append(L, x))
<1> DEFINE M == Append(L, x)
           n == Len(L) + 1
           u == Recorded(t, x)
<1>0. M = Append(L, x) /\ n = Len(L) + 1 /\ u = Recorded(t, x)
  OBVIOUS
<1> HIDE DEF M, n, u
<1>1. t \in Table /\ L \in Seq(Entry)
  BY DEF Agrees
<1>2. Extends(M, n, L, x)
  BY <1>0, <1>1, AppendFacts
<1> SUFFICES ASSUME InOrder(M)
             PROVE  /\ \A k \in DOMAIN M : IsLatest(M, k) =>
                          \A f \in Reportable(M, k) :
                              f \in Saw(M, k) <=> u[f] # None /\ u[f].status = "open"
                    /\ \A f \in Fingerprint : u[f] # None =>
                          u[f].count = Cardinality(RowsSeen(M, f))
  BY <1>0 DEF ExactInv
<1>3. InOrder(L)
  BY <1>2 DEF InOrder, Extends
<1>4. \A f \in Fingerprint : t[f] # None => t[f].count = Cardinality(RowsSeen(L, f))
  BY <1>3 DEF ExactInv
<1>5. ASSUME NEW f \in Fingerprint, u[f] # None
      PROVE  /\ u[f].count = Cardinality(RowsSeen(M, f))
             /\ f \in Reports(x) => u[f].status = "open"
  BY <1>0, <1>2, <1>4, <1>5, CountStep
<1>6. x \in Entry
  OBVIOUS
<1>7. x.scan \in Scans /\ x.scan.start \in Nat
  BY <1>6, ScanFacts DEF Entry
<1>8. ASSUME NEW k \in DOMAIN M, IsLatest(M, k), NEW f \in Reportable(M, k)
      PROVE  f \in Saw(M, k) <=> u[f] # None /\ u[f].status = "open"
  <2>1. f \in Fingerprint /\ f.control = M[k].query /\ f.scope = M[k].scan.scope
    BY <1>2, ReportableFacts DEF Extends
  <2>2. t[f] \in FindingRow \cup {None}
    BY <1>1, <2>1 DEF Table
  <2>3. /\ u \in Table
        /\ f \in Reports(x) => u[f] = upsert(t[f], x.scan, RowCount(f, x.result))
        /\ Resolves(t, x, f) => u[f] = Resolved(t[f], x.scan)
        /\ f \notin Reports(x) /\ ~Resolves(t, x, f) => u[f] = t[f]
    BY <1>0, <1>1, <2>1, RecordedFacts
  <2>4. CASE k = n
    <3>1. M[k] = x /\ Saw(M, k) = Reports(x) /\ ~x.result.error
      BY <1>2, <1>8, <2>4 DEF Extends, IsLatest, Peers
    <3>2. CASE f \in Reports(x)
      <4>1. RowCount(f, x.result) \in Nat \ {0}
        BY <3>2, ReportsFacts
      <4>2. u[f] \in FindingRow
        BY <1>7, <2>2, <2>3, <3>2, <4>1, UpsertFacts
      <4>3. u[f] # None
        BY <4>2, NoneAssumption
      <4> QED BY <1>5, <2>1, <3>1, <3>2, <4>3
    <3>3. CASE f \notin Reports(x)
      <4>1. CASE Resolves(t, x, f)
        <5>1. t[f] \in FindingRow
          BY <2>2, <4>1 DEF Resolves
        <5>2. u[f].status = "resolved"
          BY <1>7, <2>3, <4>1, <5>1, ResolvedFacts
        <5> QED BY <3>1, <3>3, <5>2
      <4>2. CASE ~Resolves(t, x, f)
        <5>1. u[f] = t[f]
          BY <2>3, <3>3, <4>2
        <5>2. ASSUME t[f] # None PROVE t[f].lastAt <= x.scan.start
          <6>1. PICK j \in DOMAIN L : f \in Saw(L, j) /\ t[f].lastAt = Start(L, j)
            BY <2>1, <5>2 DEF Agrees
          <6>2. L[j] \in Entry /\ f \in Reports(L[j])
            BY <1>1, <6>1, LogFacts
          <6>3. L[j].scan.scope = f.scope
            BY <6>2, ReportsFacts
          <6>4. j \in DOMAIN M /\ n \in DOMAIN M /\ j < n /\ M[j].scan.scope = M[n].scan.scope
            BY <1>2, <2>1, <2>4, <6>3 DEF Extends
          <6>5. Start(M, j) <= Start(M, n)
            BY <6>4 DEF InOrder
          <6> QED BY <1>2, <6>1, <6>5 DEF Extends
        <5>3. ~(t[f] # None /\ t[f].status = "open")
          BY <2>1, <3>1, <3>3, <4>2, <5>2 DEF Resolves
        <5> QED BY <3>1, <3>3, <5>1, <5>3
      <4> QED BY <4>1, <4>2
    <3> QED BY <3>2, <3>3
  <2>5. CASE k \in DOMAIN L
    <3>1. M[k] = L[k] /\ Saw(M, k) = Saw(L, k) /\ k < n /\ k \in Nat /\ n \in Nat
          /\ f \in Reportable(L, k)
      BY <1>2, <2>5 DEF Extends, Reportable
    <3>2. f \in Saw(L, k) <=> t[f] # None /\ t[f].status = "open"
      BY <1>1, <1>2, <1>3, <1>8, <2>5, <3>1, LatestInPrefix DEF ExactInv
    <3>3. ASSUME ~x.result.error, f.control = x.query, f.scope = x.scan.scope
          PROVE  FALSE
      <4>1. n \in Peers(M, k)
        BY <1>2, <2>1, <3>3 DEF Peers, Extends
      <4>2. Start(M, n) < Start(M, k)
        BY <1>8, <3>1, <4>1 DEF IsLatest
      <4>3. k < n /\ n \in DOMAIN M /\ M[k].scan.scope = M[n].scan.scope
        BY <1>2, <2>1, <3>1, <3>3 DEF Extends
      <4>4. Start(M, k) <= Start(M, n)
        BY <4>3 DEF InOrder
      <4>5. Start(M, k) \in Nat /\ Start(M, n) \in Nat
        BY <1>1, <1>2, <1>7, <2>5, LogFacts DEF Extends
      <4> QED BY <4>2, <4>4, <4>5
    <3>4. f \notin Reports(x)
      <4>1. ASSUME f \in Reports(x) PROVE FALSE
        <5>1. ~x.result.error /\ f.control = RowControl[<<x.query, f.resource>>]
              /\ f.scope = x.scan.scope
          BY <4>1, ReportsFacts
        <5>2. x.query \in QueryIds /\ f.resource \in Resources
          BY <1>6, <2>1 DEF Entry, Fingerprint
        <5>3. f.control = x.query
          BY <5>1, <5>2 DEF RowsAreOwn
        <5> QED BY <3>3, <5>1, <5>3
      <4> QED BY <4>1
    <3>5. ~Resolves(t, x, f)
      BY <3>3 DEF Resolves
    <3> QED BY <2>3, <3>1, <3>2, <3>4, <3>5
  <2> QED BY <1>2, <2>4, <2>5 DEF Extends
<1> QED BY <1>5, <1>8

-----------------------------------------------------------------------------
(* The inductive invariant *)

Tracked == [by : Evaluations \cup {None}, findings : Table \cup {<<>>},
            occurrences : SUBSET (Evaluations \X Fingerprint \X ScanIds)]

EvaluationState ==
    [pc : {"new", "loaded", "executed", "recording", "done", "error"},
     scan : Scans \cup {None}, results : [DOMAIN Queries -> Result] \cup {<<>>},
     next : 1..Len(Queries) + 1, opened : Nat, recurred : Int, resolved : Nat]

\* Types, and what the phase of an evaluation says about it: only a completed scan
\* is evaluated, and the transaction belongs to the evaluation that is recording.
Phased ==
    /\ evaluation \in [Evaluations -> EvaluationState]
    /\ tx \in Tracked
    /\ occurrences \subseteq Evaluations \X Fingerprint \X ScanIds
    /\ recorded \in [Evaluations -> EvaluationRow \cup {None}]
    /\ suppressions \in [Suppressions -> Fingerprint \cup {None}]
    /\ tx.by # None => tx.findings \in Table
    /\ \A e \in Evaluations :
          /\ evaluation[e].pc = "recording" <=> tx.by = e
          /\ evaluation[e].pc \in {"loaded", "executed", "recording"} =>
                evaluation[e].scan \in Scans /\ evaluation[e].scan.complete
          /\ evaluation[e].pc \in {"executed", "recording"} =>
                evaluation[e].results \in [DOMAIN Queries -> Result]
          /\ evaluation[e].pc \in {"new", "loaded", "executed"} => evaluation[e].next = 1

\* Everything the log says about a table.
Faithful(t, L) ==
    /\ Agrees(t, L)
    /\ RowsNameTheirQuery => LatestIsOpen(t, L)
    /\ RowsAreOwn => ExactInv(t, L)

\* The sighting of a finding has an occurrence, of a recorded evaluation or of `by`.
Evidence(t, occ, rec, by) ==
    \A f \in Fingerprint : t[f] # None =>
        \E e \in Evaluations : /\ <<e, f, t[f].lastScan>> \in occ
                               /\ rec[e] # None \/ e = by

\* The entries of an evaluation, and the log with those recorded so far.
Entries(ev) ==
    [i \in DOMAIN Queries |->
        [query |-> Queries[i], scan |-> ev.scan, result |-> ev.results[i]]]

Extended(L, ev, n) == L \o [i \in 1..n |-> Entries(ev)[i]]

\* A finding changed by the results 1..n of an evaluation.
ChangedBy(f, ev, n) ==
    \E i \in 1..n : /\ f.scope = ev.scan.scope
                    /\ ~ev.results[i].error
                    /\ f.control = Queries[i]
                       \/ RowControl[<<Queries[i], f.resource>>] = f.control

\* A row only moves forward.
Forward(old, new) ==
    old # None => /\ new # None
                  /\ new.firstScan = old.firstScan
                  /\ new.lastAt >= old.lastAt

\* The open transaction of the evaluation ev, by, over the committed tables.
Recording(t, occ, rec, L, x, ev) ==
    /\ Faithful(x.findings, Extended(L, ev, ev.next - 1))
    /\ Evidence(x.findings, x.occurrences, rec, x.by)
    /\ \A f \in Fingerprint :
          /\ x.findings[f] # t[f] => ChangedBy(f, ev, ev.next - 1)
          /\ Forward(t[f], x.findings[f])

IInv ==
    /\ Phased
    /\ Faithful(findings, log)
    /\ Evidence(findings, occurrences, recorded, None)
    /\ tx.by # None => Recording(findings, occurrences, recorded, log, tx, evaluation[tx.by])

-----------------------------------------------------------------------------
\* Recording a result keeps the table faithful to the log.
LEMMA FaithfulStep ==
    ASSUME NEW t, NEW L, Faithful(t, L), NEW x \in Entry
    PROVE  Faithful(Recorded(t, x), Append(L, x))
  BY AgreesStep, LatestStep, ExactStep DEF Faithful

\* The entries of an evaluation: one for each query of the pack.
LEMMA EntriesType ==
    ASSUME NEW ev, ev.scan \in Scans, ev.results \in [DOMAIN Queries -> Result]
    PROVE  /\ Entries(ev) \in [1..Len(Queries) -> Entry]
           /\ DOMAIN Queries = 1..Len(Queries) /\ Len(Queries) \in Nat
<1>1. DOMAIN Queries = 1..Len(Queries) /\ Len(Queries) \in Nat
  BY QueriesAssumption
<1>2. \A i \in DOMAIN Queries : Queries[i] \in QueryIds
  BY DEF QueryIds
<1>3. ASSUME NEW i \in DOMAIN Queries PROVE Entries(ev)[i] \in Entry
  BY <1>2 DEF Entries, Entry
<1> QED BY <1>1, <1>3 DEF Entries

\* A sequence with a function 1..n+1 behind it is the one with 1..n behind it and
\* one more element.
LEMMA ConcatOneMore ==
    ASSUME NEW S, NEW L \in Seq(S), NEW m \in Nat, NEW F \in [1..m -> S], NEW n \in Nat, n < m
    PROVE  L \o [i \in 1..n + 1 |-> F[i]] = Append(L \o [i \in 1..n |-> F[i]], F[n + 1])
<1> DEFINE A == [i \in 1..n + 1 |-> F[i]]
           B == [i \in 1..n |-> F[i]]
<1>1. A \in Seq(S) /\ Len(A) = n + 1 /\ B \in Seq(S) /\ Len(B) = n /\ F[n + 1] \in S
  OBVIOUS
<1>2. L \o A \in Seq(S) /\ Append(L \o B, F[n + 1]) \in Seq(S)
  BY <1>1
<1>3. Len(L \o A) = Len(Append(L \o B, F[n + 1]))
  BY <1>1
<1>4. ASSUME NEW i \in 1..Len(L \o A) PROVE (L \o A)[i] = Append(L \o B, F[n + 1])[i]
  <2>1. Len(L) \in Nat /\ Len(L \o A) = Len(L) + n + 1 /\ Len(L \o B) = Len(L) + n
    BY <1>1
  <2>2. CASE i <= Len(L)
    BY <1>1, <2>1, <2>2
  <2>3. CASE i > Len(L) /\ i <= Len(L) + n
    BY <1>1, <2>1, <2>3
  <2>4. CASE i = Len(L) + n + 1
    BY <1>1, <2>1, <2>4
  <2> QED BY <2>1, <2>2, <2>3, <2>4
<1> QED BY <1>2, <1>3, <1>4, SeqEqual

\* Each query recorded adds its entry to the log of the transaction.
LEMMA ExtendedStep ==
    ASSUME NEW L \in Seq(Entry), NEW ev, ev.scan \in Scans,
           ev.results \in [DOMAIN Queries -> Result], NEW n \in Nat
    PROVE  /\ Extended(L, ev, 0) = L
           /\ n < Len(Queries) =>
                 Extended(L, ev, n + 1) = Append(Extended(L, ev, n), Entries(ev)[n + 1])
<1>1. Entries(ev) \in [1..Len(Queries) -> Entry] /\ Len(Queries) \in Nat
  BY EntriesType
<1>2. [i \in 1..0 |-> Entries(ev)[i]] = <<>>
  OBVIOUS
<1>3. Extended(L, ev, 0) = L
  BY <1>2, ConcatEmptySeq DEF Extended
<1> QED BY <1>1, <1>3, ConcatOneMore DEF Extended

-----------------------------------------------------------------------------
(* The steps that leave the tables alone *)

\* The empty tables satisfy the invariant.
LEMMA InitInv == Init => IInv
<1> SUFFICES ASSUME Init PROVE IInv
  OBVIOUS
<1>1. findings \in Table /\ \A f \in Fingerprint : findings[f] = None
  BY DEF Init, Table
<1>2. log = <<>> /\ log \in Seq(Entry) /\ DOMAIN log = {}
  BY DEF Init
<1>3. Phased
  <2>1. Fresh \in EvaluationState
    <3>1. Len(Queries) \in Nat
      BY QueriesAssumption
    <3> QED BY <3>1 DEF Fresh, EvaluationState
  <2>2. evaluation \in [Evaluations -> EvaluationState] /\ \A e \in Evaluations : evaluation[e] = Fresh
    BY <2>1 DEF Init
  <2>3. tx = NoTx /\ NoTx \in Tracked /\ tx.by = None
    BY DEF Init, NoTx, Tracked
  <2>4. /\ occurrences = {} /\ recorded \in [Evaluations -> EvaluationRow \cup {None}]
        /\ suppressions \in [Suppressions -> Fingerprint \cup {None}]
    BY DEF Init
  <2>5. Fresh.pc = "new" /\ Fresh.next = 1
    BY DEF Fresh
  <2> QED BY <2>2, <2>3, <2>4, <2>5, NoneAssumption DEF Phased
<1>4. Agrees(findings, log)
  BY <1>1, <1>2 DEF Agrees
<1>5. LatestIsOpen(findings, log) /\ ExactInv(findings, log)
  BY <1>1, <1>2 DEF LatestIsOpen, ExactInv
<1>6. Evidence(findings, occurrences, recorded, None)
  BY <1>1 DEF Evidence
<1>7. tx.by = None
  BY DEF Init, NoTx
<1> QED BY <1>3, <1>4, <1>5, <1>6, <1>7 DEF IInv, Faithful

\* A step outside of the transaction, that leaves the tables alone.
LEMMA QuietInv ==
    ASSUME IInv, Phased', UNCHANGED <<findings, occurrences, recorded, log>>,
           tx'.by # None => tx' = tx /\ evaluation'[tx.by] = evaluation[tx.by]
    PROVE  IInv'
  BY DEF IInv

\* Evaluate resolves its scan.
LEMMA LoadInv ==
    ASSUME IInv, NEW e \in Evaluations, NEW scan \in Scans, Load(e, scan)
    PROVE  IInv'
<1>1. Phased
  BY DEF IInv
<1>2. evaluation[e] \in EvaluationState /\ evaluation[e].pc = "new" /\ tx.by = None
  BY <1>1 DEF Load, Phased
<1> DEFINE pc == IF scan.complete THEN "loaded" ELSE "error"
           read == IF scan.complete THEN scan ELSE None
           ev == [evaluation[e] EXCEPT !.pc = pc, !.scan = read]
<1>3. /\ ev \in EvaluationState /\ ev.next = evaluation[e].next
      /\ ev.pc \in {"loaded", "error"}
      /\ ev.pc = "loaded" => ev.scan = scan /\ scan.complete
  <2>1. /\ pc \in {"loaded", "error"} /\ read \in Scans \cup {None}
        /\ pc = "loaded" => read = scan /\ scan.complete
    OBVIOUS
  <2> HIDE DEF pc, read
  <2>2. ev \in EvaluationState /\ ev.next = evaluation[e].next /\ ev.pc = pc /\ ev.scan = read
    BY <1>2, <2>1 DEF EvaluationState
  <2> QED BY <2>1, <2>2
<1>4. evaluation' = [evaluation EXCEPT ![e] = ev]
  BY <1>1 DEF Load, Phased
<1> HIDE DEF ev
<1>5. Phased'
  <2>1. /\ evaluation' \in [Evaluations -> EvaluationState] /\ evaluation'[e] = ev
        /\ \A d \in Evaluations : d # e => evaluation'[d] = evaluation[d]
    BY <1>1, <1>3, <1>4 DEF Phased
  <2>2. UNCHANGED <<tx, occurrences, recorded, suppressions>>
    BY DEF Load
  <2>3. tx.by # e
    BY <1>1, <1>2 DEF Phased
  <2> QED BY <1>1, <1>2, <1>3, <2>1, <2>2, <2>3 DEF Phased
<1>6. tx' = tx /\ UNCHANGED <<findings, occurrences, recorded, log>>
  BY DEF Load
<1> QED BY <1>2, <1>5, <1>6, QuietInv

\* The queries are executed before the transaction begins.
LEMMA ExecuteInv ==
    ASSUME IInv, NEW e \in Evaluations, NEW results \in [DOMAIN Queries -> Result],
           Execute(e, results)
    PROVE  IInv'
<1>1. Phased
  BY DEF IInv
<1>2. evaluation[e] \in EvaluationState /\ evaluation[e].pc = "loaded"
  BY <1>1 DEF Execute, Phased
<1> DEFINE ev == [evaluation[e] EXCEPT !.pc = "executed", !.results = results]
<1>3. ev \in EvaluationState /\ ev.scan = evaluation[e].scan /\ ev.next = evaluation[e].next
      /\ ev.pc = "executed" /\ ev.results = results
  BY <1>2 DEF EvaluationState
<1>4. evaluation' = [evaluation EXCEPT ![e] = ev]
  BY <1>1 DEF Execute, Phased
<1> HIDE DEF ev
<1>5. Phased'
  <2>1. /\ evaluation' \in [Evaluations -> EvaluationState] /\ evaluation'[e] = ev
        /\ \A d \in Evaluations : d # e => evaluation'[d] = evaluation[d]
    BY <1>1, <1>3, <1>4 DEF Phased
  <2>2. UNCHANGED <<tx, occurrences, recorded, suppressions>>
    BY DEF Execute
  <2>3. tx.by # e
    BY <1>1, <1>2 DEF Phased
  <2> QED BY <1>1, <1>2, <1>3, <2>1, <2>2, <2>3 DEF Phased
<1>6. tx' = tx /\ UNCHANGED <<findings, occurrences, recorded, log>>
  BY DEF Execute
<1>7. tx.by # e
  BY <1>1, <1>2 DEF Phased
<1>8. tx.by # None => evaluation'[tx.by] = evaluation[tx.by]
  <2>1. tx.by \in Evaluations \cup {None}
    BY <1>1 DEF Phased, Tracked
  <2> QED BY <1>1, <1>4, <1>7, <2>1 DEF Phased
<1> QED BY <1>5, <1>6, <1>8, QuietInv

\* A rollback goes back to the rows the transaction began with.
LEMMA AbortInv ==
    ASSUME IInv, NEW e \in Evaluations, Abort(e)
    PROVE  IInv'
<1>1. Phased
  BY DEF IInv
<1>2. evaluation[e] \in EvaluationState
  BY <1>1 DEF Phased
<1> DEFINE ev == [Fresh EXCEPT !.pc = "error"]
<1>3. ev \in EvaluationState /\ ev.pc = "error"
  <2>1. Len(Queries) \in Nat
    BY QueriesAssumption
  <2> QED BY <2>1 DEF EvaluationState, Fresh
<1>4. evaluation' = [evaluation EXCEPT ![e] = ev]
  BY <1>1 DEF Abort, Phased
<1> HIDE DEF ev
<1>5. tx.by # None => tx.by \in Evaluations
  BY <1>1 DEF Phased, Tracked
<1>6. CASE tx.by = e
  <2>1. tx' = NoTx /\ NoTx \in Tracked /\ NoTx.by = None
    BY <1>6 DEF Abort, NoTx, Tracked
  <2>2. Phased'
    BY <1>1, <1>3, <1>4, <1>6, <2>1, NoneAssumption DEF Abort, Phased
  <2> QED BY <2>1, <2>2, QuietInv DEF Abort
<1>7. CASE tx.by # e
  <2>1. tx' = tx
    BY <1>7 DEF Abort
  <2>2. Phased'
    BY <1>1, <1>3, <1>4, <1>7, <2>1, NoneAssumption DEF Abort, Phased
  <2>3. tx.by # None => evaluation'[tx.by] = evaluation[tx.by]
    BY <1>1, <1>4, <1>5, <1>7 DEF Phased
  <2> QED BY <2>1, <2>2, <2>3, QuietInv DEF Abort
<1> QED BY <1>6, <1>7

\* Suppressions are a table of their own.
LEMMA SuppressionInv ==
    ASSUME IInv, UNCHANGED <<findings, occurrences, recorded, evaluation, tx, log>>,
           suppressions' \in [Suppressions -> Fingerprint \cup {None}]
    PROVE  IInv'
<1>1. Phased'
  BY DEF IInv, Phased
<1> QED BY <1>1, QuietInv

\* A suppression does not touch the findings.
LEMMA SuppressInv ==
    ASSUME IInv, NEW f \in Fingerprint, NEW i \in Suppressions, Suppress(f, i)
    PROVE  IInv'
<1>1. suppressions' \in [Suppressions -> Fingerprint \cup {None}]
  BY DEF IInv, Phased, Suppress
<1> QED BY <1>1, SuppressionInv DEF Suppress

\* Nor does revoking it.
LEMMA UnsuppressInv ==
    ASSUME IInv, NEW f \in Fingerprint, Unsuppress(f)
    PROVE  IInv'
<1>1. suppressions' \in [Suppressions -> Fingerprint \cup {None}]
  BY DEF IInv, Phased, Unsuppress
<1> QED BY <1>1, SuppressionInv DEF Unsuppress

\* Nor does its expiry.
LEMMA ExpireInv ==
    ASSUME IInv, NEW i \in Suppressions, Expire(i)
    PROVE  IInv'
<1>1. suppressions' \in [Suppressions -> Fingerprint \cup {None}]
  BY DEF IInv, Phased, Expire
<1> QED BY <1>1, SuppressionInv DEF Expire

-----------------------------------------------------------------------------
(* The steps of a transaction *)

\* A transaction begins with the committed rows.
LEMMA BeginInv ==
    ASSUME IInv, NEW e \in Evaluations, Begin(e)
    PROVE  IInv'
<1>1. Phased /\ Faithful(findings, log) /\ Evidence(findings, occurrences, recorded, None)
  BY DEF IInv
<1>2. evaluation[e] \in EvaluationState /\ evaluation[e].pc = "executed" /\ tx.by = None
  BY <1>1 DEF Begin, Phased
<1> DEFINE ev == [evaluation[e] EXCEPT !.pc = "recording"]
<1>3. /\ ev \in EvaluationState /\ ev.pc = "recording" /\ ev.scan = evaluation[e].scan
      /\ ev.results = evaluation[e].results /\ ev.next = evaluation[e].next
  BY <1>2 DEF EvaluationState
<1>4. /\ evaluation[e].scan \in Scans /\ evaluation[e].scan.complete
      /\ evaluation[e].results \in [DOMAIN Queries -> Result] /\ evaluation[e].next = 1
  BY <1>1, <1>2 DEF Phased
<1>5. evaluation' = [evaluation EXCEPT ![e] = ev]
  BY <1>1 DEF Begin, Phased
<1> HIDE DEF ev
<1>6. findings \in Table /\ log \in Seq(Entry)
  BY <1>1 DEF Faithful, Agrees
<1>7. /\ tx' = [by |-> e, findings |-> findings, occurrences |-> occurrences]
      /\ UNCHANGED <<findings, occurrences, recorded, suppressions, log>>
  BY DEF Begin
<1>8. tx'.by = e /\ tx'.findings = findings /\ tx'.occurrences = occurrences /\ tx' \in Tracked
  BY <1>1, <1>6, <1>7 DEF Tracked, Phased
<1>9. /\ evaluation' \in [Evaluations -> EvaluationState] /\ evaluation'[e] = ev
      /\ \A d \in Evaluations : d # e => evaluation'[d] = evaluation[d]
  BY <1>1, <1>3, <1>5 DEF Phased
<1>10. Phased'
  BY <1>1, <1>2, <1>3, <1>4, <1>6, <1>7, <1>8, <1>9, NoneAssumption DEF Phased
<1>11. Extended(log, ev, 0) = log
  BY <1>3, <1>4, <1>6, ExtendedStep
<1>12. Recording(findings, occurrences, recorded, log, tx', ev)
  <2>1. ev.next - 1 = 0
    BY <1>3, <1>4
  <2>2. Faithful(tx'.findings, Extended(log, ev, ev.next - 1))
    BY <1>1, <1>8, <1>11, <2>1
  <2>3. Evidence(tx'.findings, tx'.occurrences, recorded, tx'.by)
    BY <1>1, <1>8, NoneAssumption DEF Evidence
  <2>4. ASSUME NEW f \in Fingerprint PROVE Forward(findings[f], tx'.findings[f])
    <3>1. findings[f] \in FindingRow \cup {None}
      BY <1>6 DEF Table
    <3>2. findings[f] # None => findings[f].lastAt \in Nat
      BY <3>1 DEF FindingRow
    <3> QED BY <1>8, <3>2 DEF Forward
  <2> QED BY <1>8, <2>2, <2>3, <2>4 DEF Recording
<1> QED BY <1>1, <1>7, <1>8, <1>9, <1>10, <1>12 DEF IInv

\* What recording an entry may change in a row, and in which direction.
LEMMA RowStep ==
    ASSUME NEW t \in Table, NEW x \in Entry, NEW f \in Fingerprint
    PROVE  /\ Recorded(t, x)[f] # t[f] =>
                 /\ ~x.result.error /\ f.scope = x.scan.scope
                 /\ f.control = x.query \/ RowControl[<<x.query, f.resource>>] = f.control
           /\ Forward(t[f], Recorded(t, x)[f])
           /\ Recorded(t, x)[f] # None =>
                 \/ f \in Reports(x) /\ Recorded(t, x)[f].lastScan = x.scan.id
                 \/ t[f] # None /\ Recorded(t, x)[f].lastScan = t[f].lastScan
<1> DEFINE u == Recorded(t, x)
<1>1. t \in Table /\ x \in Entry
  OBVIOUS
<1>2. t[f] \in FindingRow \cup {None} /\ x.scan \in Scans /\ x.scan.start \in Nat
  BY <1>1, ScanFacts DEF Table, Entry
<1>3. t[f] # None => t[f].lastAt \in Nat
  BY <1>2 DEF FindingRow
<1>4. /\ f \in Reports(x) => u[f] = upsert(t[f], x.scan, RowCount(f, x.result))
      /\ Resolves(t, x, f) => u[f] = Resolved(t[f], x.scan)
      /\ f \notin Reports(x) /\ ~Resolves(t, x, f) => u[f] = t[f]
  BY RecordedFacts
<1> HIDE DEF u
<1>5. CASE f \in Reports(x)
  <2> DEFINE c == RowCount(f, x.result)
             new == upsert(t[f], x.scan, c)
  <2>1. /\ c \in Nat \ {0} /\ ~x.result.error /\ f.scope = x.scan.scope
        /\ RowControl[<<x.query, f.resource>>] = f.control
    BY <1>5, ReportsFacts
  <2> HIDE DEF c
  <2>2. new \in FindingRow
    BY <1>2, <2>1, UpsertFacts
  <2>3. t[f] = None \/ x.scan.start >= t[f].lastAt =>
           new.lastScan = x.scan.id /\ new.lastAt = x.scan.start
    BY <1>2, <2>1, UpsertFacts
  <2>4. t[f] # None /\ x.scan.start >= t[f].lastAt => new.firstScan = t[f].firstScan
    BY <1>2, <2>1, UpsertFacts
  <2>5. t[f] # None /\ ~(x.scan.start >= t[f].lastAt) => new = t[f]
    BY <1>2, <2>1, UpsertFacts
  <2>6. u[f] = new
    BY <1>4, <1>5 DEF c
  <2>7. new # None
    BY <2>2, NoneAssumption
  <2> HIDE DEF new
  <2> QED BY <1>2, <1>3, <1>5, <2>1, <2>3, <2>4, <2>5, <2>6, <2>7 DEF Forward, u
<1>6. CASE Resolves(t, x, f)
  <2>1. /\ t[f] \in FindingRow /\ t[f] # None /\ f.control = x.query /\ f.scope = x.scan.scope
        /\ ~x.result.error
    BY <1>2, <1>6 DEF Resolves
  <2>2. /\ u[f] \in FindingRow /\ u[f].lastAt = t[f].lastAt
        /\ u[f].lastScan = t[f].lastScan /\ u[f].firstScan = t[f].firstScan
    BY <1>2, <1>4, <1>6, <2>1, ResolvedFacts
  <2>3. u[f] # None
    BY <2>2, NoneAssumption
  <2> QED BY <1>3, <2>1, <2>2, <2>3 DEF Forward, u
<1>7. CASE f \notin Reports(x) /\ ~Resolves(t, x, f)
  BY <1>3, <1>4, <1>7 DEF Forward, u
<1> QED BY <1>5, <1>6, <1>7

\* The transaction after one more result: the tables, whatever became of the counters.
LEMMA RecordingStep ==
    ASSUME NEW ev, ev.scan \in Scans, ev.results \in [DOMAIN Queries -> Result],
           ev.next \in 1..Len(Queries), NEW e \in Evaluations, NEW x, x.by = e,
           findings \in Table, log \in Seq(Entry),
           x.occurrences \subseteq Evaluations \X Fingerprint \X ScanIds,
           Recording(findings, occurrences, recorded, log, x, ev),
           NEW y, y.by = e, y.findings = Recorded(x.findings, Entries(ev)[ev.next]),
           y.occurrences = x.occurrences \cup
               {<<e, f, ev.scan.id>> : f \in Reports(Entries(ev)[ev.next])},
           NEW fw, fw.scan = ev.scan, fw.results = ev.results, fw.next = ev.next + 1
    PROVE  Recording(findings, occurrences, recorded, log, y, fw)
<1> DEFINE n == ev.next - 1
           z == Entries(ev)[ev.next]
<1>1. n \in Nat /\ n < Len(Queries) /\ ev.next = n + 1 /\ fw.next - 1 = n + 1
      /\ ev.next - 1 = n
  BY QueriesAssumption
<1> HIDE DEF n
<1>2. /\ z \in Entry /\ z.query = Queries[ev.next] /\ z.scan = ev.scan
      /\ z.result = ev.results[ev.next]
  <2>1. ev.next \in DOMAIN Queries
    BY QueriesAssumption
  <2> QED BY <2>1, EntriesType DEF Entries
<1>3. Extended(log, fw, n + 1) = Extended(log, ev, n + 1)
  BY DEF Extended, Entries
<1>4. Extended(log, ev, n + 1) = Append(Extended(log, ev, n), z)
  BY <1>1, ExtendedStep DEF z
<1>5. Faithful(x.findings, Extended(log, ev, n)) /\ x.findings \in Table
  BY <1>1 DEF Recording, Faithful, Agrees
<1> HIDE DEF z
<1>6. y.findings = Recorded(x.findings, z) /\ y.occurrences =
         x.occurrences \cup {<<e, f, z.scan.id>> : f \in Reports(z)}
  BY <1>2 DEF z
<1>7. Faithful(y.findings, Extended(log, fw, fw.next - 1))
  <2>1. Faithful(Recorded(x.findings, z), Append(Extended(log, ev, n), z))
    BY <1>2, <1>5, FaithfulStep
  <2>2. Extended(log, fw, fw.next - 1) = Append(Extended(log, ev, n), z)
    BY <1>1, <1>3, <1>4
  <2> QED BY <1>6, <2>1, <2>2
<1>8. Evidence(y.findings, y.occurrences, recorded, y.by)
  <2> SUFFICES ASSUME NEW f \in Fingerprint, y.findings[f] # None
               PROVE  \E d \in Evaluations : /\ <<d, f, y.findings[f].lastScan>> \in y.occurrences
                                             /\ recorded[d] # None \/ d = y.by
    BY DEF Evidence
  <2>1. CASE f \in Reports(z) /\ y.findings[f].lastScan = z.scan.id
    BY <1>6, <2>1
  <2>2. CASE x.findings[f] # None /\ y.findings[f].lastScan = x.findings[f].lastScan
    <3>1. PICK d \in Evaluations : /\ <<d, f, x.findings[f].lastScan>> \in x.occurrences
                                   /\ recorded[d] # None \/ d = x.by
      BY <2>2 DEF Recording, Evidence
    <3>2. x.occurrences \subseteq y.occurrences /\ x.by = y.by
      BY <1>6
    <3>3. <<d, f, y.findings[f].lastScan>> \in x.occurrences
      BY <2>2, <3>1
    <3>4. <<d, f, y.findings[f].lastScan>> \in y.occurrences
      BY <3>2, <3>3
    <3>5. recorded[d] # None \/ d = y.by
      BY <3>1, <3>2
    <3> QED BY <3>4, <3>5
  <2>3. \/ f \in Reports(z) /\ y.findings[f].lastScan = z.scan.id
        \/ x.findings[f] # None /\ y.findings[f].lastScan = x.findings[f].lastScan
    <3>1. Recorded(x.findings, z)[f] # None =>
             \/ f \in Reports(z) /\ Recorded(x.findings, z)[f].lastScan = z.scan.id
             \/ x.findings[f] # None /\ Recorded(x.findings, z)[f].lastScan = x.findings[f].lastScan
      BY <1>2, <1>5, RowStep
    <3> QED BY <1>6, <3>1
  <2> QED BY <2>1, <2>2, <2>3
<1>9. ASSUME NEW f \in Fingerprint
      PROVE  /\ y.findings[f] # findings[f] => ChangedBy(f, fw, fw.next - 1)
             /\ Forward(findings[f], y.findings[f])
  <2>1. /\ x.findings[f] # findings[f] => ChangedBy(f, ev, n)
        /\ Forward(findings[f], x.findings[f])
    BY <1>1 DEF Recording
  <2>2. /\ y.findings[f] # x.findings[f] =>
              /\ ~z.result.error /\ f.scope = z.scan.scope
              /\ f.control = z.query \/ RowControl[<<z.query, f.resource>>] = f.control
        /\ Forward(x.findings[f], y.findings[f])
    BY <1>2, <1>5, <1>6, RowStep
  <2>3. ASSUME ChangedBy(f, ev, n) PROVE ChangedBy(f, fw, n + 1)
    <3>1. PICK i \in 1..n : /\ f.scope = ev.scan.scope
                            /\ ~ev.results[i].error
                            /\ f.control = Queries[i]
                               \/ RowControl[<<Queries[i], f.resource>>] = f.control
      BY <2>3 DEF ChangedBy
    <3>2. i \in 1..n + 1
      BY <1>1, <3>1
    <3>3. f.scope = fw.scan.scope /\ ~fw.results[i].error
      BY <3>1
    <3> QED BY <3>1, <3>2, <3>3 DEF ChangedBy
  <2>4. y.findings[f] # x.findings[f] => ChangedBy(f, fw, n + 1)
    <3>1. n + 1 \in 1..n + 1
      BY <1>1
    <3> QED BY <1>1, <1>2, <2>2, <3>1 DEF ChangedBy
  <2>5. y.findings[f] # findings[f] => ChangedBy(f, fw, fw.next - 1)
    BY <1>1, <2>1, <2>3, <2>4
  <2>6. Forward(findings[f], y.findings[f])
    <3>1. findings[f] \in FindingRow \cup {None} /\ x.findings[f] \in FindingRow \cup {None}
          /\ y.findings[f] \in FindingRow \cup {None}
      <4>1. y.findings \in Table
        BY <1>2, <1>5, <1>6, RecordedFacts
      <4> QED BY <1>5, <4>1 DEF Table
    <3>2. /\ findings[f] # None => findings[f].lastAt \in Nat
          /\ x.findings[f] # None => x.findings[f].lastAt \in Nat
          /\ y.findings[f] # None => y.findings[f].lastAt \in Nat
      BY <3>1 DEF FindingRow
    <3> QED BY <2>1, <2>2, <3>2 DEF Forward
  <2> QED BY <2>5, <2>6
<1> QED BY <1>7, <1>8, <1>9 DEF Recording

\* How many findings a result opens, refreshes and resolves is a number.
LEMMA CountersType ==
    ASSUME NEW t \in Table, NEW q \in QueryIds, NEW scan \in Scans, NEW result \in Result,
           ~result.error
    PROVE  LET o == Observed(q, result, scan)
               new == {f \in o : t[f] = None}
           IN  /\ Cardinality(new) \in Nat
               /\ RecurredRows(result, new) \in Int
               /\ \A u : Cardinality(Absent(u, q, scan, o)) \in Nat
<1> DEFINE o == Observed(q, result, scan)
           new == {f \in o : t[f] = None}
<1>1. IsFiniteSet(Resources) /\ MaxRows \in Nat
  BY QueriesAssumption
<1>2. IsFiniteSet(o)
  <2> DEFINE h == [r \in Reported(result) |-> findingFingerprint(q, r, scan)]
  <2>1. IsFiniteSet(Reported(result))
    BY <1>1, FS_Subset DEF Reported
  <2>2. h \in Surjection(Reported(result), o)
    BY DEF Surjection, Observed
  <2> QED BY <2>1, <2>2, FS_Surjection
<1>3. IsFiniteSet(new)
  BY <1>2, FS_Subset
<1>4. Cardinality(new) \in Nat
  BY <1>3, FS_CardinalityType
<1>5. TotalRows(result) \in Nat
  <2>1. IsFiniteSet(1..MaxRows)
    BY <1>1, FS_Interval
  <2>2. IsFiniteSet(Resources \X (1..MaxRows))
    BY <1>1, <2>1, FS_Product
  <2>3. IsFiniteSet({p \in Resources \X (1..MaxRows) : p[2] <= result.rows[p[1]]})
    BY <2>2, FS_Subset
  <2> QED BY <2>3, FS_CardinalityType DEF TotalRows
<1>6. RecurredRows(result, new) \in Int
  BY <1>4, <1>5 DEF RecurredRows
<1>7. ASSUME NEW u PROVE Cardinality(Absent(u, q, scan, o)) \in Nat
  <2> DEFINE S == {f \in Fingerprint : f.control = q /\ f.scope = scan.scope}
             h == [r \in Resources |-> [control |-> q, resource |-> r, scope |-> scan.scope]]
  <2>1. h \in Surjection(Resources, S)
    <3>1. q \in Controls /\ scan.scope \in Scopes
      BY QueryIdsAreControls, ScanFacts
    <3>2. ASSUME NEW r \in Resources PROVE h[r] \in S
      BY <3>1 DEF Fingerprint
    <3>3. ASSUME NEW f \in S PROVE \E r \in Resources : h[r] = f
      <4>1. f.resource \in Resources /\ f = [control |-> q, resource |-> f.resource, scope |-> scan.scope]
        BY DEF Fingerprint
      <4> QED BY <4>1
    <3> QED BY <3>2, <3>3 DEF Surjection
  <2>2. IsFiniteSet(S)
    BY <1>1, <2>1, FS_Surjection
  <2>3. IsFiniteSet(Absent(u, q, scan, o))
    <3>1. Absent(u, q, scan, o) \subseteq S
      BY DEF Absent
    <3> QED BY <2>2, <3>1, FS_Subset
  <2> QED BY <2>3, FS_CardinalityType
<1> QED BY <1>4, <1>6, <1>7

\* The parts of Record.
LEMMA RecordParts ==
    ASSUME NEW e, Record(e)
    PROVE  LET ev == evaluation[e]
               q == Queries[ev.next]
               result == ev.results[ev.next]
               o == Observed(q, result, ev.scan)
               new == {f \in o : tx.findings[f] = None}
               upserted == upsertFindings(tx.findings, q, result, ev.scan)
           IN  /\ ev.pc = "recording"
               /\ ev.next <= Len(Queries)
               /\ UNCHANGED <<findings, occurrences, recorded, suppressions, log>>
               /\ result.error =>
                     /\ evaluation' = [evaluation EXCEPT ![e].next = @ + 1]
                     /\ tx' = tx
               /\ ~result.error =>
                     /\ tx' = [tx EXCEPT
                            !.findings = resolveAbsent(upserted, q, result, ev.scan),
                            !.occurrences = @ \cup insertOccurrences(e, ev.scan, o, new)]
                     /\ evaluation' = [evaluation EXCEPT
                            ![e].next = @ + 1,
                            ![e].opened = @ + Cardinality(new),
                            ![e].recurred = @ + RecurredRows(result, new),
                            ![e].resolved = @ + Cardinality(Absent(upserted, q, ev.scan, o))]
  BY ZenonT(60) DEF Record

\* A result is recorded, or skipped because its control failed.
LEMMA RecordInv ==
    ASSUME IInv, NEW e \in Evaluations, Record(e)
    PROVE  IInv'
<1> DEFINE ev == evaluation[e]
           fw == evaluation'[e]
           x == Entries(ev)[ev.next]
<1>1. Phased /\ Faithful(findings, log) /\ Evidence(findings, occurrences, recorded, None)
  BY DEF IInv
<1>2. /\ ev \in EvaluationState /\ ev.pc = "recording" /\ tx.by = e
      /\ ev.scan \in Scans /\ ev.scan.complete /\ ev.results \in [DOMAIN Queries -> Result]
  <2>1. ev.pc = "recording"
    BY RecordParts, Zenon
  <2> QED BY <1>1, <2>1 DEF Phased
<1>3. Recording(findings, occurrences, recorded, log, tx, ev)
  BY <1>2, NoneAssumption DEF IInv
<1>4. ev.next \in 1..Len(Queries) /\ ev.next \in DOMAIN Queries /\ Len(Queries) \in Nat
  <2>1. Len(Queries) \in Nat /\ DOMAIN Queries = 1..Len(Queries)
    BY QueriesAssumption
  <2>2. ev.next \in 1..Len(Queries) + 1
    BY <1>2 DEF EvaluationState
  <2>3. ev.next <= Len(Queries)
    BY RecordParts, Zenon
  <2> QED BY <2>1, <2>2, <2>3
<1>5. /\ x \in Entry /\ x.query = Queries[ev.next] /\ x.scan = ev.scan
      /\ x.result = ev.results[ev.next]
  BY <1>2, <1>4, EntriesType DEF Entries
<1>6. /\ findings \in Table /\ log \in Seq(Entry) /\ tx \in Tracked
      /\ tx.findings \in Table /\ tx.occurrences \subseteq Evaluations \X Fingerprint \X ScanIds
  <2>1. findings \in Table /\ log \in Seq(Entry)
    BY <1>1 DEF Faithful, Agrees
  <2>2. tx \in Tracked /\ tx.findings \in Table
    BY <1>1, <1>2, NoneAssumption DEF Phased
  <2> QED BY <2>1, <2>2 DEF Tracked
<1>7. UNCHANGED <<findings, occurrences, recorded, suppressions, log>>
  BY RecordParts, Zenon
<1>8. /\ evaluation' \in [Evaluations -> EvaluationState]
      /\ \A d \in Evaluations : d # e => evaluation'[d] = evaluation[d]
      /\ fw.pc = "recording" /\ fw.scan = ev.scan /\ fw.results = ev.results
      /\ fw.next = ev.next + 1
  <2>1. CASE x.result.error
    <3> DEFINE v == [ev EXCEPT !.next = @ + 1]
    <3>1. evaluation' = [evaluation EXCEPT ![e] = v]
      <4>1. evaluation' = [evaluation EXCEPT ![e].next = @ + 1]
        BY <1>5, <2>1, RecordParts, Zenon
      <4> QED BY <1>1, <4>1 DEF Phased
    <3>2. /\ v \in EvaluationState /\ v.pc = ev.pc /\ v.scan = ev.scan
          /\ v.results = ev.results /\ v.next = ev.next + 1
      BY <1>2, <1>4 DEF EvaluationState
    <3> HIDE DEF v
    <3> QED BY <1>1, <1>2, <3>1, <3>2 DEF Phased
  <2>2. CASE ~x.result.error
    <3> DEFINE o == Observed(x.query, x.result, x.scan)
               new == {f \in o : tx.findings[f] = None}
               u == upsertFindings(tx.findings, x.query, x.result, x.scan)
               a == Cardinality(new)
               b == RecurredRows(x.result, new)
               c == Cardinality(Absent(u, x.query, x.scan, o))
               v == [ev EXCEPT !.next = @ + 1, !.opened = @ + a, !.recurred = @ + b,
                               !.resolved = @ + c]
    <3>1. evaluation' = [evaluation EXCEPT ![e].next = @ + 1, ![e].opened = @ + a,
                                           ![e].recurred = @ + b, ![e].resolved = @ + c]
      BY <1>5, <2>2, RecordParts, Zenon
    <3>2. x.query \in QueryIds /\ x.scan \in Scans /\ x.result \in Result
      BY <1>5 DEF Entry
    <3>3. a \in Nat /\ b \in Int /\ c \in Nat
      BY <1>6, <2>2, <3>2, CountersType
    <3> HIDE DEF a, b, c, u, new, o
    <3>4. evaluation' = [evaluation EXCEPT ![e] = v]
      BY <1>1, <3>1 DEF Phased
    <3>5. /\ ev.next + 1 \in 1..Len(Queries) + 1 /\ ev.opened + a \in Nat
          /\ ev.recurred + b \in Int /\ ev.resolved + c \in Nat
      <4>1. ev.opened \in Nat /\ ev.recurred \in Int /\ ev.resolved \in Nat
        BY <1>2 DEF EvaluationState
      <4>2. ev.next + 1 \in 1..Len(Queries) + 1
        BY <1>4
      <4> QED BY <3>3, <4>1, <4>2
    <3> HIDE DEF a, b, c
    <3>6. /\ v \in EvaluationState /\ v.pc = ev.pc /\ v.scan = ev.scan
          /\ v.results = ev.results /\ v.next = ev.next + 1
      BY <1>2, <3>5 DEF EvaluationState
    <3> HIDE DEF v
    <3> QED BY <1>1, <1>2, <3>4, <3>6 DEF Phased
  <2> QED BY <2>1, <2>2
<1>9. /\ tx'.by = e /\ tx'.findings = Recorded(tx.findings, x)
      /\ tx'.occurrences = tx.occurrences \cup {<<e, f, ev.scan.id>> : f \in Reports(x)}
      /\ tx' = [by |-> tx'.by, findings |-> tx'.findings, occurrences |-> tx'.occurrences]
  <2>1. CASE x.result.error
    <3>1. tx' = tx
      BY <1>5, <2>1, RecordParts, Zenon
    <3>2. Recorded(tx.findings, x) = tx.findings /\ Reports(x) = {}
      BY <2>1 DEF Recorded, Reports
    <3>3. tx = [by |-> tx.by, findings |-> tx.findings, occurrences |-> tx.occurrences]
      BY <1>6 DEF Tracked
    <3> QED BY <1>2, <3>1, <3>2, <3>3
  <2>2. CASE ~x.result.error
    <3> DEFINE t == resolveAbsent(upsertFindings(tx.findings, x.query, x.result, x.scan),
                                  x.query, x.result, x.scan)
               occ == tx.occurrences \cup {<<e, f, ev.scan.id>> : f \in Reports(x)}
    <3>1. tx' = [tx EXCEPT !.findings = t, !.occurrences = occ]
      <4> DEFINE q == Queries[ev.next]
                 result == ev.results[ev.next]
                 o == Observed(q, result, ev.scan)
                 new == {f \in o : tx.findings[f] = None}
                 g == resolveAbsent(upsertFindings(tx.findings, q, result, ev.scan),
                                    q, result, ev.scan)
      <4>1. ~result.error
        BY <1>5, <2>2
      <4>2. tx' = [tx EXCEPT !.findings = g,
                             !.occurrences = @ \cup insertOccurrences(e, ev.scan, o, new)]
        BY <4>1, RecordParts, Zenon
      <4>3. g = t /\ Reports(x) = o
        BY <1>5, <2>2 DEF Reports
      <4> HIDE DEF t, g, o, new, x
      <4>4. insertOccurrences(e, ev.scan, o, new) = {<<e, f, ev.scan.id>> : f \in Reports(x)}
        BY <4>3 DEF insertOccurrences
      <4>5. tx.occurrences \cup insertOccurrences(e, ev.scan, o, new) = occ
        BY <4>4
      <4> HIDE DEF occ
      <4> QED BY <4>2, <4>3, <4>5
    <3>2. t = Recorded(tx.findings, x)
      BY <2>2 DEF Recorded
    <3> HIDE DEF t, occ
    <3>3. tx' = [by |-> tx.by, findings |-> t, occurrences |-> occ]
      BY <1>6, <3>1 DEF Tracked
    <3>4. tx'.by = tx.by /\ tx'.findings = t /\ tx'.occurrences = occ
      BY <3>3
    <3> QED BY <1>2, <3>2, <3>3, <3>4 DEF occ
  <2> QED BY <2>1, <2>2
<1>10. tx' \in Tracked /\ tx'.findings \in Table
  <2>1. tx'.findings \in Table
    BY <1>5, <1>6, <1>9, RecordedFacts
  <2>2. tx'.occurrences \subseteq Evaluations \X Fingerprint \X ScanIds
    <3>1. \A f \in Reports(x) : f \in Fingerprint
      BY <1>5, ReportsFacts
    <3>2. ev.scan.id \in ScanIds
      BY <1>2, ScanFacts
    <3> QED BY <1>6, <1>9, <3>1, <3>2
  <2> QED BY <1>9, <2>1, <2>2 DEF Tracked
<1>11. Phased'
  BY <1>1, <1>2, <1>7, <1>8, <1>9, <1>10 DEF Phased
<1> HIDE DEF ev, fw, x
<1>12. Recording(findings, occurrences, recorded, log, tx', fw)
  BY <1>2, <1>3, <1>4, <1>6, <1>8, <1>9, RecordingStep DEF x
<1> QED BY <1>1, <1>7, <1>9, <1>11, <1>12 DEF IInv, fw

\* The whole evaluation is committed: its log is the one of the transaction.
LEMMA CommitInv ==
    ASSUME IInv, NEW e \in Evaluations, Commit(e)
    PROVE  /\ IInv'
           /\ tx.by = e /\ findings' = tx.findings
           /\ evaluation[e].scan.complete /\ evaluation[e].next - 1 = Len(Queries)
<1> DEFINE ev == evaluation[e]
           row == [scan |-> ev.scan.id, status |-> StatusOf(ev.results)]
<1>1. Phased
  BY DEF IInv
<1>2. /\ ev \in EvaluationState /\ ev.pc = "recording" /\ tx.by = e
      /\ ev.scan \in Scans /\ ev.scan.complete /\ ev.results \in [DOMAIN Queries -> Result]
  BY <1>1 DEF Commit, Phased
<1>3. Recording(findings, occurrences, recorded, log, tx, ev)
  BY <1>2, NoneAssumption DEF IInv
<1>4. ev.next - 1 = Len(Queries) /\ DOMAIN Queries = 1..Len(Queries)
  <2>1. Len(Queries) \in Nat /\ DOMAIN Queries = 1..Len(Queries)
    BY QueriesAssumption
  <2>2. ev.next \in 1..Len(Queries) + 1
    BY <1>2 DEF EvaluationState
  <2>3. ev.next > Len(Queries)
    BY DEF Commit
  <2> QED BY <2>1, <2>2, <2>3
<1>5. /\ findings' = tx.findings /\ occurrences' = tx.occurrences
      /\ recorded' = [recorded EXCEPT ![e] = row]
      /\ tx' = NoTx /\ suppressions' = suppressions
      /\ log' = log \o Entries(ev)
  BY DEF Commit, Entries
<1>6. row \in EvaluationRow /\ row # None
  <2>1. ev.scan.id \in ScanIds
    BY <1>2, ScanFacts
  <2>2. StatusOf(ev.results) \in {"completed", "partial", "failed"}
    BY DEF StatusOf
  <2>3. row \in EvaluationRow
    BY <2>1, <2>2 DEF EvaluationRow
  <2> QED BY <2>3, NoneAssumption
<1> HIDE DEF row
<1>7. log' = Extended(log, ev, Len(Queries))
  <2>1. Entries(ev) = [i \in 1..Len(Queries) |-> Entries(ev)[i]]
    BY <1>4 DEF Entries
  <2> QED BY <1>5, <2>1 DEF Extended
<1>8. Faithful(tx.findings, log') /\ Evidence(tx.findings, tx.occurrences, recorded, e)
  BY <1>2, <1>3, <1>4, <1>7 DEF Recording
<1>9. /\ recorded' \in [Evaluations -> EvaluationRow \cup {None}]
      /\ recorded'[e] # None
      /\ \A d \in Evaluations : recorded[d] # None => recorded'[d] # None
  BY <1>1, <1>5, <1>6 DEF Phased
<1>10. Evidence(findings', occurrences', recorded', None)
  BY <1>5, <1>8, <1>9 DEF Evidence
<1>11. Faithful(findings', log')
  BY <1>5, <1>8
<1>12. tx' \in Tracked /\ tx'.by = None
  BY <1>5 DEF NoTx, Tracked
<1>13. /\ evaluation' \in [Evaluations -> EvaluationState] /\ evaluation'[e].pc = "done"
       /\ \A d \in Evaluations : d # e => evaluation'[d] = evaluation[d]
  <2> DEFINE v == [ev EXCEPT !.pc = "done"]
  <2>1. v \in EvaluationState /\ v.pc = "done"
    BY <1>2 DEF EvaluationState
  <2>2. evaluation' = [evaluation EXCEPT ![e] = v]
    BY <1>1 DEF Commit, Phased
  <2> HIDE DEF v
  <2> QED BY <1>1, <2>1, <2>2 DEF Phased
<1>14. occurrences' \subseteq Evaluations \X Fingerprint \X ScanIds
  BY <1>1, <1>5 DEF Phased, Tracked
<1>15. Phased'
  <2>1. ASSUME NEW d \in Evaluations PROVE evaluation'[d].pc # "recording" /\ d # None
    BY <1>1, <1>2, <1>13, NoneAssumption DEF Phased
  <2>2. ASSUME NEW d \in Evaluations
        PROVE  /\ evaluation'[d].pc \in {"loaded", "executed"} =>
                     evaluation'[d].scan \in Scans /\ evaluation'[d].scan.complete
               /\ evaluation'[d].pc = "executed" =>
                     evaluation'[d].results \in [DOMAIN Queries -> Result]
               /\ evaluation'[d].pc \in {"new", "loaded", "executed"} => evaluation'[d].next = 1
    BY <1>1, <1>13 DEF Phased
  <2>3. suppressions' \in [Suppressions -> Fingerprint \cup {None}]
    BY <1>1, <1>5 DEF Phased
  <2> QED BY <1>9, <1>12, <1>13, <1>14, <2>1, <2>2, <2>3 DEF Phased
<1>16. IInv'
  BY <1>10, <1>11, <1>12, <1>15 DEF IInv
<1> QED BY <1>2, <1>4, <1>5, <1>16

\* Every step keeps the invariant.
LEMMA NextInv ==
    ASSUME IInv, [Next]_vars
    PROVE  IInv'
<1>1. ASSUME NEW e \in Evaluations, Evaluate(e) PROVE IInv'
  BY <1>1, LoadInv, ExecuteInv, BeginInv, RecordInv, CommitInv, AbortInv DEF Evaluate
<1>2. ASSUME UNCHANGED vars PROVE IInv'
  BY <1>2 DEF vars, IInv, Phased
<1>3. ASSUME NEW f \in Fingerprint, NEW i \in Suppressions, Suppress(f, i) PROVE IInv'
  BY <1>3, SuppressInv
<1>4. ASSUME NEW f \in Fingerprint, Unsuppress(f) PROVE IInv'
  BY <1>4, UnsuppressInv
<1>5. ASSUME NEW i \in Suppressions, Expire(i) PROVE IInv'
  BY <1>5, ExpireInv
<1> QED BY <1>1, <1>2, <1>3, <1>4, <1>5 DEF Next

\* Every reachable state satisfies the inductive invariant.
THEOREM Invariance == Spec => []IInv
  BY InitInv, NextInv, PTL DEF Spec

-----------------------------------------------------------------------------
(* The properties *)

\* The tables and the evaluations of the model stay well typed, whatever fails
\* and in whatever order transactions commit.
THEOREM TypeCorrect == Spec => []TypeOK
<1>1. ASSUME IInv PROVE TypeOK
  <2>1. Phased /\ findings \in Table
    BY <1>1 DEF IInv, Faithful, Agrees
  <2>2. ASSUME NEW e \in Evaluations
        PROVE  /\ evaluation[e].pc \in {"new", "loaded", "executed", "recording", "done", "error"}
               /\ evaluation[e].scan \in Scans \cup {None}
               /\ evaluation[e].next \in 1..Len(Queries) + 1
    BY <2>1 DEF Phased, EvaluationState
  <2>3. tx.by \in Evaluations \cup {None}
    BY <2>1 DEF Phased, Tracked
  <2> QED BY <2>1, <2>2, <2>3 DEF TypeOK, Phased, Table
<1> QED BY <1>1, Invariance, PTL

\* Every stored finding can be traced to an occurrence of the scan it was last
\* seen in, made by an evaluation on record, and its resolution is not dated
\* before that sighting: the rows upsertFindings, resolveAbsent and the commit of
\* RecordEvaluation leave behind agree, whichever transactions were rolled back.
THEOREM EveryFindingHasEvidence == Spec => []FindingsHaveEvidence
<1>1. ASSUME IInv PROVE FindingsHaveEvidence
  <2>1. Agrees(findings, log) /\ Evidence(findings, occurrences, recorded, None)
    BY <1>1 DEF IInv, Faithful
  <2> QED BY <2>1, NoneAssumption DEF Agrees, Evidence, FindingsHaveEvidence
<1> QED BY <1>1, Invariance, PTL

\* As long as no query's rows carry the control id of another query of the pack, a
\* finding the latest evaluated scan of its scope reports is open, in whatever
\* order scans are evaluated: the comparison with last_seen_at in the upsert and
\* in resolveAbsent is enough.
THEOREM LatestSightingWins == RowsNameTheirQuery => (Spec => []SeenByLatestIsOpen)
<1> SUFFICES ASSUME RowsNameTheirQuery PROVE Spec => []SeenByLatestIsOpen
  OBVIOUS
<1>1. ASSUME IInv PROVE SeenByLatestIsOpen
  BY <1>1 DEF IInv, Faithful, SeenByLatestIsOpen
<1> QED BY <1>1, Invariance, PTL

\* As long as rows carry the control id of their query and scans are evaluated in
\* the order they started, the open findings of a control and scope are exactly
\* those its latest successful result reports, and occurrence counts are the
\* number of rows ever recorded.
THEOREM InOrderIsExact == RowsAreOwn => (Spec => []InOrderEvaluationIsExact)
<1> SUFFICES ASSUME RowsAreOwn PROVE Spec => []InOrderEvaluationIsExact
  OBVIOUS
<1>1. ASSUME IInv PROVE InOrderEvaluationIsExact
  <2>1. ExactInv(findings, log) /\ log \in Seq(Entry)
    BY <1>1 DEF IInv, Faithful, Agrees
  <2>2. ASSUME NEW k \in DOMAIN log, NEW f \in Reportable(log, k) PROVE f \in Fingerprint
    BY <2>1, ReportableFacts
  <2> QED BY <2>1, <2>2 DEF ExactInv, InOrderEvaluationIsExact, Exact
<1> QED BY <1>1, Invariance, PTL

\* Only a commit changes the findings table, and what it changes is what the results
\* of its evaluation account for.
LEMMA TableStep ==
    ASSUME IInv, [Next]_vars, NEW f \in Fingerprint
    PROVE  /\ Forward(findings[f], findings'[f])
           /\ findings'[f] # findings[f] =>
                 \E e \in Evaluations, i \in DOMAIN Queries :
                     /\ tx.by = e
                     /\ evaluation[e].scan.complete
                     /\ f.scope = evaluation[e].scan.scope
                     /\ ~evaluation[e].results[i].error
                     /\ f.control = Queries[i] \/ RowControl[<<Queries[i], f.resource>>] = f.control
<1>1. findings \in Table
  BY DEF IInv, Faithful, Agrees
<1>2. findings[f] # None => findings[f].lastAt \in Nat
  <2>1. findings[f] \in FindingRow \cup {None}
    BY <1>1 DEF Table
  <2> QED BY <2>1 DEF FindingRow
<1>3. CASE \E e \in Evaluations : Commit(e)
  <2>1. PICK e \in Evaluations : Commit(e)
    BY <1>3
  <2>2. /\ tx.by = e /\ findings' = tx.findings
        /\ evaluation[e].scan.complete /\ evaluation[e].next - 1 = Len(Queries)
    BY <2>1, CommitInv
  <2>3. Recording(findings, occurrences, recorded, log, tx, evaluation[e])
    BY <2>2, NoneAssumption DEF IInv
  <2>4. /\ tx.findings[f] # findings[f] => ChangedBy(f, evaluation[e], Len(Queries))
        /\ Forward(findings[f], tx.findings[f])
    BY <2>2, <2>3 DEF Recording
  <2>5. DOMAIN Queries = 1..Len(Queries)
    BY QueriesAssumption
  <2> QED BY <2>2, <2>4, <2>5 DEF ChangedBy
<1>4. CASE ~\E e \in Evaluations : Commit(e)
  <2>1. ASSUME NEW e \in Evaluations, Record(e) PROVE findings' = findings
    BY <2>1, RecordParts, Zenon
  <2>2. findings' = findings
    BY <1>4, <2>1 DEF Next, Evaluate, Load, Execute, Begin, Abort, Suppress, Unsuppress,
                      Expire, vars
  <2> QED BY <1>2, <2>2 DEF Forward
<1> QED BY <1>3, <1>4

\* An evaluation opens, refreshes or resolves only findings of its scan's scope whose
\* control ran without error, and only for a completed snapshot: nothing recorded
\* for a partial scan or for a failed control reaches the table.
THEOREM OnlyObservedChange == Spec => OnlyObservedFindingsChange
<1>1. ASSUME IInv, [Next]_vars
      PROVE  [\A f \in Fingerprint : findings'[f] # findings[f] =>
                \E e \in Evaluations, i \in DOMAIN Queries :
                    /\ tx.by = e
                    /\ evaluation[e].scan.complete
                    /\ f.scope = evaluation[e].scan.scope
                    /\ ~evaluation[e].results[i].error
                    /\ f.control = Queries[i]
                       \/ RowControl[<<Queries[i], f.resource>>] = f.control]_vars
  BY <1>1, TableStep
<1> QED BY <1>1, Invariance, PTL DEF Spec, OnlyObservedFindingsChange

\* A finding is never forgotten, keeps the scan that opened it, and its last sighting
\* never moves back, however late an old scan is evaluated.
THEOREM SightingsMoveForward == Spec => LastSeenNeverGoesBack
<1>1. ASSUME IInv, [Next]_vars
      PROVE  [\A f \in Fingerprint : findings[f] # None =>
                /\ findings'[f] # None
                /\ findings'[f].firstScan = findings[f].firstScan
                /\ findings'[f].lastAt >= findings[f].lastAt]_vars
  BY <1>1, TableStep DEF Forward
<1> QED BY <1>1, Invariance, PTL DEF Spec, LastSeenNeverGoesBack

\* Unsuppress revokes every active suppression of a finding: List shows it with the
\* status of its row again, however often it was suppressed.
THEOREM UnsuppressIsComplete == Spec => UnsuppressRestores
<1>1. ASSUME IInv, NEW f \in Fingerprint, Unsuppress(f)
      PROVE  ListedStatus(f)' = findings[f].status
  <2>1. findings' = findings
    BY <1>1 DEF Unsuppress
  <2>2. ASSUME NEW i \in Suppressions PROVE suppressions'[i] # f
    BY <1>1, NoneAssumption DEF Unsuppress
  <2> QED BY <2>1, <2>2 DEF ListedStatus
<1>2. ASSUME IInv
      PROVE  [\A f \in Fingerprint : findings[f] # None /\ Unsuppress(f) =>
                ListedStatus(f)' = findings[f].status]_vars
  BY <1>1, <1>2
<1> QED BY <1>2, Invariance, PTL DEF Spec, UnsuppressRestores

=============================================================================
