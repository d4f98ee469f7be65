---------------------------- MODULE ScanHistory ----------------------------
(***************************************************************************)
(* What corkscrew remembers of a changing cloud.  Scans run concurrently,  *)
(* read their scopes one by one while resources come, change and go, and   *)
(* persist their outcome in one transaction of an exclusive session (app/  *)
(* scan Run and persist, data PersistScanOutcome, db StoreScanOutcome).    *)
(* The history queries and drift read what was committed.                  *)
(*                                                                         *)
(* The executor is taken at its contract (module ScanContract): a scan is  *)
(* complete when every scope answered without errors, though perhaps with  *)
(* notices.  There is one provider; services, names and attributes are     *)
(* folded into the version of a resource, which is what the semantic hash  *)
(* tells apart.  The histories hidden, steady and ever of a scan are the   *)
(* resources its notices hid and those that existed all the time, or at    *)
(* some time, it ran.                                                      *)
(***************************************************************************)
EXTENDS Integers, FiniteSets, Sequences

CONSTANTS
    Scans,      \* scan ids, ordered as the uuids they stand for
    Regions,    \* scopes
    Requests,   \* the sets of scopes a scan may be asked for, hence its scope key
    Resources,  \* records [id, account, region, rank]
    Versions,   \* versions of a resource that exists: positive numbers
    Clouds,     \* what the cloud may hold at first: the version of each resource, or 0
    MaxChanges, \* bound: changes of the cloud
    MaxTime,    \* bound: the clock
    MaxRunning, \* bound: scans that run at a time
    None

ASSUME HistoryAssumption ==
    /\ Scans \subseteq Nat
    /\ MaxChanges \in Nat /\ MaxTime \in Nat /\ MaxRunning \in Nat
    /\ \E n \in Scans \cup {0} : \A s \in Scans : s <= n
    /\ IsFiniteSet(Resources)
    /\ Versions \subseteq Nat \ {0}
    /\ Clouds \subseteq [Resources -> Versions \cup {0}]
    /\ Requests \subseteq SUBSET Regions
    /\ \A r \in Resources : r.region \in Regions /\ r.rank \in Nat
    /\ \A r, q \in Resources : r.rank = q.rank => r = q

\* A row of resource_observations or of the resource table.
Row == [resource : Resources, version : Versions]

\* A row of scan_metadata.
MetadataRow ==
    [start : 0..MaxTime, end : 0..MaxTime, status : {"completed", "partial", "failed"},
     scope : SUBSET Regions, complete : BOOLEAN, total : Nat,
     counts : [new : Nat, updated : Nat, deleted : Nat]]

ASSUME NoneAssumption == None \notin Scans \cup Row \cup MetadataRow

VARIABLES
    cloud,        \* cloud[r]: the version of r, 0 while it does not exist
    changes,      \* how often the cloud changed
    clock,
    scan,         \* scan[s]: the process running scan s
    session,      \* the scan whose session has the database open, or None
    tx,           \* the tables as the open transaction sees them
    metadata,     \* scan_metadata, by scan id
    observations, \* resource_observations: observations[s][id]
    current,      \* the provider's resource table, by resource id
    commits       \* history: the scans stored, in commit order

vars == <<cloud, changes, clock, scan, session, tx, metadata, observations, current, commits>>

Ids == {r.id : r \in Resources}

-----------------------------------------------------------------------------
(* What a scan makes of the answers of its scopes *)

\* Of the resources with the same key the one merged first is kept: scopes in the
\* requested order, then the order of the provider's answer.
FirstOf(S, key) == {r \in S : \A q \in S : key[q] = key[r] => r.rank <= q.rank}

\* The key of the executor: provider, account, type and id, without the region.
dedupeResources(seen) ==
    FirstOf({r \in Resources : seen[r] # 0}, [r \in Resources |-> <<r.account, r.id>>])

\* The stores key a resource by provider and id alone.
storedResources(seen) == FirstOf(dedupeResources(seen), [r \in Resources |-> r.id])

\* The row stored for resource id: the resource and its version, as its hash is
\* taken over both.
RowOf(seen, id) ==
    IF \E r \in storedResources(seen) : r.id = id
    THEN LET r == CHOOSE q \in storedResources(seen) : q.id = id
         IN  [resource |-> r, version |-> seen[r]]
    ELSE None

\* The status of the outcome of a scan.
ScanStatus(outcome) ==
    CASE outcome.failed = {} -> "completed"
      [] outcome.failed # {} /\ outcome.unreachable = outcome.scopes -> "failed"
      [] OTHER -> "partial"

\* Bug variant: a scan that returned anything counts as a snapshot.
AnythingIsASnapshot(status) == status # "failed"

SnapshotComplete(status) == status = "completed"

\* The start time is reckoned back from the moment the session is open.
StartedAt(s) == clock - scan[s].duration

-----------------------------------------------------------------------------
(* The history queries, on a scan_metadata table *)

IsSnapshot(table, s) == table[s] # None /\ table[s].complete /\ table[s].status = "completed"

\* ORDER BY scan_start_time DESC, id DESC LIMIT 1
Newest(table, S) ==
    IF S = {} THEN None
    ELSE CHOOSE s \in S : \A t \in S \ {s} :
             \/ table[t].start < table[s].start
             \/ table[t].start = table[s].start /\ t < s

PreviousComparableScan(table, s) ==
    Newest(table, {p \in Scans \ {s} : /\ IsSnapshot(table, p)
                                       /\ table[p].scope = table[s].scope
                                       /\ table[p].start <= table[s].start})

\* drift's compare, on two sets of observations.
Added(before, after) == {id \in Ids : before[id] = None /\ after[id] # None}
Removed(before, after) == {id \in Ids : before[id] # None /\ after[id] = None}
Modified(before, after) ==
    {id \in Ids : before[id] # None /\ after[id] # None /\ before[id] # after[id]}

\* Bug variant: only the baseline has to be a snapshot.
IncompleteBaseline(from, to) ==
    \/ metadata[from].scope # metadata[to].scope
    \/ ~metadata[from].complete

\* drift's Incomplete.
Incomplete(from, to) ==
    \/ metadata[from].scope # metadata[to].scope
    \/ ~metadata[from].complete
    \/ ~metadata[to].complete

\* Bug variant: the baseline is the oldest comparable snapshot.
OldestComparable(table, s) ==
    LET S == {p \in Scans \ {s} : /\ IsSnapshot(table, p)
                                  /\ table[p].scope = table[s].scope
                                  /\ table[p].start <= table[s].start}
    IN  IF S = {} THEN None
        ELSE CHOOSE p \in S : \A q \in S \ {p} :
                 \/ table[p].start < table[q].start
                 \/ table[p].start = table[q].start /\ p < q

\* The counts storeScanOutcomeMetadata computes in the transaction that stores s:
\* against no baseline everything is new.
Baseline(table, s) == PreviousComparableScan(table, s)

Counts(table, obs, s) ==
    LET p == Baseline(table, s)
        before == IF p = None THEN [id \in Ids |-> None] ELSE obs[p]
    IN  [new |-> Cardinality(Added(before, obs[s])),
         updated |-> Cardinality(Modified(before, obs[s])),
         deleted |-> Cardinality(Removed(before, obs[s]))]

\* The row of a scan's outcome, before the counts.
OutcomeRow(outcome) ==
    [start |-> outcome.start, end |-> outcome.end, status |-> ScanStatus(outcome),
     scope |-> outcome.scopes, complete |-> SnapshotComplete(ScanStatus(outcome)),
     counts |-> [new |-> 0, updated |-> 0, deleted |-> 0],
     total |-> Cardinality(dedupeResources(outcome.seen))]

-----------------------------------------------------------------------------
NoTx == [metadata |-> <<>>, observations |-> <<>>, current |-> <<>>]

Fresh == [pc |-> "new", began |-> 0, duration |-> 0, start |-> 0, end |-> 0,
          scopes |-> {}, unread |-> {}, failed |-> {}, unreachable |-> {},
          seen |-> [r \in Resources |-> 0], hidden |-> {}, steady |-> {}, ever |-> {}]

Init ==
    /\ cloud \in Clouds
    /\ changes = 0 /\ clock = 0
    /\ scan = [s \in Scans |-> Fresh]
    /\ session = None /\ tx = NoTx
    /\ metadata = [s \in Scans |-> None]
    /\ observations = [s \in Scans |-> [id \in Ids |-> None]]
    /\ current = [id \in Ids |-> None]
    /\ commits = <<>>

Alive == {r \in Resources : cloud[r] # 0}

\* A resource is created, changed or deleted behind corkscrew's back.
Change(r, v) ==
    /\ changes < MaxChanges
    /\ cloud[r] # v
    /\ cloud' = [cloud EXCEPT ![r] = v]
    /\ changes' = changes + 1
    /\ scan' = [s \in Scans |->
           IF scan[s].pc # "scanning" THEN scan[s]
           ELSE [scan[s] EXCEPT !.steady = IF v = 0 THEN @ \ {r} ELSE @,
                                !.ever = IF v = 0 THEN @ ELSE @ \cup {r}]]
    /\ UNCHANGED <<clock, session, tx, metadata, observations, current, commits>>

Tick ==
    /\ clock < MaxTime
    /\ clock' = clock + 1
    /\ UNCHANGED <<cloud, changes, scan, session, tx, metadata, observations, current, commits>>

\* The scans that a process is running.
Running == {s \in Scans : scan[s].pc \notin {"new", "stored", "lost"}}

\* A scan of some scopes is asked for; scanexec.Execute starts.
Start(s, scopes) ==
    /\ scan[s].pc = "new"
    /\ Cardinality(Running) < MaxRunning
    /\ scan' = [scan EXCEPT ![s].pc = "scanning", ![s].began = clock,
                            ![s].scopes = scopes, ![s].unread = scopes,
                            ![s].steady = Alive, ![s].ever = Alive]
    /\ UNCHANGED <<cloud, changes, clock, session, tx, metadata, observations, current, commits>>

\* The answers that leave a scope complete: notices are not errors.
NoErrors == {"clean", "notices"}

\* A scope answers with what the cloud holds there; with notices (access denied,
\* a feature not enabled, a type not supported), which hide some of it and leave
\* the scope complete; with errors and a part of it; or not at all.
Answer(s, region, part, outcome) ==
    LET there == {r \in Alive : r.region = region}
    IN  /\ scan[s].pc = "scanning"
        /\ region \in scan[s].unread
        /\ part \subseteq there
        /\ outcome = "clean" => part = there
        /\ outcome = "unreachable" => part = {}
        /\ scan' = [scan EXCEPT
               ![s].unread = @ \ {region},
               ![s].seen = [r \in Resources |-> IF r \in part THEN cloud[r] ELSE @[r]],
               ![s].hidden = IF outcome = "notices" THEN @ \cup (there \ part) ELSE @,
               ![s].failed = IF outcome \in NoErrors THEN @ ELSE @ \cup {region},
               ![s].unreachable = IF outcome = "unreachable" THEN @ \cup {region} ELSE @]
        /\ UNCHANGED <<cloud, changes, clock, session, tx, metadata, observations, current, commits>>

\* Execute returns.
Finish(s) ==
    /\ scan[s].pc = "scanning"
    /\ scan[s].unread = {}
    /\ scan' = [scan EXCEPT ![s].pc = "scanned", ![s].duration = clock - scan[s].began]
    /\ UNCHANGED <<cloud, changes, clock, session, tx, metadata, observations, current, commits>>

-----------------------------------------------------------------------------
(* persist *)

\* The session is opened, which takes its time and needs the database file for
\* itself; the scan is dated and the transaction begins.
OpenSession(s) ==
    /\ scan[s].pc = "scanned"
    /\ session = None
    /\ session' = s
    /\ tx' = [metadata |-> metadata, observations |-> observations, current |-> current]
    /\ scan' = [scan EXCEPT ![s].pc = "resources", ![s].start = StartedAt(s), ![s].end = clock]
    /\ UNCHANGED <<cloud, changes, clock, metadata, observations, current, commits>>

Upserted(table, seen) ==
    [id \in Ids |-> IF RowOf(seen, id) # None THEN RowOf(seen, id) ELSE table[id]]

\* Bug variant: the resources are written outside the transaction.
StoreResourcesDirectly(s) ==
    /\ scan[s].pc = "resources"
    /\ tx' = [tx EXCEPT !.current = Upserted(@, scan[s].seen)]
    /\ current' = Upserted(current, scan[s].seen)
    /\ scan' = [scan EXCEPT ![s].pc = "observations"]
    /\ UNCHANGED <<cloud, changes, clock, session, metadata, observations, commits>>

\* storeScanResources: rows of resources the scan did not see stay as they are.
StoreResources(s) ==
    /\ scan[s].pc = "resources"
    /\ tx' = [tx EXCEPT !.current = Upserted(@, scan[s].seen)]
    /\ scan' = [scan EXCEPT ![s].pc = "observations"]
    /\ UNCHANGED <<cloud, changes, clock, session, metadata, observations, current, commits>>

StoreObservations(s) ==
    /\ scan[s].pc = "observations"
    /\ tx' = [tx EXCEPT !.observations[s] = [id \in Ids |-> RowOf(scan[s].seen, id)]]
    /\ scan' = [scan EXCEPT ![s].pc = "metadata"]
    /\ UNCHANGED <<cloud, changes, clock, session, metadata, observations, current, commits>>

\* storeScanOutcomeMetadata: the row, and for a snapshot its counts.
StoreMetadata(s) ==
    LET row == OutcomeRow(scan[s])
        inserted == [tx.metadata EXCEPT ![s] = row]
    IN  /\ scan[s].pc = "metadata"
        /\ tx' = [tx EXCEPT !.metadata =
               IF row.complete
               THEN [inserted EXCEPT ![s].counts = Counts(inserted, tx.observations, s)]
               ELSE inserted]
        /\ scan' = [scan EXCEPT ![s].pc = "commit"]
        /\ UNCHANGED <<cloud, changes, clock, session, metadata, observations, current, commits>>

Commit(s) ==
    /\ scan[s].pc = "commit"
    /\ metadata' = tx.metadata
    /\ observations' = tx.observations
    /\ current' = tx.current
    /\ commits' = Append(commits, s)
    /\ session' = None /\ tx' = NoTx
    /\ scan' = [scan EXCEPT ![s].pc = "stored"]
    /\ UNCHANGED <<cloud, changes, clock>>

\* The scan is cancelled, the session does not open, a statement fails or the
\* process dies: the transaction, if any, is rolled back, and the outcome is not
\* stored (Run turns this into a warning).
Lose(s) ==
    /\ scan[s].pc \in {"scanning", "scanned", "resources", "observations", "metadata", "commit"}
    /\ scan' = [scan EXCEPT ![s] = [Fresh EXCEPT !.pc = "lost"]]
    /\ session' = IF session = s THEN None ELSE session
    /\ tx' = IF session = s THEN NoTx ELSE tx
    /\ UNCHANGED <<cloud, changes, clock, metadata, observations, current, commits>>

-----------------------------------------------------------------------------
Persist(s) ==
    OpenSession(s) \/ StoreResources(s) \/ StoreObservations(s) \/ StoreMetadata(s) \/ Commit(s)

Next ==
    \/ \E r \in Resources, v \in Versions \cup {0} : Change(r, v)
    \/ Tick
    \/ \E s \in Scans :
          \/ \E scopes \in Requests : Start(s, scopes)
          \/ \E region \in Regions, part \in SUBSET Resources,
                outcome \in NoErrors \cup {"errors", "unreachable"} : Answer(s, region, part, outcome)
          \/ Finish(s)
          \/ Persist(s)
          \/ Lose(s)

Spec == Init /\ [][Next]_vars

-----------------------------------------------------------------------------
(* Properties *)

\* The type invariant; a stored scan ends no earlier than it starts.
TypeOK ==
    /\ cloud \in [Resources -> Versions \cup {0}]
    /\ metadata \in [Scans -> MetadataRow \cup {None}]
    /\ \A s \in Scans : metadata[s] # None => metadata[s].start <= metadata[s].end
    /\ observations \in [Scans -> [Ids -> Row \cup {None}]]
    /\ current \in [Ids -> Row \cup {None}]
    /\ session \in Scans \cup {None}

Stored == {s \in Scans : metadata[s] # None}

\* A scan is stored whole or not at all, whenever it is cancelled, fails or dies:
\* its metadata and observations appear together, and the resource table holds
\* nothing that no stored scan observed.
WholeOrNothing ==
    /\ \A s \in Scans : scan[s].pc = "stored" <=> s \in Stored
    /\ \A s \in Scans \ Stored : \A id \in Ids : observations[s][id] = None
    /\ \A s \in Stored, id \in Ids : observations[s][id] = RowOf(scan[s].seen, id)
    /\ \A id \in Ids : current[id] # None => \E s \in Stored : observations[s][id] = current[id]

\* What ADR 0023 asks of completeness, under the ids the provider gives its
\* resources: a snapshot holds every resource of its scopes that existed for as
\* long as the scan ran, unless a notice of this scan hid it, and nothing that
\* never existed.
CompleteScanSawEverything ==
    \A s \in Stored : metadata[s].complete =>
        /\ \A r \in scan[s].steady \ scan[s].hidden : r.region \in metadata[s].scope =>
              observations[s][r.id] # None /\ observations[s][r.id].resource = r
        /\ \A id \in Ids : observations[s][id] # None => observations[s][id].resource \in scan[s].ever

\* A drift that does not call itself incomplete is true of the cloud, as far as the
\* notices let its scans see: what it calls removed existed during the baseline
\* scan and was missing, or hidden by a notice, at some moment of the later one;
\* the other way round for what it calls added.
DriftIsTrue ==
    \A from, to \in Stored : ~Incomplete(from, to) =>
        LET before == observations[from]
            after == observations[to]
            missed(s, r) == r \notin scan[s].steady \/ r \in scan[s].hidden
        IN  \A r \in Resources : r.region \in metadata[from].scope =>
                /\ r.id \in Removed(before, after) => r \in scan[from].ever /\ missed(to, r)
                /\ r.id \in Added(before, after) => missed(from, r) /\ r \in scan[to].ever

CommitOf(s) == CHOOSE k \in DOMAIN commits : commits[k] = s

\* The counts stored with a snapshot are those drift reports for it, unless its
\* baseline was stored after it: then the counts are those of the older baseline.
CountsAgreeWithDrift ==
    \A s \in Stored :
        LET p == PreviousComparableScan(metadata, s)
            before == IF p = None THEN [id \in Ids |-> None] ELSE observations[p]
        IN  metadata[s].complete /\ (p = None \/ CommitOf(p) < CommitOf(s)) =>
                metadata[s].counts = [new |-> Cardinality(Added(before, observations[s])),
                                      updated |-> Cardinality(Modified(before, observations[s])),
                                      deleted |-> Cardinality(Removed(before, observations[s]))]
=============================================================================
