# A TLA+ development for corkscrew

corkscrew scans cloud accounts through provider plugins, keeps what it saw in a
DuckDB file, compares scans with each other, and evaluates compliance packs
against them. The whole chain rests on one claim, that a scan was *complete*:
findings are resolved, and removals reported, because a complete scan did not see
something (ADR 0023). The development follows that claim from the worker pool that
makes it, over the transaction that stores it, to the drift and the findings that
use it, and down into the providers that feed it: the batch scan of the GitHub
provider, the streamed scans of the Kubernetes, Azure and GCP providers and their relay
by the host, and the watch streams of the Kubernetes provider. Three other parts are
there because their difficulty is concurrency, failure or a bound: the quick scan of the
terminal interface, the installation of provider plugins and the cache of the GCP provider.

## 1. The system

### Components, their state and their operations

| component | source | state | operations | module |
|---|---|---|---|---|
| Scan executor | `internal/scanexec` | goroutines, two channels, the outcome of one scan | `Execute` | `ScanExecutor` |
| Scan application | `internal/app/scan` | none of its own | `Run`, `persist`, `Prepare` | `ScanHistory` (run and persist) |
| Scan storage | `internal/db/graph_store.go`, `observations.go`, `internal/data/persistence.go` | resource tables, `resource_observations`, `scan_metadata` | `StoreScanOutcome` | `ScanHistory` |
| History and drift | `internal/data/history.go`, `internal/app/drift` | reads the store | `LatestCompleteScan`, `PreviousComparableScan`, `Run` | `ScanHistory` |
| Findings | `internal/app/findings` | `findings`, `finding_occurrences`, `finding_suppressions`, `finding_evaluations` | `Evaluate`, `Suppress`, `Unsuppress`, `List` | `Findings` |
| Terminal interface | `internal/tui` | quick scan counters, scan status | `Update` and the commands it returns | `QuickScan` |
| Provider installation, registry | `internal/provider` | directories under the managed root | `installManaged`, `DiscoverInstallations` | `ProviderInstall` |
| GitHub provider | `plugins/github-provider` | the scan cache, a semaphore, retries | `BatchScan`, `ScanService`, `RoundTrip` | `GithubScan` |
| Streamed scans | `stream.go` and `scanner.go` of the Kubernetes, Azure and GCP providers, `internal/shared/plugin.go` | a channel, a gRPC stream | `StreamScanResources`, `streamResources`, `forwardStream` | `ResourceStream` |
| Watch streams | `plugins/kubernetes-provider/informer_cache.go` | tracked informers, the stop channel, an event channel per stream | `StreamInformers`, `handleEvent`, `Stop` | `InformerStream` |
| GCP cache | `plugins/gcp-provider/cache.go` | entries and their expiry heap | `Get`, `SetWithTTL`, `Delete`, `Clear`, `CleanExpired`, `Stop` | `ExpiryCache` |
| Provider runtime | `internal/provider/runtime.go` | plugin processes by configuration | `Open`, `Close` | not modelled |
| Schema lifecycle | `internal/db/schema_lifecycle.go` | migration ledger, tables, views | `EnsureSchema` | not modelled |
| Data session | `internal/data/session.go`, `internal/db/connect.go` | one DuckDB connection | open, read-only query, close | not modelled |
| Compliance packs | `pkg/query/compliance` | loaded packs, lockfile | load, execute, install, pin | through their results (`Findings`) |
| Correlation | `internal/app/correlation` | materialised rows | `Refresh` | not modelled |
| AWS, Cloudflare providers, the rest of the others | `plugins/` | scanner caches and pools | `BatchScan` | through their answers (`ScanExecutor`, `ScanHistory`) |
| API server, CLI, cross-cloud and query applications, archives, secrets, configuration, graph extension, protocol, hub ADRs | | | | not modelled |

### How they interact

`scan.Run` resolves a provider, opens a plugin session through the provider runtime,
calls `scanexec.Execute` with one scope per region, account, subscription or project,
and persists the outcome through a data session. Storage is one DuckDB transaction.
`drift.Run` and `findings.Evaluate` open sessions of their own, in other processes and
at other times; what couples them to scans is only the rows, and the order in which
scans are dated. The quick scan of the terminal interface calls `scan.Run` once per
provider, on goroutines whose results come back as messages. Installations and
discoveries share a directory tree and nothing else. A provider is a gRPC server in a
process of its own: `BatchScan` answers with resources, notices and errors, which the
executor tells apart, and a streamed scan ends with a status that the host passes on.

### What is hard

* goroutines of one scan that finish in any order, with a cancellation at any moment;
* one scope of several that fails, or answers with errors among its resources;
* scans that overlap in time, are stored in another order than they began, or tie;
* a transaction of several statements that stops half way;
* evaluations of old scans after new ones, of one scan twice, of partial scans;
* messages of an earlier quick scan that arrive in a later one;
* two processes that install one provider, and a process that dies between two renames;
* calls of a cloud API that are throttled, retried, refused or cut off, and services of one
  batch that read the same things minutes apart;
* a producer, a consumer and a network stream of which any may stop first;
* event handlers that block on a full channel while the stream they feed shuts down;
* an index that is cleaned lazily under a bound.

`PROJECT.json` lists each hazard at its line, with the properties that would catch it.

### What makes each component correct

* *Executor*: every scope is asked once and filed under its own name; the result does
  not depend on the order of completion; complete means every scope answered cleanly;
  `Execute` returns and leaves no goroutine behind.
* *Storage and drift*: a scan is stored whole or not at all; a complete one holds what
  was there throughout, but for what notices hid; a conclusive drift is true of the cloud
  to the same extent; stored counts are the ones drift computes.
* *Findings*: the latest scan's findings are open; in order the open findings and the
  counts are exact; out of order nothing seen is lost; failed controls and partial scans
  change nothing; every finding has evidence; suppression is reversible.
* *Quick scan*: one provider in flight; a round announced as complete is exact; every
  round ends.
* *GitHub scan*: a batch without errors has read everything it was asked for; its services
  agree with each other; what is throttled is never taken for a refusal; a finding was true
  at some moment of the scan, of what GitHub shows to the token; the batch returns.
* *Streams*: a clean end means everything of the types asked for, in order, except the types
  that discovery left out with a warning; whoever fails, both ends return.
* *Watch streams*: no event is lost while the stream lives; synced means delivered; a stream
  that ends leaves no goroutine and no informer, tells why it ended, and does end.
* *Cache*: the index covers the entries and stays within its bound; the eviction takes the
  entry that expires first.
* *Installation*: what is live is whole; nothing installed is lost; a failure is undone
  or says where the package is.

## 2. Modules

### ScanExecutor, ScanContract, ScanExecutorProofs

`ScanExecutor` has the goroutines of `Execute`: the *caller* (`Reject`, `Start`,
`Collect`, `CollectDone`, `Aggregate`, `Decide`), the *dispatcher* (`Announce`,
`CloseJobs`, `CloseResults`) and the *workers* (`Handoff`, `BatchScan`, `Report`,
`Exit`), with the unbuffered job channel as a rendezvous (`Handoff` needs the dispatcher
at `send` and the worker at `receive`), the buffered result channel as a queue, and
`Cancel` for the caller's context. A plugin answers with an error, an empty response, or
resources with notices and errors; a resource has a key (provider, account, type, id) and
a version, so that the winner among duplicates can be seen. Plans may repeat a scope.
`answered` is a history variable: what the plugin answered per index. The loops of
`aggregateScopes` are steps of the caller, one per turn: `Merge` per scope, `CountScope` per scope
and `AssertMergedTotal` for the sum, `DedupeNext` per resource and `Deduped` for the assertions
after it; `loop` has the variables of these loops.

`ScanContract` is the promise: in one step, from the answers in plan order, the status
and the merged resources. The status is the one of ADR 0023, failed only when no scope
answered; of a cancelled scan the contract only asks that it is not complete (`Promised`),
because there the code departs from the ADR, which `FailedMeansNothingAnswered` states and the
run `scan_executor_cancelled` refutes. `ImplementsContract` is the refinement; in-flight answers and
the cancellation map to themselves, the result appears when `Execute` returns.

### ScanHistory, ScanHistoryProofs

A cloud whose resources appear, vanish and change (`Change`), and scans of it: `Start`,
one `Answer` per scope (clean, with notices, with errors, or none), `Finish` (merge, status),
`OpenSession`, the transaction (`StoreResources`, `StoreObservations`, `StoreMetadata`,
`Commit`) or `Lose` at any point of it. The start recorded for a scan is the moment the
session opened minus the duration of the execution, as in `persist`; the clock ticks
between, so two scans can be dated in another order than they ran, or tie. An answer with
notices (access denied, not enabled, unsupported) may lack resources and leaves its scope
complete, as `SplitScanErrors` and `scanScope` have it. `scan[s].hidden`, `scan[s].steady` and
`scan[s].ever` are history: what notices hid, and what existed throughout and at some time of
the scan. `IsSnapshot`, `PreviousComparableScan` and `Baseline` are the SQL of
`history.go` and `graph_store.go`; `Added`, `Removed`, `Modified` and `Incomplete` are
`drift.go`. A semantic hash is the pair of resource and version.

### Findings, FindingsProofs

`Evaluate` of one evaluation: `Load` (the scan must be complete), `Execute` (results of
all queries; each fails or reports rows), `Begin`, one `Record` per query (upsert,
occurrences, resolution), `Commit`, with `Abort` at any point. DuckDB runs one writing
transaction; `tx` keeps the rows to go back to. `Suppress`, `Unsuppress`, `Expire` and the status `List` shows.
`log` is history: the results recorded, in order.

### QuickScan, QuickScanProofs

`CorkscrewApp.Update` as an event loop over a set of commands and messages that may be
handled in any order: `StartQuickScan` (the user), `BeginQuickScan`, `RunProvider` (the
command's goroutine), `HandleCompleted`, `HandleAnnounce`, `Quit`. Messages carry the
number of their round, which no guard reads.

### ProviderInstall, ProviderInstallProofs

`installManaged` as one action per file operation, any of which may fail, for several
processes installing one provider, `Crash` at any step, and `DiscoverInstallations`
reading entry by entry and file by file (`ReadDir`, `FindManifest`, `LoadManifest`,
`ResolveExecutable`, `Discovered`). A directory has an executable and a manifest, each
missing, half written or of one version; `Remains` is what a failed `os.RemoveAll` may
leave.

### GithubScan, GithubScanProofs

The services of a batch run one after the other over one scan cache. A service is a record
of phases (`scanOrgs` to `scanFindings`): listing the repositories (`ListRepos`, `ListPage`,
by GraphQL and after a failure by REST, or by REST alone for an Enterprise server), calls about the organisation
(`StartOrgCalls`, `EndOrgCalls`), and `parallelRepos` (`StartRepo`, `BreakRepoLoop`,
`WaitRepos`, `EndRepo`), whose goroutines make their calls one after the other. A call is
answered by the cache (`CallFromCache`) or goes through `RoundTrip` attempt by attempt
(`Attempt`): the transport retries what is throttled or fails with 5xx until its last
attempt, which it does not classify. `Got` is what the scanner makes of the outcome: data, a
notice, or an error. GitHub is external: it refuses a fixed set of calls, may throttle or
break any other a bounded number of times, and the organisation may change during the scan.
A repository may have no default branch (`Branchless`: `checkBranchProtection` returns at
once), and its protection may be hidden from the token (`Hidden`: a null rule from GraphQL and
404 from REST, both of which the code takes for no protection, and caches).
The three alert endpoints are one call and so are the listings that only differ in what
they list; the pages of a call are not told apart, except those of the repository listing.

### ResourceStream, ProviderProofs

The producer (`ListPage` and `Emit` of the Kubernetes provider; `ScanService` and `Emit` of
Azure and GCP, which collect a service before they emit it), after `TakeTypes` has set what is
to be streamed: the types of the request or, for Kubernetes when it names none, a list that
discovery may come to, which is everything, or less than that with a warning, or an error. An API
group that the provider does not list is answered at once with nothing. Then the channel it owns and closes,
`streamResources` (`Receive`, `Send`, `CancelAndDrain`, `Drain`, `Return`), the gRPC window,
and the host's `forwardStream` (`Recv`, `SinkSend`), composed into one specification: a page,
a send or the host's own sink may fail, the caller may cancel, the plugin may die.

### InformerStream, InformerStreamProofs

Several clients' `StreamInformers`. Per stream the handler goroutine (`SetupInformers`,
`StartInformers`, `ForwardEvents`, `Shutdown`, `UntrackInformers`, `ReturnResult`), the
listener for `Stop` (`StopListener`), the wait for the first sync (`WaitForSync`) and an
informer with its event handler per type (`Notify`, `CallHandler`, `HandleEvent`,
`InformerExits`); shared are the map of tracked informers and the stop channel. client-go is
external: an informer may never be able to list, calls its handler for one notification at a
time, and exits when its stop channel is closed and its handler has returned.

### ExpiryCache, ProviderProofs

Every method of `cache.go` is one action, because it holds the mutex throughout; the
deletion that `Get` starts on another goroutine and the cleanup timer are actions of their
own. The heap is the set of its items. Items that expire at the same instant leave a heap in
an order that depends on its layout, so the helpers that pop return every state they may
leave (`PopsUntil`). The proofs about the cache and about `ResourceStream` share a module,
which is why the definitions of the latter are called `StreamInit`, `StreamNext` and `StreamSpec`.

## 3. Runs

| run | instance | shows |
|---|---|---|
| `scan_executor` | plans of 0 to 3 scopes (one repeated), limits 0 to 3, five answers, a cancellation | `NoPanic`, `EveryScopeHasAResult`, `CompleteMeansObserved`, `NoGoroutineOutlivesCollection`, the refinement `ImplementsContract`, `Returns` |
| `scan_executor_cancelled` | the same | violates `FailedMeansNothingAnswered`: a cancellation overrides what scopes answered |
| `scan_history` | two scans of both regions or of one, a resource in each, a change, a tick | `WholeOrNothing`, `CompleteScanSawEverything`, `DriftIsTrue` |
| `scan_history_baseline` | three scans of one region, two at a time, a resource in two versions, a change, a tick | `CountsAgreeWithDrift` |
| `scan_history_names` | one scan, one name in two regions | violates `CompleteScanSawEverything`: the deduplication key has no region |
| `findings` | three evaluations of two controls, five scans, two suppressions | `FindingsHaveEvidence`, `OnlyObservedFindingsChange`, `SeenByLatestIsOpen`, `InOrderEvaluationIsExact`, `LastSeenNeverGoesBack`, `UnsuppressRestores` |
| `quick_scan` | three providers, two requests | `OneProviderInFlight`, `AnnouncedRoundsAreExact`, `QuickScanEnds` |
| `provider_install` | two installers, a discovery | `LiveIsWhole`, `ListedIsWhole`, `FailuresAreUndone`, `NothingIsLost` |
| `github_scan` | three repositories (one refused, one hidden, one without a branch), two slots, one retry, two faults, one change, a deadline; three batches | `CleanBatchIsComplete`, `OneStory`, `NoticesAreRefusals`, `FindingsAreTrue`, `BatchReturns` |
| `resource_stream` | six requests to two clusters of two types of two pages, a channel of two, a window of one | `CleanEndIsComplete`, `StreamEnds` |
| `informer_stream` | two clients of one type, a channel of one, two events, one `Stop` | `NothingLost`, `SyncedMeansDelivered`, `NothingLeftBehind`, `StoppedMeansStopped`, `OthersStayTracked`, `StreamReturns` |
| `expiry_cache` | three keys, two entries, lifetimes 0 and 1, three instants, six writes | `IndexCoversEntries`, `BoundsHold`, `EvictionIsFair` |

The two runs that violate their property state what a document or a comment of the
repository says; the quotations are in `PROJECT.json` under "findings". Each property of
the other runs has a mutant: a bug variant of one definition, kept before it in its
module, under which TLC finds the property violated.

### Bounds, and why they are enough

* Two workers and three scopes make a worker take a second scope while the other still
  runs the first, and a repeated scope tells an index from a name. The limits 0 and 3 are
  on both sides of the clamp. The theorems of section 5 remove these
  bounds, and those of every other model, for safety.
* Two scans are the least that overlap, tie and swap. The third scan of the baseline run
  makes two baselines to choose from, which a change of version tells apart, or is the partial
  one that lies between. `MaxChanges` lets a resource vanish, appear or change version before,
  while or after a scan runs; `MaxTime` gives equal, swapped and distinct start times. Scans
  of both regions and of one in the same history are what drift must not compare. At most two
  scans run at a time (`MaxRunning`).
* `findings` has the old, the new and the tied scan for three evaluations, so each order,
  repeats included, occurs; a second control, a second scope and a partial scan; and two
  suppressions of one finding. A query reports a resource in at most one row there: that a
  finding counts rows and not reports is left to the proof, which has no such bound.
* Two requests make a round and the one after it; a third meets the same states. Three
  providers have a first, a middle and a last.
* Two installers cover every pair of overlapping steps; the directories of different
  installers are disjoint, so they meet only at the live one.
* Three repositories and two slots make one wait for a slot, which is where the loop of
  `parallelRepos` may meet the deadline; they also make a listing fail at its first page, in
  the middle and at its last. With one retry, two faults exhaust a call or spoil two
  different ones. One change of the organisation lies between any two reads. The three
  batches run each service, the ones that share data together. The refused and the hidden
  protection are of protected repositories, where a finding would be false.
* Two pages, types and clusters have a first and a last each. The channel of two and the
  window of one are both smaller than the inventory, so each fills up. The requests name no
  types, both in reverse, one or an API group that is not listed, and services or none.
* A channel of one with two events blocks a handler. Only the first stream's list succeeds
  (`OnlyFirstLists`): the second one stands for a client whose list is forbidden, and is all
  that is needed for the shared map and `Stop`.
* Three keys in a cache of two evict; six writes take the index past twice the cap and
  through a compaction; lifetimes 0 and 1 over three instants give equal expiries, an
  overwrite that expires sooner than what it replaces, and entries that expire. The theorems
  of section 5 remove these bounds.
* Deadlock is not checked where a component may be done or idle: every scan stored or lost,
  the user not asking, every installer, stream or batch returned.

### Fairness

`ScanExecutor` and `QuickScan` assume weak fairness of the goroutines, and that
`BatchScan` or `scan.Run` returns. Goroutines that can run are scheduled, and each scope
has a deadline (`ScopeTimeout`, five minutes by default) after which the call returns an
error. The event loop handles each message sent to it.

`GithubScan`, `ResourceStream` and `InformerStream` assume weak fairness of each goroutine.
That includes that a request, a page or a send ends: requests carry the context of the
scan and the transport bounds its waits; gRPC ends a send when the stream's context does.
For `InformerStream` it includes that an informer exits once its stop channel is closed and
its handler has returned, which is what `factory.Shutdown` relies on; nothing is assumed of
lists, so a stream whose list is forbidden must still return. In `ResourceStream` and
`InformerStream` a client that stays connected and never reads is outside the assumption:
the blocking send of such a client holds its own stream up, and nothing else.

Nothing is assumed of cancellations, deadlines, `Stop`, the user or quitting.
`ScanHistory`, `Findings`, `ProviderInstall` and `ExpiryCache` state safety only.

## 4. What the runs found

Two runs disagree with what the repository says of itself:

* `executor.go:289` takes resources of the same type and name in two regions for one, so a
  complete scan loses one and findings on it are resolved (`scan_history_names`);
* a scan cancelled after scopes have answered is `failed` (`executor.go:117`), also when all of
  them did, where ADR 0023, the comment six lines below and a test say that a scan is failed
  only when no scope answered at all (`scan_executor_cancelled`).

Also seen while modelling, without a run of their own: a scan that began earlier and is
stored later overwrites newer rows of the resource table (`graph_store.go:251`; the
observations are kept per scan and are not affected); the rows of an older evaluation are
inserted as occurrences but do not grow `occurrence_count` (`findings.go:441`), which is
why `InOrderEvaluationIsExact` is about evaluations in order; the late end of a quick scan
clears the status of the round begun before it arrived (`app.go:420`); and between the two
renames of a replacement, or for good if the process dies there, the provider has no
directory under its name (`install.go:88`), which is why `NothingIsLost` accepts a package
that is aside.

Some properties are true only with an exception that the code makes, and say so:

* a scope that answered with notices counts as clean (`executor.go:194`), so a complete scan may
  lack what its notices hid, and drift may call that removed. ADR 0023 accepts this cost.
  `CompleteScanSawEverything` and `DriftIsTrue` except `hidden` and nothing else;
* Kubernetes discovery goes on without the CRDs or an API group that it cannot read, and prints
  a warning (`discovery.go:57`, `discovery.go:85`), so a stream that names no types can end
  cleanly with part of the inventory. `CleanEndIsComplete` excepts `skipped`. An API group that
  is not listed (`kubernetes_provider.go:1013`), and a streamed scan of Azure or GCP that names
  no service, end cleanly with nothing; the property takes them to ask for nothing;
* `checkBranchProtection` takes every 404 for an unprotected branch (`scanner.go:377`) and the
  GraphQL listing every null rule (`graphql.go:163`), and both are cached. The comment at
  `scanner.go:345` says that a 404 means that there is no protection; the one at `scanner.go:815`
  that a 404 may also hide something from the token. Where GitHub hides a protection so, the
  repository is reported as unprotected: `FindingsAreTrue` excepts `Hidden`.

Three more disagreements with the documents show in the models, as states that the properties
above rightly allow:

* evaluating an older scan after a newer one opens findings that the newer one does not
  report (`findings.go:432`), where ADR 0023 says that findings absent from the latest
  comparable scan are resolved;
* findings of a control whose rows carry another control id are never resolved
  (`findings.go:174`);
* a discovery fails for every provider while one of them is being installed, or after an
  install died (`registry.go:51`).

Read in the providers, outside of what is modelled or beyond what the properties say:

* the GitHub `StreamScan` and `StreamScanService` drop the errors of the response and end
  cleanly (`provider.go:238`), where ADR 0023 says that a streamed scan is complete when the
  stream ends with `io.EOF`;
* the watch of an API group compares the group with the `apiVersion` of an event
  (`kubernetes_provider.go:1056`, `informer_cache.go:313`), so the events of `apps`, whose
  `apiVersion` is `apps/v1`, are all passed over;
* `parallelRepos` leaves repositories out without an entry of their own once its context is
  over, so `CleanBatchIsComplete` holds while the context lasts; afterwards it is the executor's
  deadline error that makes the scan partial;
* the deletion that `Get` of the cache starts may remove a value stored in between
  (`cache.go:96`), which costs a miss.

## 5. Proofs

All nine models are proved about with TLAPS, for every value of their constants: every safety
invariant and action property of their runs, and the refinement of `ScanContract`. A module of
proofs first shows that the specification keeps an inductive invariant, which was also
checked with TLC on the instance of the run, and the other theorems follow from it. The
names below are those of the theorems, with the property of the run in parentheses.

**`ScanExecutorProofs`**: for every plan, every number of workers and every answer of the
plugin, `TypeCorrect` (`TypeOK`), `ScopesAccountedFor` (`EveryScopeHasAResult`, the assertion
of `collectScopeResults`), `CompleteScansAreComplete` (`CompleteMeansObserved`),
`GoroutinesFinishFirst` (`NoGoroutineOutlivesCollection`), `NoAssertionFires` (`NoPanic`) and
`ContractImplemented` (`ImplementsContract`). The assumptions are types:
a plan is a sequence of scopes and an integer (`PlansAssumption`), an answer is an error, nil
or a response (`AnswersAssumption`), and the zero `ScopeResult` differs from every result a
worker makes because it has no scope name (`NoResultAssumption`).

None of these is inductive: that every slot is filled when the channel is closed says nothing
about the moments before. The invariant `IInv` follows an index of the plan instead. Once
the dispatcher has handed it out it is with a worker, on the result channel or filed
(`Placed`); two workers never hold the same one (`Distinct`); whatever is kept for it is what
`scanScope` makes of the one answer given for it (`Faithful`); the three places add up to the
number handed out, so that none is filed twice (`Counted`); `Phases` ties the program
counters of the dispatcher, the workers and the caller together, and `Merged` carries the
failures into the outcome.

The last two theorems need a second invariant, `Aggregated`, about the loops of
`aggregateScopes`. Since each turn of a loop is a step, no induction over sequences is needed.
`Layout` says where the list of each scope merged so far begins and ends, so that each
merged resource has a scope and a position in its answer, in that order. `Selection` says that
what `dedupeResources` has kept are the resources seen so far that no earlier one shares a
key with, in order. `Tallied` ties the failed and the
unreachable scopes counted to the results merged. At the end of
the loops the merged resources are therefore the contract's `InOrder(Winners)`, and
the status, which `Execute` computes from its counts, is the one the contract computes from the
answers, or, after a cancellation, one that it allows. A step that returns is then the contract's `Return` or `Refuse`, an answer of the
plugin its `Answer`, the cancellation its `Cancel`, and every other step a stutter.

**`ProviderInstallProofs`**: for any number of installing and discovering processes, every one
of which may fail at each file operation or die, `LivePackageIsWhole` (`LiveIsWhole`),
`ListedFilesAreWhole` (`ListedIsWhole`), `FailedInstallsAreUndone` (`FailuresAreUndone`) and the
action property `InstalledPackagesSurvive` (`NothingIsLost`). `NamesAssumption` only says that
versions, a half-written file and a missing one are different things.

The invariant adds what each process has done by the time it gets somewhere: the package an
installer is about to activate is complete (`Built`), what it moved aside is whole until it
is cleaned up (`Aside`), a manifest that discovery has read was complete (`Read`). Two parts
relate the processes to each other. `Spare`: while one cleans up there is a whole package
besides the one it removes, live or with an installer that is not cleaning up; without it
two installers could each count on the other's. `Owed`: a package that is aside while none is live has
somebody to answer for it, who is about to activate or to restore, has died or has
named it in its error.

**`ProviderProofs`**, the cache: for every set of keys, every cap and any number of writes,
`CacheIsIndexed` (`IndexCoversEntries`), `CacheIsBounded` (`BoundsHold`, the assertions of
`cache.go`) and the action property `CacheEvictsFairly` (`EvictionIsFair`). The assumption
is that the keys are a finite set and the cap a positive number.

`CacheInv` joins the type invariant, the index and the bounds with `GenerationsAreOld`: no
entry and no item carries a generation that is still to be given out, so that a stored value
cannot be taken for an older item of its key. The argument goes through the helpers: a lemma
for each of the sweep, the eviction, making room and the compaction says what it keeps of a
pair of entries and heap that fit each other (`Pair`), and `RoomIsMade` that the entry which
has to go is the only one and expires first. The theorems for the methods follow from these.

**`ProviderProofs`**, the streamed scan: for any number of clusters, types and pages, any size of
the channel and of the window, and any requests, `StreamConserves`, `StreamsAreComplete`
(`CleanEndIsComplete`) and `HandlerOutlivesProducer`, the safety part of `StreamEnds`. The
assumption is that these numbers are positive. Of what the host has passed on, an invariant
can say nothing by itself, because what is missing may still be on its way. `Conserved` takes
all of it: what was delivered, what the host holds, the messages on the wire, what
`streamResources` holds, the channel and what the producer has still to send follow each other
in the inventory (`Flow`), and together they reach exactly as far as the producer has listed
(`Reached`). That is claimed while the stream is `Clean`: no page and no send has failed and the
context is not over, or the handler has already ended without an error. `StreamPhases` says
that a failure, once it happened, is still in one of the error variables when the handler
decides; the proof of each action shows that no step makes a stream clean that was not. The lemmas
about `Rank` and `Nth` relate the nested loops of the producer to positions in the inventory, whose
order is that of `plan`, the types taken up so far. `Covered` says that in the clusters so far
`plan` has exactly the types wanted that discovery has not skipped.

**`ScanHistoryProofs`**: for any finite number of scans, any regions, resources and versions and any
interleaving of the scans with the cloud, `TypeCorrect`, `StoredWholeOrNotAtAll`
(`WholeOrNothing`), `SnapshotsAreComplete` (`CompleteScanSawEverything`), `DriftTellsTheTruth`
(`DriftIsTrue`) and `CountsAreThoseOfDrift` (`CountsAgreeWithDrift`). Completeness and drift have the hypothesis
`IdsAreUnique`, that no two resources share an id, because the stores key a resource by its id.
What it leaves out is the case that `scan_history_names` refutes. The run `scan_history`
satisfies it.

`IInv` has one part for each place where the knowledge of a scan is kept. `Honest` is about
the scan itself: what it has read existed at some moment since it began, and what it has not
read in a scope that answered without errors was missing at some moment or hidden by a notice. `View` says that the open
transaction is the committed tables with exactly the statements executed so far, so that
`Commit` is the only step where the tables change. `Tables` says how the tables follow from
the scans committed and their order: a scan's counts are those against the newest comparable
scan among the ones committed before it. The baseline of `Counts` and the one of drift are
both `Newest` of a set, and `NewestFacts` shows that start time and id single one out.

**`FindingsProofs`**: for any scans, packs, resources and number of evaluations, in any order
and with rollbacks, `TypeCorrect`, `EveryFindingHasEvidence` (`FindingsHaveEvidence`),
`LatestSightingWins` (`SeenByLatestIsOpen`), `InOrderIsExact` (`InOrderEvaluationIsExact`) and the
action properties `OnlyObservedChange` (`OnlyObservedFindingsChange`), `SightingsMoveForward`
(`LastSeenNeverGoesBack`) and `UnsuppressIsComplete` (`UnsuppressRestores`). Two of them need
something of the packs. A finding is stored under the control id of its row and
resolved under the one of its query (`findings.go:174`). `LatestSightingWins` assumes
`RowsNameTheirQuery`, that the rows of a query never carry the id of another query of the
pack, and `InOrderIsExact` assumes `RowsAreOwn`, that they carry their own. Without the first a
query may resolve what another one of the same evaluation has just reported; with the
first alone, findings under an id that is no query's are never resolved. The others hold for
every pack.

The argument is about a table and the log of results recorded in it. `Agrees`, `LatestIsOpen`
and `ExactInv` relate the two, and a lemma for each (`AgreesStep`, `LatestStep`, `ExactStep`) says
that recording one more result keeps it. `IInv` says this of the committed table and log
(`Faithful`), of the table of the open transaction and the log with the results recorded
so far (`Recording`), and that each finding has its occurrence (`Evidence`). A commit then
needs nothing new, and neither does a rollback.

**`QuickScanProofs`**: for any providers and any number of requests, `TypeCorrect`,
`ProvidersRunOneByOne` (`OneProviderInFlight`) and `AnnouncementsAreExact`
(`AnnouncedRoundsAreExact`). `Flight` says which provider the message in flight is about,
`Recorded` that the current round has counted the first `completed` providers, with the failures
collected, and `Announced` that an announced round is over: it is a former one, or no
provider is in flight. Only then does the next result not change what was announced.
`Budget` counts: each round has spent a request.

**`GithubScanProofs`**: for any organisation (also an empty one), any batch of services, any
refusals, hidden protections, slots and retries, `TypeCorrect`, `NoticesAreTrue` (`NoticesAreRefusals`),
`UnprotectedIsTrue` (`FindingsAreTrue`), `BatchTellsOneStory` (`OneStory`) and `CleanIsComplete`
(`CleanBatchIsComplete`). `GithubAssumption` is about types, and that a batch names a service: a
request that names none is given the default ones.

`Truth` says that each entry of the response and of the cache was true when it was read (an
unprotected one also if the protection is hidden from the token), and
`Story` that the cache holds what the response has said; the two give the first three. For
completeness `Placed` says where the listing, the loop and the goroutines can be in each
phase, `Listed` that a service which fans out has its repositories or an error, and `Covered`
that, while there is no error and the context lasts, each call of each service so far
is answered or still to be made by a goroutine or by the rest of the loop.

**`InformerStreamProofs`**: for any number of clients and types, any size of the channel and
any number of events and calls of `Stop`, `TypeCorrect`, `EventsAreConserved` (`NothingLost`),
`SyncIsDelivery` (`SyncedMeansDelivered`), `ReturnIsClean` (`NothingLeftBehind`), `StoppedIsStopped`
(`StoppedMeansStopped`) and the action property `OwnersForget` (`OthersStayTracked`). Since a step
changes one stream, `IInv` is a predicate `Good` of a stream, its informers and the number of
closed stop channels, and `TrackedAreLive`: whoever is in the shared map has not untracked its
informers yet. In `Good`, `Conserved` counts the events between the handlers and the client, and
`OwnInformers` follows the informers from their start to the shutdown that waits for them.

### Only model-checked

* Liveness (`Returns`, `QuickScanEnds`, `BatchReturns`, `StreamEnds`, `StreamReturns`), which is
  out of the prover's reach.

Everything else that a passing run checks is stated by a theorem.

## 6. Not modelled

Text: messages, warnings, rendering, the wording of errors. Relationships between
resources, which follow the same upsert as resources. The provider-specific columns of the
resource tables. DuckDB itself: a transaction is atomic and isolated, and a single writer
runs; for that reason the migrations of the schema and the refresh of correlations, each one
transaction of SQL, are left out. Configuration, secrets, archives, the API server, the
command line, the cross-cloud queries and the provider runtime are sequential code over other
parts, or hold one mutex throughout. The graph extension is a set of pure graph algorithms in Rust. The hub and
the operator exist only as ADRs.

The larger part of the repository's lines is generated code (`internal/proto`), the code
generators and analysers of the providers (`plugins/*/cmd`), tables of services and the
translation of cloud resources into rows, none of which has behaviour that a state machine
would show. Of the providers, the AWS and Cloudflare scanners are seen only through the
answers they may give; the batch scans of Kubernetes, Azure and GCP are the same fan-out
over a semaphore as `parallelRepos`.

## 7. Plan

1. Done: the nine models and `ScanContract`, their runs, and the proofs of section 5.
2. Modules worth adding: `OrgScan` (accounts over a semaphore with cached scanners, and the
   account that a cancellation leaves out), and the composition of `ScanHistory` with
   `Findings`, so that a finding is resolved only when its resource was really missing.
