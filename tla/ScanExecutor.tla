---------------------------- MODULE ScanExecutor ----------------------------
(***************************************************************************)
(* The scan executor of internal/scanexec: a dispatcher goroutine hands    *)
(* the plan's scopes to a pool of worker goroutines over an unbuffered     *)
(* channel, every worker asks the provider plugin to scan its scope and    *)
(* puts the answer on a buffered channel, and the goroutine that called    *)
(* Execute drains that channel, merges the scopes in plan order and        *)
(* decides the status of the scan.  The caller's context may be cancelled  *)
(* at any moment.                                                          *)
(*                                                                         *)
(* A plan is a record [scopes, maxConcurrency]; scopes may repeat, because *)
(* nothing upstream removes duplicates.  What the plugin answers is an     *)
(* element of Answers; the text of errors, durations and per-service       *)
(* statistics are abstracted away.                                         *)
(***************************************************************************)
EXTENDS Integers, FiniteSets, Sequences

CONSTANTS
    Scopes,      \* the names of regions, accounts, subscriptions or projects
    Resources,   \* what a provider can report; a resource r has r.key
    Plans,       \* the plans Execute may be called with
    Answers,     \* what BatchScan may return, see AnswerType
    NoResource,  \* a nil entry in a response's resource list
    NoResult     \* the zero ScopeResult

ASSUME PlansAssumption ==
    Plans \subseteq [scopes : Seq(Scopes), maxConcurrency : Int]

(***************************************************************************)
(* BatchScan returns an error (kind "error": the transport failed, the     *)
(* scope's deadline expired or the context was cancelled), a nil response  *)
(* (kind "empty") or a response.  The entries of a response's error list   *)
(* are told apart by their prefix only: notices and errors.                *)
(***************************************************************************)
AnswerType == [kind : {"error", "empty", "response"},
               resources : Seq(Resources \cup {NoResource}),
               errors : Seq({"error", "notice"})]

ASSUME AnswersAssumption == Answers \subseteq AnswerType

(***************************************************************************)
(* A ScopeResult.  The zero value has no scope name, so it is told apart   *)
(* from every result a worker makes.                                       *)
(***************************************************************************)
ResultType == [scope : Scopes, resources : Seq(Resources \cup {NoResource}),
               failed : BOOLEAN, unreachable : BOOLEAN]

ASSUME NoResultAssumption == NoResult \notin ResultType

VARIABLES
    plan,        \* the plan of this call
    scanner,     \* whether the caller passed a scanner
    ctxDone,     \* the caller's context has been cancelled
    dispatcher,  \* [pc, next]: the dispatcher goroutine
    worker,      \* worker[w]: the state of worker goroutine w
    results,     \* the buffered result channel, a queue
    caller,      \* [pc, received, merging]: the goroutine inside Execute
    loop,        \* [next, total, kept]: the locals of assertMergedTotal and dedupeResources
    collected,   \* collected[i]: the result filed for scope i of the plan
    outcome,     \* what Execute has built up: [status, resources, failed, unreachable]
    events,      \* what the observer has been told
    answered     \* history: the answers the plugin gave for each index of the plan

vars == <<plan, scanner, ctxDone, dispatcher, worker, results, caller, loop,
          collected, outcome, events, answered>>

-----------------------------------------------------------------------------
(* Helpers *)

ScopeCount == Len(plan.scopes)

Indices == 1..ScopeCount

\* The number of workers: at least one, at most one per scope.
Concurrency ==
    LET wanted == IF plan.maxConcurrency <= 0 THEN 1 ELSE plan.maxConcurrency
    IN  IF wanted > ScopeCount THEN ScopeCount ELSE wanted

\* Bug variant: no entry of a response counts as an error.
everythingIsANotice(entry) == FALSE

IsScanError(entry) == entry # "notice"

\* Bug variant: a transport failure leaves the scope without an error entry.
scanScopeSilent(scope, answer) ==
    IF answer.kind = "response"
    THEN [scope |-> scope, resources |-> answer.resources,
          failed |-> \E k \in DOMAIN answer.errors : IsScanError(answer.errors[k]),
          unreachable |-> FALSE]
    ELSE [scope |-> scope, resources |-> <<>>, failed |-> FALSE, unreachable |-> TRUE]

\* The ScopeResult a worker makes of the plugin's answer; failed says that its
\* list of errors is not empty.
scanScope(scope, answer) ==
    IF answer.kind = "response"
    THEN [scope |-> scope, resources |-> answer.resources,
          failed |-> \E k \in DOMAIN answer.errors : IsScanError(answer.errors[k]),
          unreachable |-> FALSE]
    ELSE [scope |-> scope, resources |-> <<>>, failed |-> TRUE, unreachable |-> TRUE]

\* Bug variant: a later scope's resource replaces an earlier one.
keepLast(kept, r) ==
    IF r = NoResource THEN kept
    ELSE Append(SelectSeq(kept, LAMBDA x : x.key # r.key), r)

\* What dedupeResources does with the next resource: nil entries and keys it has
\* seen, which are the keys of the resources it kept, are skipped.
keepFirst(kept, r) ==
    IF r = NoResource \/ \E k \in DOMAIN kept : kept[k].key = r.key
    THEN kept ELSE Append(kept, r)

\* Bug variants: close(jobs) is forgotten; results is closed with the workers
\* still running; nobody waits for the workers.
jobsNeverClosed == FALSE
closedBeforeWait == dispatcher.pc \in {"wait", "exited"}
noWait == TRUE

jobsClosed == dispatcher.pc \in {"wait", "exited"}

resultsClosed == dispatcher.pc = "exited"

\* The dispatcher's loop over plan.Scopes has another scope after i.
MoreScopes(i) == i < ScopeCount

\* workers.Wait() returns.
WorkersDone == \A w \in DOMAIN worker : worker[w].pc = "exited"

Idle == [pc |-> "receive", index |-> 0, result |-> NoResult]

EmptyOutcome(status) ==
    [status |-> status, resources |-> <<>>, failed |-> <<>>, unreachable |-> 0]

-----------------------------------------------------------------------------
Init ==
    /\ plan \in Plans
    /\ scanner \in BOOLEAN
    /\ ctxDone = FALSE
    /\ dispatcher = [pc |-> "off", next |-> 1]
    /\ worker = <<>>
    /\ results = <<>>
    /\ caller = [pc |-> "start", received |-> 0, merging |-> 1]
    /\ loop = [next |-> 1, total |-> 0, kept |-> <<>>]
    /\ collected = <<>>
    /\ outcome = EmptyOutcome("none")
    /\ events = <<>>
    /\ answered = [i \in 1..Len(plan.scopes) |-> <<>>]

\* The caller's context is cancelled: a signal, a closed terminal, a deadline.
Cancel ==
    /\ ~ctxDone
    /\ ctxDone' = TRUE
    /\ UNCHANGED <<plan, scanner, loop, dispatcher, worker, results, caller,
                   collected, outcome, events, answered>>

\* Execute rejects a call without a scanner or without scopes.
Reject ==
    /\ caller.pc = "start"
    /\ ~scanner \/ ScopeCount = 0
    /\ caller' = [caller EXCEPT !.pc = "returned"]
    /\ outcome' = EmptyOutcome("failed")
    /\ UNCHANGED <<plan, scanner, ctxDone, loop, dispatcher, worker, results,
                   collected, events, answered>>

\* dispatchScopes makes the channels and starts the workers and the dispatcher.
Start ==
    /\ caller.pc = "start"
    /\ scanner /\ ScopeCount > 0
    /\ worker' = [w \in 1..Concurrency |-> Idle]
    /\ dispatcher' = [dispatcher EXCEPT !.pc = "announce"]
    /\ collected' = [i \in Indices |-> NoResult]
    /\ caller' = [caller EXCEPT !.pc = "collect"]
    /\ UNCHANGED <<plan, scanner, ctxDone, loop, results, outcome, events, answered>>

-----------------------------------------------------------------------------
(* The dispatcher goroutine *)

\* The dispatcher tells the observer about the next scope.
Announce ==
    /\ dispatcher.pc = "announce"
    /\ events' = Append(events, [kind |-> "scope_started", index |-> dispatcher.next])
    /\ dispatcher' = [dispatcher EXCEPT !.pc = "send"]
    /\ UNCHANGED <<plan, scanner, ctxDone, loop, worker, results, caller, collected,
                   outcome, answered>>

\* The unbuffered send: the dispatcher and a receiving worker meet.
Handoff(w) ==
    /\ dispatcher.pc = "send"
    /\ worker[w].pc = "receive"
    /\ worker' = [worker EXCEPT ![w].pc = "scan", ![w].index = dispatcher.next]
    /\ dispatcher' = [pc |-> IF MoreScopes(dispatcher.next) THEN "announce" ELSE "close",
                      next |-> dispatcher.next + 1]
    /\ UNCHANGED <<plan, scanner, ctxDone, loop, results, caller, collected, outcome,
                   events, answered>>

CloseJobs ==
    /\ dispatcher.pc = "close"
    /\ dispatcher' = [dispatcher EXCEPT !.pc = "wait"]
    /\ UNCHANGED <<plan, scanner, ctxDone, loop, worker, results, caller, collected,
                   outcome, events, answered>>

\* workers.Wait() returns once every worker is done; then results is closed.
CloseResults ==
    /\ dispatcher.pc = "wait"
    /\ WorkersDone
    /\ dispatcher' = [dispatcher EXCEPT !.pc = "exited"]
    /\ UNCHANGED <<plan, scanner, ctxDone, loop, worker, results, caller, collected,
                   outcome, events, answered>>

-----------------------------------------------------------------------------
(* The worker goroutines *)

\* BatchScan returns, at the latest when the scope's deadline expires.
BatchScan(w, answer) ==
    /\ worker[w].pc = "scan"
    /\ LET i == worker[w].index
       IN  /\ answered' = [answered EXCEPT ![i] = Append(@, answer)]
           /\ worker' = [worker EXCEPT ![w].pc = "report",
                                       ![w].result = scanScope(plan.scopes[i], answer)]
    /\ UNCHANGED <<plan, scanner, ctxDone, loop, dispatcher, results, caller,
                   collected, outcome, events>>

\* The worker puts its result on the channel, whose capacity is one per scope.
Report(w) ==
    /\ worker[w].pc = "report"
    /\ Len(results) < ScopeCount
    /\ results' = Append(results, [index |-> worker[w].index, result |-> worker[w].result])
    /\ worker' = [worker EXCEPT ![w] = Idle]
    /\ UNCHANGED <<plan, scanner, ctxDone, loop, dispatcher, caller, collected,
                   outcome, events, answered>>

\* range jobs ends: the channel is closed and holds nothing.
Exit(w) ==
    /\ worker[w].pc = "receive"
    /\ jobsClosed
    /\ worker' = [worker EXCEPT ![w].pc = "exited"]
    /\ UNCHANGED <<plan, scanner, ctxDone, loop, dispatcher, results, caller,
                   collected, outcome, events, answered>>

-----------------------------------------------------------------------------
(* The calling goroutine *)

\* collectScopeResults receives one result; the index is asserted to be in range.
Collect ==
    /\ caller.pc = "collect"
    /\ results # <<>>
    /\ LET r == Head(results)
       IN  IF r.index \in Indices
           THEN /\ collected' = [collected EXCEPT ![r.index] = r.result]
                /\ caller' = [caller EXCEPT !.received = @ + 1]
           ELSE /\ caller' = [caller EXCEPT !.pc = "panicked"]
                /\ UNCHANGED collected
    /\ results' = Tail(results)
    /\ UNCHANGED <<plan, scanner, ctxDone, loop, dispatcher, worker, outcome, events,
                   answered>>

\* What collectScopeResults asserts once the channel is closed and drained.
CollectedAsPlanned ==
    /\ caller.received = ScopeCount
    /\ \A i \in Indices : collected[i] # NoResult /\ collected[i].scope = plan.scopes[i]

CollectDone ==
    /\ caller.pc = "collect"
    /\ results = <<>> /\ resultsClosed
    /\ caller' = [caller EXCEPT !.pc = IF CollectedAsPlanned THEN "merge" ELSE "panicked"]
    /\ UNCHANGED <<plan, scanner, ctxDone, loop, dispatcher, worker, results,
                   collected, outcome, events, answered>>

\* aggregateScopes takes the next scope of the plan, in plan order.
Merge ==
    /\ caller.pc = "merge"
    /\ caller.merging <= ScopeCount
    /\ LET i == caller.merging
           r == collected[i]
       IN  /\ outcome' = [outcome EXCEPT
                  !.resources = @ \o r.resources,
                  !.failed = IF r.failed THEN Append(@, r.scope) ELSE @,
                  !.unreachable = IF r.unreachable THEN @ + 1 ELSE @]
           /\ events' = Append(events,
                  [kind |-> IF r.failed THEN "scope_failed" ELSE "scope_completed",
                   index |-> i])
           /\ caller' = [caller EXCEPT !.merging = i + 1]
    /\ UNCHANGED <<plan, scanner, ctxDone, loop, dispatcher, worker, results,
                   collected, answered>>

\* assertMergedTotal adds up the resources of the next scope.
CountScope ==
    /\ caller.pc = "merge"
    /\ caller.merging > ScopeCount
    /\ loop.next <= ScopeCount
    /\ loop' = [loop EXCEPT !.next = @ + 1,
                            !.total = @ + Len(collected[loop.next].resources)]
    /\ UNCHANGED <<plan, scanner, ctxDone, dispatcher, worker, results, caller,
                   collected, outcome, events, answered>>

\* assertMergedTotal compares the sum with the merged resources.
AssertMergedTotal ==
    /\ caller.pc = "merge"
    /\ caller.merging > ScopeCount
    /\ loop.next > ScopeCount
    /\ loop' = [loop EXCEPT !.next = 1]
    /\ caller' = [caller EXCEPT !.pc =
           IF loop.total = Len(outcome.resources) THEN "dedupe" ELSE "panicked"]
    /\ UNCHANGED <<plan, scanner, ctxDone, dispatcher, worker, results,
                   collected, outcome, events, answered>>

\* dedupeResources looks at the next merged resource.
DedupeNext ==
    /\ caller.pc = "dedupe"
    /\ loop.next <= Len(outcome.resources)
    /\ loop' = [loop EXCEPT !.next = @ + 1,
                            !.kept = keepFirst(@, outcome.resources[loop.next])]
    /\ UNCHANGED <<plan, scanner, ctxDone, dispatcher, worker, results, caller,
                   collected, outcome, events, answered>>

\* aggregateScopes takes the resources that are left and asserts its counts.
Deduped ==
    /\ caller.pc = "dedupe"
    /\ loop.next > Len(outcome.resources)
    /\ outcome' = [outcome EXCEPT !.resources = loop.kept]
    /\ caller' = [caller EXCEPT !.pc =
           IF /\ Len(loop.kept) <= Len(outcome.resources)
              /\ outcome.unreachable <= Len(outcome.failed)
           THEN "decide" ELSE "panicked"]
    /\ UNCHANGED <<plan, scanner, ctxDone, loop, dispatcher, worker, results,
                   collected, events, answered>>

\* The status of the scan, from the context and the counts of aggregateScopes.
StatusOf(cancelled, failed, unreachable) ==
    CASE cancelled                                       -> "failed"
      [] ~cancelled /\ failed = <<>>                     -> "complete"
      [] ~cancelled /\ failed # <<>> /\ unreachable = ScopeCount -> "failed"
      [] OTHER                                           -> "partial"

\* Execute reads the context last, and returns.
Decide ==
    /\ caller.pc = "decide"
    /\ outcome' = [outcome EXCEPT
           !.status = StatusOf(ctxDone, outcome.failed, outcome.unreachable)]
    /\ caller' = [caller EXCEPT !.pc = "returned"]
    /\ UNCHANGED <<plan, scanner, ctxDone, loop, dispatcher, worker, results,
                   collected, events, answered>>

-----------------------------------------------------------------------------
Work(w) ==
    \/ Handoff(w)
    \/ \E answer \in Answers : BatchScan(w, answer)
    \/ Report(w)
    \/ Exit(w)

Dispatch == Announce \/ CloseJobs \/ CloseResults

Aggregate == Merge \/ CountScope \/ AssertMergedTotal \/ DedupeNext \/ Deduped

Call == Reject \/ Start \/ Collect \/ CollectDone \/ Aggregate \/ Decide

Next ==
    \/ Cancel
    \/ Dispatch
    \/ Call
    \/ \E w \in DOMAIN worker : Work(w)

\* Every goroutine that can run does, and BatchScan returns: its context has a
\* deadline.  Nothing forces the caller's context to be cancelled.
Fairness == WF_vars(Dispatch) /\ WF_vars(Call) /\ WF_vars(\E w \in DOMAIN worker : Work(w))

Spec == Init /\ [][Next]_vars /\ Fairness

-----------------------------------------------------------------------------
(* Properties *)

\* The type invariant of the executor's goroutines and channels.
TypeOK ==
    /\ plan \in Plans
    /\ scanner \in BOOLEAN
    /\ ctxDone \in BOOLEAN
    /\ dispatcher \in [pc : {"off", "announce", "send", "close", "wait", "exited"},
                       next : 1..ScopeCount + 1]
    /\ worker \in [DOMAIN worker -> [pc : {"receive", "scan", "report", "exited"},
                                     index : 0..ScopeCount,
                                     result : ResultType \cup {NoResult}]]
    /\ DOMAIN worker \in {{}, 1..Concurrency}
    /\ results \in Seq([index : Indices, result : ResultType])
    /\ caller \in [pc : {"start", "collect", "merge", "dedupe", "decide", "returned",
                         "panicked"},
                   received : Nat, merging : 1..ScopeCount + 1]
    /\ loop \in [next : Nat \ {0}, total : Nat, kept : Seq(Resources)]
    /\ collected \in [DOMAIN collected -> ResultType \cup {NoResult}]
    /\ DOMAIN collected \in {{}, Indices}
    /\ outcome \in [status : {"none", "complete", "partial", "failed"},
                    resources : Seq(Resources \cup {NoResource}),
                    failed : Seq(Scopes), unreachable : Nat]
    /\ events \in Seq([kind : {"scope_started", "scope_completed", "scope_failed"},
                       index : Indices])
    /\ answered \in [Indices -> Seq(Answers)]

\* No assertion of collectScopeResults or aggregateScopes fires: however the
\* workers interleave, every scope is filed exactly once, under its own name,
\* and the merged counts add up (executor.go's calls of assert.That).
NoPanic == caller.pc # "panicked"

\* When the result channel is closed and drained, collectScopeResults has one
\* result for every scope of the plan ("every scope has a result").
EveryScopeHasAResult ==
    caller.pc = "collect" /\ results = <<>> /\ resultsClosed => CollectedAsPlanned

\* The plugin answered the scope and reported no error, at most notices.
Clean(answer) ==
    /\ answer.kind = "response"
    /\ \A k \in DOMAIN answer.errors : answer.errors[k] = "notice"

\* A scan reported complete asked the plugin exactly once for every scope, and
\* every answer was clean.  A complete scan is what findings are resolved from
\* and what drift is computed against.
CompleteMeansObserved ==
    outcome.status = "complete" =>
        \A i \in Indices : Len(answered[i]) = 1 /\ Clean(answered[i][1])

\* Once Execute merges, decides or has returned, no goroutine it started is
\* alive, so the observer is never called from two goroutines at once and
\* nothing touches the plan or the scanner afterwards.
NoGoroutineOutlivesCollection ==
    caller.pc \in {"merge", "dedupe", "decide", "returned"} =>
        /\ dispatcher.pc \in {"off", "exited"}
        /\ \A w \in DOMAIN worker : worker[w].pc = "exited"

\* What a scan failed means (the comment at executor.go:123, ADR 0023 and
\* TestExecuteFailsOnlyWhenNoScopeAnswers): no scope answered at all.
FailedMeansNothingAnswered ==
    outcome.status = "failed" =>
        \A i \in Indices : \A n \in DOMAIN answered[i] : answered[i][n].kind # "response"

\* Execute is a function of the plan and the plugin's answers: whatever order
\* the workers finish in, the resources it returns, and the status of a scan
\* that was not cancelled, are the ones ScanContract computes in a single step
\* from the answers in plan order; a cancelled scan is never complete.
Contract ==
    INSTANCE ScanContract WITH
        hasScanner <- scanner, cancelled <- ctxDone, given <- answered,
        result <- IF caller.pc = "returned"
                  THEN [status |-> outcome.status, resources |-> outcome.resources]
                  ELSE [status |-> "none", resources |-> <<>>]

ImplementsContract == Contract!Spec

\* Execute returns, with or without a cancellation.
Returns == <>(caller.pc = "returned")
=============================================================================
