------------------------- MODULE ScanExecutorProofs -------------------------
(***************************************************************************)
(* The scan executor is type correct, files a result for every scope of    *)
(* the plan before it merges, never trips one of its own assertions, never *)
(* reports a scan complete that was not fully observed, leaves no          *)
(* goroutine behind and implements ScanContract, for every plan, every     *)
(* number of workers and every answer of the plugin.                       *)
(*                                                                         *)
(* The argument: an index of the plan that the dispatcher has handed out   *)
(* is always in one of three places, with a worker, on the result channel  *)
(* or filed (Placed), two workers never hold the same index (Distinct),    *)
(* and what a worker, the channel or the collector has for an index is     *)
(* what scanScope makes of the one answer the plugin gave for it           *)
(* (Faithful).  Counting the three places gives the number of results      *)
(* received when the channel is closed (Counted).  What the loops of       *)
(* aggregateScopes then build is a second invariant (Aggregated), and the  *)
(* refinement follows from both.                                           *)
(***************************************************************************)
EXTENDS ScanExecutor, FiniteSetTheorems, SequenceTheorems, TLAPS

Busy == {w \in DOMAIN worker : worker[w].pc \in {"scan", "report"}}

\* Where each goroutine is, relative to the others.
Phases ==
    /\ dispatcher.pc = "off" => dispatcher.next = 1
    /\ dispatcher.pc \in {"announce", "send"} => dispatcher.next \in Indices
    /\ dispatcher.pc \in {"close", "wait", "exited"} => dispatcher.next = ScopeCount + 1
    /\ dispatcher.pc = "off" <=> DOMAIN worker = {}
    /\ dispatcher.pc = "off" => results = <<>> /\ caller.received = 0
    /\ dispatcher.pc = "exited" => WorkersDone
    /\ \A w \in DOMAIN worker : worker[w].pc = "exited" => jobsClosed
    /\ caller.pc = "start" => dispatcher.pc = "off" /\ caller.merging = 1
    /\ caller.pc = "collect" => dispatcher.pc # "off" /\ caller.merging = 1
    /\ caller.pc \in {"merge", "dedupe", "decide"} =>
           dispatcher.pc = "exited" /\ results = <<>> /\ CollectedAsPlanned
    /\ caller.pc \in {"dedupe", "decide"} => caller.merging = ScopeCount + 1
    /\ caller.pc = "returned" => dispatcher.pc \in {"off", "exited"}
    /\ dispatcher.pc # "off" => scanner /\ ScopeCount > 0 /\ DOMAIN collected = Indices

Distinct ==
    /\ \A w \in Busy : worker[w].index \in 1..dispatcher.next - 1
    /\ \A v, w \in Busy : v # w => worker[v].index # worker[w].index

\* r is the result of the only answer given for index i of the scopes.
ResultOf(scopes, given, i, r) ==
    \E a \in Answers : given[i] = <<a>> /\ r = scanScope(scopes[i], a)

Faithful ==
    /\ \A i \in Indices : i >= dispatcher.next => answered[i] = <<>>
    /\ \A w \in DOMAIN worker :
           /\ worker[w].pc = "scan" => answered[worker[w].index] = <<>>
           /\ worker[w].pc = "report" => ResultOf(plan.scopes, answered, worker[w].index, worker[w].result)
    /\ \A k \in DOMAIN results : ResultOf(plan.scopes, answered, results[k].index, results[k].result)
    /\ \A i \in DOMAIN collected : collected[i] # NoResult => ResultOf(plan.scopes, answered, i, collected[i])

Placed ==
    \A i \in Indices : i < dispatcher.next =>
        \/ \E w \in Busy : worker[w].index = i
        \/ \E k \in DOMAIN results : results[k].index = i
        \/ collected[i] # NoResult

Counted == caller.received + Len(results) + Cardinality(Busy) = dispatcher.next - 1

\* What the merge has seen so far, and what a complete scan implies.
Merged ==
    /\ caller.pc # "returned" => outcome.status = "none"
    /\ caller.pc = "merge" =>
           \A i \in 1..caller.merging - 1 : collected[i].failed => outcome.failed # <<>>
    /\ caller.pc \in {"dedupe", "decide"} =>
           \A i \in Indices : collected[i].failed => outcome.failed # <<>>
    /\ outcome.status = "complete" =>
           CollectedAsPlanned /\ \A i \in Indices : ~collected[i].failed
    /\ outcome.status = "complete" => DOMAIN collected = Indices

IInv == TypeOK /\ Phases /\ Distinct /\ Faithful /\ Placed /\ Counted /\ Merged

-----------------------------------------------------------------------------
(* Facts about the plan, the results and the workers *)

\* What the type of a plan gives: the number of scopes is a natural number and,
\* when there are scopes, there is at least one worker.
LEMMA PlanFacts ==
    ASSUME plan \in Plans
    PROVE  /\ plan.scopes \in Seq(Scopes)
           /\ ScopeCount \in Nat
           /\ Indices = 1..ScopeCount
           /\ \A i \in Indices : plan.scopes[i] \in Scopes
           /\ Concurrency \in Nat
           /\ ScopeCount > 0 => Concurrency >= 1
  BY PlansAssumption DEF ScopeCount, Indices, Concurrency

\* scanScope turns every answer of the plugin into a ScopeResult of its scope.
LEMMA ScanScopeFacts ==
    ASSUME NEW scope \in Scopes, NEW answer \in Answers
    PROVE  /\ scanScope(scope, answer) \in ResultType
           /\ scanScope(scope, answer).scope = scope
           /\ scanScope(scope, answer) # NoResult
           /\ ~scanScope(scope, answer).failed => Clean(answer)
  <1>1. answer \in AnswerType
    BY AnswersAssumption
  <1>2. scanScope(scope, answer) \in ResultType
    BY <1>1 DEF scanScope, ResultType, AnswerType, IsScanError
  <1>3. scanScope(scope, answer).scope = scope
    BY DEF scanScope
  <1>4. ~scanScope(scope, answer).failed => Clean(answer)
    BY <1>1 DEF scanScope, Clean, AnswerType, IsScanError
  <1> QED
    BY <1>2, <1>3, <1>4, NoResultAssumption

\* A sequence something was appended to is not empty.
LEMMA AppendNotEmpty ==
    ASSUME NEW S, NEW seq \in Seq(S), NEW e \in S
    PROVE  Append(seq, e) # <<>>
  <1>1. Len(Append(seq, e)) = Len(seq) + 1 /\ Len(seq) \in Nat
    BY AppendProperties, LenProperties
  <1>2. Len(<<>>) = 0
    BY EmptySeq
  <1> QED
    BY <1>1, <1>2

\* A sequence of one element is not empty.
LEMMA SingletonNotEmpty == \A a : <<a>> # <<>>
  OBVIOUS

\* Changing one field of the caller's state keeps its type.
LEMMA CallerFields ==
    ASSUME NEW T, NEW M, NEW c \in [pc : T, received : Nat, merging : M],
           NEW n \in Nat, NEW m \in M
    PROVE  /\ [c EXCEPT !.received = n] \in [pc : T, received : Nat, merging : M]
           /\ [c EXCEPT !.merging = m] \in [pc : T, received : Nat, merging : M]
  OBVIOUS

\* Changing fields of the loop variables keeps their types.
LEMMA LoopFields ==
    ASSUME NEW N, NEW T, NEW K, NEW l \in [next : N, total : T, kept : K],
           NEW n \in N, NEW t \in T, NEW k \in K
    PROVE  /\ [l EXCEPT !.next = n] \in [next : N, total : T, kept : K]
           /\ [l EXCEPT !.next = n, !.total = t] \in [next : N, total : T, kept : K]
           /\ [l EXCEPT !.next = n, !.kept = k] \in [next : N, total : T, kept : K]
  OBVIOUS

\* The outcome Execute starts with, or rejects a call with, has its type.
LEMMA EmptyOutcomeType ==
    ASSUME NEW status \in {"none", "complete", "partial", "failed"}
    PROVE  EmptyOutcome(status) \in [status : {"none", "complete", "partial", "failed"},
                                     resources : Seq(Resources \cup {NoResource}),
                                     failed : Seq(Scopes), unreachable : Nat]
  <1>1. <<>> \in Seq(Resources \cup {NoResource}) /\ <<>> \in Seq(Scopes)
    BY EmptySeq
  <1> QED
    BY <1>1 DEF EmptyOutcome

\* The set of busy workers is finite.
LEMMA BusyFinite ==
    ASSUME TypeOK
    PROVE  IsFiniteSet(Busy) /\ Cardinality(Busy) \in Nat
  <1>1. Concurrency \in Nat
    BY PlanFacts DEF TypeOK
  <1>2. IsFiniteSet(1..Concurrency) /\ IsFiniteSet({})
    BY <1>1, FS_Interval, FS_EmptySet
  <1>3. IsFiniteSet(DOMAIN worker)
    BY <1>2 DEF TypeOK
  <1>4. Busy \subseteq DOMAIN worker
    BY DEF Busy
  <1> QED
    BY <1>3, <1>4, FS_Subset, FS_CardinalityType

-----------------------------------------------------------------------------
\* The invariant holds initially.
LEMMA InitInv == Init => IInv
  <1> SUFFICES ASSUME Init PROVE IInv
    OBVIOUS
  <1> USE DEF Init
  <1>1. /\ ScopeCount \in Nat /\ Indices = 1..ScopeCount /\ Concurrency \in Nat
        /\ DOMAIN worker = {} /\ DOMAIN collected = {}
    BY PlanFacts
  <1>2. Busy = {}
    BY <1>1 DEF Busy
  <1>3. TypeOK
    <2>1. worker \in [DOMAIN worker -> [pc : {"receive", "scan", "report", "exited"},
                                       index : 0..ScopeCount,
                                       result : ResultType \cup {NoResult}]]
      BY <1>1
    <2>2. collected \in [DOMAIN collected -> ResultType \cup {NoResult}]
      BY <1>1
    <2>3. answered \in [Indices -> Seq(Answers)]
      BY <1>1 DEF Indices, ScopeCount
    <2>4. dispatcher.next \in 1..ScopeCount + 1 /\ caller.merging \in 1..ScopeCount + 1
      BY <1>1
    <2>5. /\ outcome = [status |-> "none", resources |-> <<>>, failed |-> <<>>, unreachable |-> 0]
          /\ ctxDone = FALSE
      BY DEF EmptyOutcome
    <2>6. /\ dispatcher \in [pc : {"off", "announce", "send", "close", "wait", "exited"},
                            next : 1..ScopeCount + 1]
          /\ caller \in [pc : {"start", "collect", "merge", "dedupe", "decide", "returned", "panicked"},
                        received : Nat, merging : 1..ScopeCount + 1]
      BY <2>4
    <2>7. /\ results \in Seq([index : Indices, result : ResultType])
          /\ events \in Seq([kind : {"scope_started", "scope_completed", "scope_failed"},
                             index : Indices])
      BY EmptySeq
    <2>9. outcome \in [status : {"none", "complete", "partial", "failed"},
                       resources : Seq(Resources \cup {NoResource}),
                       failed : Seq(Scopes), unreachable : Nat]
      BY EmptyOutcomeType
    <2>8. loop \in [next : Nat \ {0}, total : Nat, kept : Seq(Resources)]
      <3>1. <<>> \in Seq(Resources)
        BY EmptySeq
      <3> QED
        BY <3>1
    <2> QED
      BY <1>1, <2>1, <2>2, <2>3, <2>5, <2>6, <2>7, <2>8, <2>9 DEF TypeOK
  <1>4. Phases
    BY <1>1 DEF Phases, jobsClosed, WorkersDone
  <1>5. Distinct /\ Faithful
    BY <1>1, <1>2 DEF Distinct, Faithful, Indices, ScopeCount
  <1>6. Placed
    BY <1>1 DEF Placed
  <1>7. Counted
    BY <1>2, FS_EmptySet DEF Counted
  <1>8. Merged
    BY DEF Merged, EmptyOutcome
  <1> QED
    BY <1>3, <1>4, <1>5, <1>6, <1>7, <1>8 DEF IInv

\* A cancellation of the context keeps the invariant.
LEMMA CancelInv ==
    ASSUME IInv, Cancel
    PROVE  IInv'
  <1>0. /\ ScopeCount' = ScopeCount /\ Indices' = Indices /\ Concurrency' = Concurrency
        /\ ScopeCount \in Nat /\ Indices = 1..ScopeCount /\ Concurrency \in Nat
        /\ ScopeCount > 0 => Concurrency >= 1
    BY PlanFacts DEF IInv, TypeOK, ScopeCount, Indices, Concurrency, Cancel
  <1>u. UNCHANGED <<plan, scanner, loop, dispatcher, worker, results, caller,
                    collected, outcome, events, answered>>
    BY DEF Cancel
  <1>1. TypeOK'
    BY <1>0 DEF IInv, TypeOK, Cancel
  <1>2. Phases'
    BY <1>0 DEF IInv, TypeOK, Phases, jobsClosed, resultsClosed, WorkersDone, CollectedAsPlanned, Cancel
  <1>3. Distinct'
    BY <1>0, <1>u DEF IInv, Distinct, Busy
  <1>4. Faithful'
    BY <1>0, <1>u DEF IInv, Faithful
  <1>5. Placed'
    BY <1>0, <1>u DEF IInv, Placed, Busy
  <1>6. Counted'
    BY <1>0, <1>u DEF IInv, Counted, Busy
  <1>7. Merged'
    BY <1>0, <1>u DEF IInv, Merged, CollectedAsPlanned
  <1> QED
    BY <1>1, <1>2, <1>3, <1>4, <1>5, <1>6, <1>7 DEF IInv

\* Rejecting a call without scanner or scopes keeps the invariant.
LEMMA RejectInv ==
    ASSUME IInv, Reject
    PROVE  IInv'
  <1>0. /\ ScopeCount' = ScopeCount /\ Indices' = Indices /\ Concurrency' = Concurrency
        /\ ScopeCount \in Nat /\ Indices = 1..ScopeCount /\ Concurrency \in Nat
        /\ ScopeCount > 0 => Concurrency >= 1
    BY PlanFacts DEF IInv, TypeOK, ScopeCount, Indices, Concurrency, Reject
  <1>u. /\ caller'.received = caller.received
        /\ UNCHANGED <<plan, scanner, ctxDone, loop, dispatcher, worker,
                    results, collected, events, answered>>
    BY DEF IInv, TypeOK, Reject
  <1>1. TypeOK'
    <2>1. outcome' = [status |-> "failed", resources |-> <<>>, failed |-> <<>>, unreachable |-> 0]
      BY DEF Reject, EmptyOutcome
    <2>2. outcome' \in [status : {"none", "complete", "partial", "failed"},
                        resources : Seq(Resources \cup {NoResource}),
                        failed : Seq(Scopes), unreachable : Nat]
      BY <2>1, EmptySeq
    <2>3. caller' \in [pc : {"start", "collect", "merge", "dedupe", "decide", "returned", "panicked"},
                      received : Nat, merging : 1..ScopeCount + 1]
      BY DEF IInv, TypeOK, Reject
    <2>4. UNCHANGED <<plan, scanner, ctxDone, loop, dispatcher, worker, results, collected, events, answered>>
      BY DEF Reject
    <2> QED
      BY <1>0, <2>2, <2>3, <2>4 DEF IInv, TypeOK
  <1>2. Phases'
    BY <1>0 DEF IInv, TypeOK, Phases, jobsClosed, resultsClosed, WorkersDone, CollectedAsPlanned, Reject
  <1>3. Distinct'
    BY <1>0, <1>u DEF IInv, Distinct, Busy
  <1>4. Faithful'
    BY <1>0, <1>u DEF IInv, Faithful
  <1>5. Placed'
    BY <1>0, <1>u DEF IInv, Placed, Busy
  <1>6. Counted'
    BY <1>0, <1>u DEF IInv, Counted, Busy
  <1>7. Merged'
    BY <1>0 DEF IInv, TypeOK, Merged, CollectedAsPlanned, Reject, EmptyOutcome
  <1> QED
    BY <1>1, <1>2, <1>3, <1>4, <1>5, <1>6, <1>7 DEF IInv

\* Starting the workers and the dispatcher keeps the invariant.
LEMMA StartInv ==
    ASSUME IInv, Start
    PROVE  IInv'
  <1>0. /\ ScopeCount' = ScopeCount /\ Indices' = Indices /\ Concurrency' = Concurrency
        /\ ScopeCount \in Nat /\ Indices = 1..ScopeCount /\ Concurrency \in Nat
        /\ ScopeCount > 0 => Concurrency >= 1
    BY PlanFacts DEF IInv, TypeOK, ScopeCount, Indices, Concurrency, Start
  <1>u. UNCHANGED <<plan, scanner, ctxDone, loop, results, outcome, events, answered>>
    BY DEF Start
  <1>s. /\ DOMAIN worker' = 1..Concurrency /\ DOMAIN collected' = Indices
        /\ \A w \in DOMAIN worker' : worker'[w] = Idle
        /\ \A i \in Indices : collected'[i] = NoResult
        /\ Busy' = {}
    BY <1>0 DEF IInv, TypeOK, Start, Busy, Idle
  <1>t. /\ dispatcher.pc = "off" /\ dispatcher.next = 1 /\ results = <<>> /\ caller.received = 0
        /\ dispatcher' = [pc |-> "announce", next |-> 1]
        /\ caller' = [pc |-> "collect", received |-> 0, merging |-> caller.merging]
    BY DEF IInv, TypeOK, Phases, Start
  <1>1. TypeOK'
    <2>1. worker' \in [DOMAIN worker' -> [pc : {"receive", "scan", "report", "exited"},
                                         index : 0..ScopeCount,
                                         result : ResultType \cup {NoResult}]]
      BY <1>0 DEF Start, Idle
    <2>2. collected' \in [DOMAIN collected' -> ResultType \cup {NoResult}]
      BY DEF Start
    <2> QED
      BY <1>0, <1>s, <1>t, <2>1, <2>2 DEF IInv, TypeOK, Start
  <1>2. Phases'
    BY <1>0, <1>s, <1>t DEF IInv, TypeOK, Phases, Start, Idle, jobsClosed
  <1>3. Distinct'
    BY <1>s DEF Distinct
  <1>4. Faithful'
    BY <1>0, <1>s, <1>t DEF IInv, Faithful, Start, Idle
  <1>5. Placed'
    BY <1>0, <1>t DEF Placed
  <1>6. Counted'
    BY <1>s, <1>t, FS_EmptySet DEF Counted, Start
  <1>7. Merged'
    BY <1>0, <1>u DEF IInv, Merged, CollectedAsPlanned, TypeOK, Start
  <1> QED
    BY <1>1, <1>2, <1>3, <1>4, <1>5, <1>6, <1>7 DEF IInv

\* Announcing a scope to the observer keeps the invariant.
LEMMA AnnounceInv ==
    ASSUME IInv, Announce
    PROVE  IInv'
  <1>0. /\ ScopeCount' = ScopeCount /\ Indices' = Indices /\ Concurrency' = Concurrency
        /\ ScopeCount \in Nat /\ Indices = 1..ScopeCount /\ Concurrency \in Nat
        /\ ScopeCount > 0 => Concurrency >= 1
    BY PlanFacts DEF IInv, TypeOK, ScopeCount, Indices, Concurrency, Announce
  <1>u. /\ dispatcher'.next = dispatcher.next
        /\ UNCHANGED <<plan, scanner, ctxDone, loop, worker, results,
                    caller, collected, outcome, answered>>
    BY DEF IInv, TypeOK, Announce
  <1>1. TypeOK'
    <2>1. [kind |-> "scope_started", index |-> dispatcher.next]
             \in [kind : {"scope_started", "scope_completed", "scope_failed"}, index : Indices]
      BY DEF IInv, Phases, Announce
    <2>2. events' \in Seq([kind : {"scope_started", "scope_completed", "scope_failed"},
                           index : Indices])
      BY <2>1, AppendProperties DEF IInv, TypeOK, Announce
    <2> QED
      BY <1>0, <2>2 DEF IInv, TypeOK, Announce
  <1>2. Phases'
    BY <1>0 DEF IInv, TypeOK, Phases, jobsClosed, resultsClosed, WorkersDone, CollectedAsPlanned, Announce
  <1>3. Distinct'
    BY <1>0, <1>u DEF IInv, Distinct, Busy
  <1>4. Faithful'
    BY <1>0, <1>u DEF IInv, Faithful
  <1>5. Placed'
    BY <1>0, <1>u DEF IInv, Placed, Busy
  <1>6. Counted'
    BY <1>0, <1>u DEF IInv, Counted, Busy
  <1>7. Merged'
    BY <1>0, <1>u DEF IInv, Merged, CollectedAsPlanned
  <1> QED
    BY <1>1, <1>2, <1>3, <1>4, <1>5, <1>6, <1>7 DEF IInv

\* Closing the jobs channel keeps the invariant.
LEMMA CloseJobsInv ==
    ASSUME IInv, CloseJobs
    PROVE  IInv'
  <1>0. /\ ScopeCount' = ScopeCount /\ Indices' = Indices /\ Concurrency' = Concurrency
        /\ ScopeCount \in Nat /\ Indices = 1..ScopeCount /\ Concurrency \in Nat
        /\ ScopeCount > 0 => Concurrency >= 1
    BY PlanFacts DEF IInv, TypeOK, ScopeCount, Indices, Concurrency, CloseJobs
  <1>u. /\ dispatcher'.next = dispatcher.next
        /\ UNCHANGED <<plan, scanner, ctxDone, loop, worker, results, caller,
                    collected, outcome, events, answered>>
    BY DEF IInv, TypeOK, CloseJobs
  <1>1. TypeOK'
    BY <1>0 DEF IInv, TypeOK, CloseJobs
  <1>2. Phases'
    BY <1>0 DEF IInv, TypeOK, Phases, jobsClosed, resultsClosed, WorkersDone, CollectedAsPlanned, CloseJobs
  <1>3. Distinct'
    BY <1>0, <1>u DEF IInv, Distinct, Busy
  <1>4. Faithful'
    BY <1>0, <1>u DEF IInv, Faithful
  <1>5. Placed'
    BY <1>0, <1>u DEF IInv, Placed, Busy
  <1>6. Counted'
    BY <1>0, <1>u DEF IInv, Counted, Busy
  <1>7. Merged'
    BY <1>0, <1>u DEF IInv, Merged, CollectedAsPlanned
  <1> QED
    BY <1>1, <1>2, <1>3, <1>4, <1>5, <1>6, <1>7 DEF IInv

\* Closing the results channel after workers.Wait keeps the invariant.
LEMMA CloseResultsInv ==
    ASSUME IInv, CloseResults
    PROVE  IInv'
  <1>0. /\ ScopeCount' = ScopeCount /\ Indices' = Indices /\ Concurrency' = Concurrency
        /\ ScopeCount \in Nat /\ Indices = 1..ScopeCount /\ Concurrency \in Nat
        /\ ScopeCount > 0 => Concurrency >= 1
    BY PlanFacts DEF IInv, TypeOK, ScopeCount, Indices, Concurrency, CloseResults
  <1>u. /\ dispatcher'.next = dispatcher.next
        /\ UNCHANGED <<plan, scanner, ctxDone, loop, worker, results, caller,
                    collected, outcome, events, answered>>
    BY DEF IInv, TypeOK, CloseResults
  <1>1. TypeOK'
    BY <1>0 DEF IInv, TypeOK, CloseResults
  <1>2. Phases'
    BY <1>0 DEF IInv, TypeOK, Phases, jobsClosed, resultsClosed, WorkersDone, CollectedAsPlanned, CloseResults
  <1>3. Distinct'
    BY <1>0, <1>u DEF IInv, Distinct, Busy
  <1>4. Faithful'
    BY <1>0, <1>u DEF IInv, Faithful
  <1>5. Placed'
    BY <1>0, <1>u DEF IInv, Placed, Busy
  <1>6. Counted'
    BY <1>0, <1>u DEF IInv, Counted, Busy
  <1>7. Merged'
    BY <1>0, <1>u DEF IInv, Merged, CollectedAsPlanned
  <1> QED
    BY <1>1, <1>2, <1>3, <1>4, <1>5, <1>6, <1>7 DEF IInv

\* Filing one received result keeps the invariant.
LEMMA CollectInv ==
    ASSUME IInv, Collect
    PROVE  IInv'
  <1>0. /\ ScopeCount' = ScopeCount /\ Indices' = Indices /\ Concurrency' = Concurrency
        /\ ScopeCount \in Nat /\ Indices = 1..ScopeCount /\ Concurrency \in Nat
        /\ ScopeCount > 0 => Concurrency >= 1
    BY PlanFacts DEF IInv, TypeOK, ScopeCount, Indices, Concurrency, Collect
  <1>u. UNCHANGED <<plan, scanner, ctxDone, loop, dispatcher, worker, outcome, events, answered>>
    BY DEF Collect
  <1>r. /\ Head(results) \in [index : Indices, result : ResultType]
        /\ Tail(results) \in Seq([index : Indices, result : ResultType])
        /\ Len(results) \in Nat /\ Len(results') = Len(results) - 1
        /\ DOMAIN results = 1..Len(results) /\ DOMAIN results' = 1..Len(results) - 1
        /\ \A k \in DOMAIN results' : results'[k] = results[k + 1]
        /\ results[1] = Head(results) /\ Len(results) >= 1
    <2> DEFINE R == [index : Indices, result : ResultType]
    <2>1. results \in Seq(R) /\ results # <<>> /\ results' = Tail(results)
      BY DEF IInv, TypeOK, Collect
    <2> HIDE DEF R
    <2>2. Head(results) \in R /\ Tail(results) \in Seq(R)
      BY <2>1, HeadTailProperties
    <2>3. /\ Len(results) \in Nat /\ DOMAIN results = 1..Len(results) /\ Len(results) >= 1
          /\ results[1] = Head(results)
      BY <2>1
    <2>4. /\ Len(results') = Len(results) - 1
          /\ DOMAIN results' = 1..Len(results) - 1
          /\ \A k \in DOMAIN results' : results'[k] = results[k + 1]
      BY <2>1, <2>3
    <2> QED
      BY <2>2, <2>3, <2>4 DEF R
  <1>c. /\ DOMAIN collected = Indices /\ DOMAIN collected' = Indices
        /\ collected'[Head(results).index] = Head(results).result
        /\ \A i \in Indices : i # Head(results).index => collected'[i] = collected[i]
        /\ caller' = [caller EXCEPT !.received = @ + 1]
        /\ UNCHANGED <<plan, dispatcher, worker, outcome, events, answered>>
    BY <1>0, <1>r DEF IInv, TypeOK, Phases, Collect
  <1>1. TypeOK'
    <2>1. collected' \in [DOMAIN collected' -> ResultType \cup {NoResult}]
      BY <1>0, <1>r DEF IInv, TypeOK, Collect
    <2>2. caller' \in [pc : {"start", "collect", "merge", "dedupe", "decide", "returned", "panicked"},
                      received : Nat, merging : 1..ScopeCount + 1]
      <3>1. caller.received \in Nat /\ caller.received + 1 \in Nat
        BY DEF IInv, TypeOK
      <3> QED
        BY <1>0, <1>c, <3>1, CallerFields DEF IInv, TypeOK
    <2>3. results' \in Seq([index : Indices, result : ResultType])
      BY <1>r DEF Collect
    <2>4. UNCHANGED <<plan, scanner, ctxDone, loop, dispatcher, worker, outcome, events, answered>>
      BY DEF Collect
    <2> QED
      BY <1>0, <1>c, <2>1, <2>2, <2>3, <2>4 DEF IInv, TypeOK
  <1>2. Phases'
    BY <1>0 DEF IInv, TypeOK, Phases, jobsClosed, resultsClosed, WorkersDone, CollectedAsPlanned, Collect
  <1>3. Distinct'
    BY <1>0, <1>u DEF IInv, Distinct, Busy
  <1>4. Faithful'
    <2>1. plan' = plan /\ answered' = answered
      BY <1>c
    <2>2. ResultOf(plan.scopes, answered, Head(results).index, Head(results).result)
      BY <1>r DEF IInv, Faithful
    <2>3. \A k \in DOMAIN results' : ResultOf(plan.scopes, answered, results'[k].index, results'[k].result)
      BY <1>r DEF IInv, Faithful
    <2>4. \A i \in Indices : collected'[i] # NoResult => ResultOf(plan.scopes, answered, i, collected'[i])
      BY <1>c, <2>2 DEF IInv, Faithful
    <2>5. \A w \in DOMAIN worker :
             /\ worker[w].pc = "scan" => answered[worker[w].index] = <<>>
             /\ worker[w].pc = "report" => ResultOf(plan.scopes, answered, worker[w].index, worker[w].result)
      BY DEF IInv, Faithful
    <2> QED
      BY <1>0, <1>c, <2>1, <2>3, <2>4, <2>5 DEF IInv, Faithful
  <1>5. Placed'
    <2> SUFFICES ASSUME NEW i \in Indices, i < dispatcher.next,
                        ~ \E w \in Busy : worker[w].index = i,
                        ~ \E k \in DOMAIN results' : results'[k].index = i
                 PROVE  collected'[i] # NoResult
      BY <1>0, <1>c DEF Placed, Busy
    <2>1. CASE i = Head(results).index
      BY <1>r, <1>c, <2>1, NoResultAssumption
    <2>2. CASE i # Head(results).index
      <3>1. ~ \E k \in DOMAIN results : results[k].index = i
        <4> SUFFICES ASSUME NEW k \in DOMAIN results, results[k].index = i PROVE FALSE
          OBVIOUS
        <4>1. k # 1 /\ k - 1 \in DOMAIN results'
          BY <1>r, <2>2
        <4> QED
          BY <1>r, <4>1
      <3> QED
        BY <1>c, <2>2, <3>1 DEF IInv, Placed
    <2> QED
      BY <2>1, <2>2
  <1>6. Counted'
    <2>1. Busy' = Busy
      BY <1>c DEF Busy
    <2> QED
      BY <1>r, <1>c, <2>1, BusyFinite DEF IInv, TypeOK, Counted
  <1>7. Merged'
    <2>1. caller.pc = "collect" /\ outcome' = outcome
      BY <1>c DEF Collect
    <2>2. caller'.pc = "collect"
      BY <1>c, <2>1 DEF IInv, TypeOK
    <2>3. outcome.status = "none"
      BY <2>1 DEF IInv, Merged
    <2> QED
      BY <2>1, <2>2, <2>3 DEF Merged
  <1> QED
    BY <1>1, <1>2, <1>3, <1>4, <1>5, <1>6, <1>7 DEF IInv

\* The end of collectScopeResults keeps the invariant.
LEMMA CollectDoneInv ==
    ASSUME IInv, CollectDone
    PROVE  IInv'
  <1>0. /\ ScopeCount' = ScopeCount /\ Indices' = Indices /\ Concurrency' = Concurrency
        /\ ScopeCount \in Nat /\ Indices = 1..ScopeCount /\ Concurrency \in Nat
        /\ ScopeCount > 0 => Concurrency >= 1
    BY PlanFacts DEF IInv, TypeOK, ScopeCount, Indices, Concurrency, CollectDone
  <1>u. /\ caller'.received = caller.received
        /\ UNCHANGED <<plan, scanner, ctxDone, loop, dispatcher, worker, results,
                    collected, outcome, events, answered>>
    BY DEF IInv, TypeOK, CollectDone
  <1>1. TypeOK'
    BY <1>0 DEF IInv, TypeOK, CollectDone
  <1>2. Phases'
    BY <1>0 DEF IInv, TypeOK, Phases, jobsClosed, resultsClosed, WorkersDone, CollectedAsPlanned, CollectDone
  <1>3. Distinct'
    BY <1>0, <1>u DEF IInv, Distinct, Busy
  <1>4. Faithful'
    BY <1>0, <1>u DEF IInv, Faithful
  <1>5. Placed'
    BY <1>0, <1>u DEF IInv, Placed, Busy
  <1>6. Counted'
    BY <1>0, <1>u DEF IInv, Counted, Busy
  <1>7. Merged'
    BY <1>0 DEF IInv, TypeOK, Phases, Merged, CollectedAsPlanned, CollectDone
  <1> QED
    BY <1>1, <1>2, <1>3, <1>4, <1>5, <1>6, <1>7 DEF IInv

\* Merging one scope in aggregateScopes keeps the invariant.
LEMMA MergeInv ==
    ASSUME IInv, Merge
    PROVE  IInv'
  <1>0. /\ ScopeCount' = ScopeCount /\ Indices' = Indices /\ Concurrency' = Concurrency
        /\ ScopeCount \in Nat /\ Indices = 1..ScopeCount /\ Concurrency \in Nat
        /\ ScopeCount > 0 => Concurrency >= 1
    BY PlanFacts DEF IInv, TypeOK, ScopeCount, Indices, Concurrency, Merge
  <1>u. /\ caller'.received = caller.received
        /\ UNCHANGED <<plan, scanner, ctxDone, loop, dispatcher, worker, results, collected, answered>>
    BY DEF IInv, TypeOK, Merge
  <1>i. /\ caller.merging \in Indices
        /\ collected[caller.merging] \in ResultType
        /\ caller'.pc = "merge" /\ caller'.merging = caller.merging + 1
        /\ caller'.received = caller.received
    BY <1>0 DEF IInv, TypeOK, Phases, CollectedAsPlanned, Merge
  <1>o. /\ outcome'.status = outcome.status
        /\ outcome'.failed = IF collected[caller.merging].failed
                             THEN Append(outcome.failed, collected[caller.merging].scope)
                             ELSE outcome.failed
        /\ outcome'.unreachable = IF collected[caller.merging].unreachable
                                  THEN outcome.unreachable + 1 ELSE outcome.unreachable
        /\ outcome'.resources = outcome.resources \o collected[caller.merging].resources
    BY DEF IInv, TypeOK, Merge
  <1>1. TypeOK'
    <2>1. outcome' \in [status : {"none", "complete", "partial", "failed"},
                        resources : Seq(Resources \cup {NoResource}),
                        failed : Seq(Scopes), unreachable : Nat]
      <3>1. PICK rs, fs, n : outcome' = [outcome EXCEPT !.resources = rs, !.failed = fs, !.unreachable = n]
        BY DEF Merge
      <3>2. rs = outcome'.resources /\ fs = outcome'.failed /\ n = outcome'.unreachable
        BY <3>1 DEF IInv, TypeOK
      <3>3. fs \in Seq(Scopes) /\ n \in Nat
        <4>1. outcome.failed \in Seq(Scopes) /\ outcome.unreachable \in Nat
          BY DEF IInv, TypeOK
        <4>2. collected[caller.merging].scope \in Scopes
          BY <1>i DEF ResultType
        <4> QED
          BY <1>o, <3>2, <4>1, <4>2
      <3>4. /\ outcome.resources \in Seq(Resources \cup {NoResource})
            /\ collected[caller.merging].resources \in Seq(Resources \cup {NoResource})
            /\ rs = outcome.resources \o collected[caller.merging].resources
        BY <1>i, <1>o, <3>2 DEF IInv, TypeOK, ResultType
      <3>5. rs \in Seq(Resources \cup {NoResource})
        BY <3>4, ConcatProperties
      <3> QED
        BY <3>1, <3>3, <3>5 DEF IInv, TypeOK
    <2>2. caller' \in [pc : {"start", "collect", "merge", "dedupe", "decide", "returned", "panicked"},
                      received : Nat, merging : 1..ScopeCount + 1]
      <3>1. caller' = [caller EXCEPT !.merging = caller.merging + 1]
        BY DEF Merge
      <3>2. caller.merging + 1 \in 1..ScopeCount + 1
        BY <1>0, <1>i
      <3> QED
        BY <3>1, <3>2, CallerFields DEF IInv, TypeOK
    <2>3. events' \in Seq([kind : {"scope_started", "scope_completed", "scope_failed"},
                           index : Indices])
      <3>1. PICK e : /\ events' = Append(events, e)
                     /\ e \in [kind : {"scope_started", "scope_completed", "scope_failed"},
                              index : Indices]
        BY <1>i DEF Merge
      <3> QED
        BY <3>1, AppendProperties DEF IInv, TypeOK
    <2>4. UNCHANGED <<plan, scanner, ctxDone, loop, dispatcher, worker, results, collected, answered>>
      BY DEF Merge
    <2> QED
      BY <1>0, <1>o, <2>1, <2>2, <2>3, <2>4 DEF IInv, TypeOK
  <1>2. Phases'
    BY <1>0 DEF IInv, TypeOK, Phases, jobsClosed, resultsClosed, WorkersDone, CollectedAsPlanned, Merge
  <1>3. Distinct'
    BY <1>0, <1>u DEF IInv, Distinct, Busy
  <1>4. Faithful'
    BY <1>0, <1>u DEF IInv, Faithful
  <1>5. Placed'
    BY <1>0, <1>u DEF IInv, Placed, Busy
  <1>6. Counted'
    BY <1>0, <1>u DEF IInv, Counted, Busy
  <1>7. Merged'
    <2>1. outcome.failed \in Seq(Scopes) /\ collected[caller.merging].scope \in Scopes
      BY <1>i DEF IInv, TypeOK, ResultType
    <2>2. collected[caller.merging].failed => outcome'.failed # <<>>
      BY <1>o, <2>1, AppendNotEmpty
    <2>3. outcome.failed # <<>> => outcome'.failed # <<>>
      BY <1>o, <2>1, AppendNotEmpty
    <2>4. /\ collected' = collected /\ plan' = plan /\ outcome.status = "none"
          /\ \A i \in 1..caller.merging - 1 : collected[i].failed => outcome.failed # <<>>
      BY DEF IInv, Merged, Merge
    <2>5. \A i \in 1..caller'.merging - 1 : collected[i].failed => outcome'.failed # <<>>
      <3> SUFFICES ASSUME NEW i \in 1..caller'.merging - 1, collected[i].failed
                   PROVE  outcome'.failed # <<>>
        OBVIOUS
      <3>1. i = caller.merging \/ i \in 1..caller.merging - 1
        BY <1>0, <1>i
      <3> QED
        BY <2>2, <2>3, <2>4, <3>1
    <2> QED
      BY <1>i, <1>o, <2>4, <2>5 DEF Merged
  <1> QED
    BY <1>1, <1>2, <1>3, <1>4, <1>5, <1>6, <1>7 DEF IInv

\* Adding up the resources of a scope in assertMergedTotal keeps the invariant.
LEMMA CountScopeInv ==
    ASSUME IInv, CountScope
    PROVE  IInv'
  <1>0. /\ ScopeCount' = ScopeCount /\ Indices' = Indices /\ Concurrency' = Concurrency
        /\ ScopeCount \in Nat /\ Indices = 1..ScopeCount /\ Concurrency \in Nat
        /\ ScopeCount > 0 => Concurrency >= 1
    BY PlanFacts DEF IInv, TypeOK, ScopeCount, Indices, Concurrency, CountScope
  <1>u. UNCHANGED <<plan, scanner, ctxDone, dispatcher, worker, results, caller,
                    collected, outcome, events, answered>>
    BY DEF CountScope
  <1>1. TypeOK'
    <2>1. loop' \in [next : Nat \ {0}, total : Nat, kept : Seq(Resources)]
      <3>1. loop.next \in Indices
        BY <1>0 DEF IInv, TypeOK, CountScope
      <3>2. collected[loop.next] \in ResultType
        BY <3>1 DEF IInv, TypeOK, Phases, CollectedAsPlanned, CountScope
      <3>3. Len(collected[loop.next].resources) \in Nat
        BY <3>2 DEF ResultType
      <3> DEFINE n == Len(collected[loop.next].resources)
      <3>4. /\ loop \in [next : Nat \ {0}, total : Nat, kept : Seq(Resources)]
            /\ loop' = [loop EXCEPT !.next = loop.next + 1, !.total = loop.total + n]
        BY DEF IInv, TypeOK, CountScope
      <3>5. n \in Nat
        BY <3>3
      <3> HIDE DEF n
      <3>6. loop.next + 1 \in Nat \ {0} /\ loop.total + n \in Nat /\ loop.kept \in Seq(Resources)
        BY <3>4, <3>5
      <3> QED
        BY <3>4, <3>6, LoopFields
    <2> QED
      BY <1>0, <1>u, <2>1 DEF IInv, TypeOK
  <1>2. Phases'
    BY <1>0, <1>u DEF IInv, Phases, jobsClosed, resultsClosed, WorkersDone, CollectedAsPlanned
  <1>3. Distinct'
    BY <1>0, <1>u DEF IInv, Distinct, Busy
  <1>4. Faithful'
    BY <1>0, <1>u DEF IInv, Faithful
  <1>5. Placed'
    BY <1>0, <1>u DEF IInv, Placed, Busy
  <1>6. Counted'
    BY <1>0, <1>u DEF IInv, Counted, Busy
  <1>7. Merged'
    BY <1>0, <1>u DEF IInv, Merged, CollectedAsPlanned
  <1> QED
    BY <1>1, <1>2, <1>3, <1>4, <1>5, <1>6, <1>7 DEF IInv

\* The assertion of assertMergedTotal keeps the invariant.
LEMMA AssertMergedTotalInv ==
    ASSUME IInv, AssertMergedTotal
    PROVE  IInv'
  <1>0. /\ ScopeCount' = ScopeCount /\ Indices' = Indices /\ Concurrency' = Concurrency
        /\ ScopeCount \in Nat /\ Indices = 1..ScopeCount /\ Concurrency \in Nat
        /\ ScopeCount > 0 => Concurrency >= 1
    BY PlanFacts DEF IInv, TypeOK, ScopeCount, Indices, Concurrency, AssertMergedTotal
  <1>u. /\ caller'.received = caller.received
        /\ UNCHANGED <<plan, scanner, ctxDone, dispatcher, worker,
                    results, collected, events, answered>>
    BY DEF IInv, TypeOK, AssertMergedTotal
  <1>1. TypeOK'
    <2>1. /\ loop' \in [next : Nat \ {0}, total : Nat, kept : Seq(Resources)]
          /\ caller' \in [pc : {"start", "collect", "merge", "dedupe", "decide", "returned", "panicked"},
                          received : Nat, merging : 1..ScopeCount + 1]
      <3>1. loop' = [loop EXCEPT !.next = 1] /\ loop \in [next : Nat \ {0}, total : Nat, kept : Seq(Resources)]
        BY DEF IInv, TypeOK, AssertMergedTotal
      <3>2. loop' \in [next : Nat \ {0}, total : Nat, kept : Seq(Resources)]
        BY <3>1
      <3> QED
        BY <3>2 DEF IInv, TypeOK, AssertMergedTotal
    <2>2. outcome' \in [status : {"none", "complete", "partial", "failed"},
                        resources : Seq(Resources \cup {NoResource}),
                        failed : Seq(Scopes), unreachable : Nat]
      BY DEF IInv, TypeOK, AssertMergedTotal
    <2> QED
      BY <1>0, <1>u, <2>1, <2>2 DEF IInv, TypeOK
  <1>2. Phases'
    BY <1>0 DEF IInv, TypeOK, Phases, jobsClosed, resultsClosed, WorkersDone, CollectedAsPlanned, AssertMergedTotal
  <1>3. Distinct'
    BY <1>0, <1>u DEF IInv, Distinct, Busy
  <1>4. Faithful'
    BY <1>0, <1>u DEF IInv, Faithful
  <1>5. Placed'
    BY <1>0, <1>u DEF IInv, Placed, Busy
  <1>6. Counted'
    BY <1>0, <1>u DEF IInv, Counted, Busy
  <1>7. Merged'
    <2>1. /\ caller.pc = "merge" /\ caller.merging = ScopeCount + 1 /\ caller'.pc \in {"dedupe", "panicked"}
          /\ outcome' = outcome
      BY <1>0 DEF IInv, TypeOK, AssertMergedTotal
    <2>2. \A i \in Indices : collected[i].failed => outcome.failed # <<>>
      BY <1>0, <2>1 DEF IInv, Merged
    <2> QED
      BY <1>0, <1>u, <2>1, <2>2 DEF IInv, Merged, CollectedAsPlanned
  <1> QED
    BY <1>1, <1>2, <1>3, <1>4, <1>5, <1>6, <1>7 DEF IInv

\* Looking at a resource in dedupeResources keeps the invariant.
LEMMA DedupeNextInv ==
    ASSUME IInv, DedupeNext
    PROVE  IInv'
  <1>0. /\ ScopeCount' = ScopeCount /\ Indices' = Indices /\ Concurrency' = Concurrency
        /\ ScopeCount \in Nat /\ Indices = 1..ScopeCount /\ Concurrency \in Nat
        /\ ScopeCount > 0 => Concurrency >= 1
    BY PlanFacts DEF IInv, TypeOK, ScopeCount, Indices, Concurrency, DedupeNext
  <1>u. UNCHANGED <<plan, scanner, ctxDone, dispatcher, worker, results, caller,
                    collected, outcome, events, answered>>
    BY DEF DedupeNext
  <1>1. TypeOK'
    <2>1. loop' \in [next : Nat \ {0}, total : Nat, kept : Seq(Resources)]
      <3>1. outcome.resources[loop.next] \in Resources \cup {NoResource}
        BY DEF IInv, TypeOK, DedupeNext
      <3>2. keepFirst(loop.kept, outcome.resources[loop.next]) \in Seq(Resources)
        BY <3>1 DEF IInv, TypeOK, keepFirst
      <3>3. loop.next + 1 \in Nat \ {0}
        BY DEF IInv, TypeOK
      <3> QED
        BY <3>2, <3>3 DEF IInv, TypeOK, DedupeNext
    <2> QED
      BY <1>0, <1>u, <2>1 DEF IInv, TypeOK
  <1>2. Phases'
    BY <1>0, <1>u DEF IInv, Phases, jobsClosed, resultsClosed, WorkersDone, CollectedAsPlanned
  <1>3. Distinct'
    BY <1>0, <1>u DEF IInv, Distinct, Busy
  <1>4. Faithful'
    BY <1>0, <1>u DEF IInv, Faithful
  <1>5. Placed'
    BY <1>0, <1>u DEF IInv, Placed, Busy
  <1>6. Counted'
    BY <1>0, <1>u DEF IInv, Counted, Busy
  <1>7. Merged'
    BY <1>0, <1>u DEF IInv, Merged, CollectedAsPlanned
  <1> QED
    BY <1>1, <1>2, <1>3, <1>4, <1>5, <1>6, <1>7 DEF IInv

\* Taking the remaining resources at the end of aggregateScopes keeps the invariant.
LEMMA DedupedInv ==
    ASSUME IInv, Deduped
    PROVE  IInv'
  <1>0. /\ ScopeCount' = ScopeCount /\ Indices' = Indices /\ Concurrency' = Concurrency
        /\ ScopeCount \in Nat /\ Indices = 1..ScopeCount /\ Concurrency \in Nat
        /\ ScopeCount > 0 => Concurrency >= 1
    BY PlanFacts DEF IInv, TypeOK, ScopeCount, Indices, Concurrency, Deduped
  <1>u. /\ caller'.received = caller.received
        /\ UNCHANGED <<plan, scanner, ctxDone, dispatcher, worker,
                    results, collected, events, answered>>
    BY DEF IInv, TypeOK, Deduped
  <1>1. TypeOK'
    <2>1. /\ loop' \in [next : Nat \ {0}, total : Nat, kept : Seq(Resources)]
          /\ caller' \in [pc : {"start", "collect", "merge", "dedupe", "decide", "returned", "panicked"},
                          received : Nat, merging : 1..ScopeCount + 1]
      BY DEF IInv, TypeOK, Deduped
    <2>2. outcome' \in [status : {"none", "complete", "partial", "failed"},
                        resources : Seq(Resources \cup {NoResource}),
                        failed : Seq(Scopes), unreachable : Nat]
      <3>1. loop.kept \in Seq(Resources \cup {NoResource})
        <4>1. loop.kept \in Seq(Resources)
          BY DEF IInv, TypeOK
        <4> QED
          BY <4>1
      <3>2. outcome' = [outcome EXCEPT !.resources = loop.kept]
        BY DEF Deduped
      <3> QED
        BY <3>1, <3>2 DEF IInv, TypeOK
    <2> QED
      BY <1>0, <1>u, <2>1, <2>2 DEF IInv, TypeOK
  <1>2. Phases'
    BY <1>0 DEF IInv, TypeOK, Phases, jobsClosed, resultsClosed, WorkersDone, CollectedAsPlanned, Deduped
  <1>3. Distinct'
    BY <1>0, <1>u DEF IInv, Distinct, Busy
  <1>4. Faithful'
    BY <1>0, <1>u DEF IInv, Faithful
  <1>5. Placed'
    BY <1>0, <1>u DEF IInv, Placed, Busy
  <1>6. Counted'
    BY <1>0, <1>u DEF IInv, Counted, Busy
  <1>7. Merged'
    BY <1>0, <1>u DEF IInv, Merged, CollectedAsPlanned, TypeOK, Deduped
  <1> QED
    BY <1>1, <1>2, <1>3, <1>4, <1>5, <1>6, <1>7 DEF IInv

\* Deciding the status and returning keeps the invariant.
LEMMA DecideInv ==
    ASSUME IInv, Decide
    PROVE  IInv'
  <1>0. /\ ScopeCount' = ScopeCount /\ Indices' = Indices /\ Concurrency' = Concurrency
        /\ ScopeCount \in Nat /\ Indices = 1..ScopeCount /\ Concurrency \in Nat
        /\ ScopeCount > 0 => Concurrency >= 1
    BY PlanFacts DEF IInv, TypeOK, ScopeCount, Indices, Concurrency, Decide
  <1>u. /\ caller'.received = caller.received
        /\ UNCHANGED <<plan, scanner, ctxDone, loop, dispatcher, worker,
                    results, collected, events, answered>>
    BY DEF IInv, TypeOK, Decide
  <1>o. /\ outcome'.status \in {"complete", "partial", "failed"}
        /\ outcome'.failed = outcome.failed /\ outcome'.unreachable = outcome.unreachable
        /\ outcome'.status = "complete" => outcome.failed = <<>>
        /\ outcome' = [outcome EXCEPT !.status = outcome'.status]
    BY DEF IInv, TypeOK, Decide, StatusOf
  <1>1. TypeOK'
    <2>1. caller' \in [pc : {"start", "collect", "merge", "dedupe", "decide", "returned", "panicked"},
                      received : Nat, merging : 1..ScopeCount + 1]
      BY DEF IInv, TypeOK, Decide
    <2>2. UNCHANGED <<plan, scanner, ctxDone, loop, dispatcher, worker, results, collected, events, answered>>
      BY DEF Decide
    <2>3. outcome' \in [status : {"none", "complete", "partial", "failed"},
                        resources : Seq(Resources \cup {NoResource}),
                        failed : Seq(Scopes), unreachable : Nat]
      BY <1>o DEF IInv, TypeOK
    <2> QED
      BY <1>0, <2>1, <2>2, <2>3 DEF IInv, TypeOK
  <1>2. Phases'
    BY <1>0 DEF IInv, TypeOK, Phases, jobsClosed, resultsClosed, WorkersDone, CollectedAsPlanned, Decide
  <1>3. Distinct'
    BY <1>0, <1>u DEF IInv, Distinct, Busy
  <1>4. Faithful'
    BY <1>0, <1>u DEF IInv, Faithful
  <1>5. Placed'
    BY <1>0, <1>u DEF IInv, Placed, Busy
  <1>6. Counted'
    BY <1>0, <1>u DEF IInv, Counted, Busy
  <1>7. Merged'
    <2>1. CollectedAsPlanned /\ DOMAIN collected = Indices
      BY DEF IInv, Phases, Decide
    <2>2. CollectedAsPlanned'
      BY <1>0, <2>1 DEF CollectedAsPlanned, Decide, IInv, TypeOK
    <2>3. outcome.failed = <<>> => \A i \in Indices : ~collected[i].failed
      BY DEF IInv, Merged, Decide
    <2>4. caller'.pc = "returned" /\ collected' = collected
      BY DEF IInv, TypeOK, Decide
    <2> QED
      BY <1>0, <1>o, <2>1, <2>2, <2>3, <2>4 DEF Merged
  <1> QED
    BY <1>1, <1>2, <1>3, <1>4, <1>5, <1>6, <1>7 DEF IInv

\* Handing the next index to a receiving worker keeps the invariant.
LEMMA HandoffInv ==
    ASSUME IInv, NEW w \in DOMAIN worker, Handoff(w)
    PROVE  IInv'
  <1>0. /\ ScopeCount' = ScopeCount /\ Indices' = Indices /\ Concurrency' = Concurrency
        /\ ScopeCount \in Nat /\ Indices = 1..ScopeCount /\ Concurrency \in Nat
        /\ ScopeCount > 0 => Concurrency >= 1
    BY PlanFacts DEF IInv, TypeOK, ScopeCount, Indices, Concurrency, Handoff
  <1>u. UNCHANGED <<plan, scanner, ctxDone, loop, results, caller,
                    collected, outcome, events, answered>>
    BY DEF Handoff
  <1>d. /\ dispatcher.next \in Indices
        /\ dispatcher'.next = dispatcher.next + 1
        /\ dispatcher'.pc = IF dispatcher.next < ScopeCount THEN "announce" ELSE "close"
        /\ UNCHANGED <<plan, scanner, ctxDone, loop, results, caller, collected, outcome, events, answered>>
    BY DEF IInv, Phases, Handoff, MoreScopes
  <1>w. /\ DOMAIN worker' = DOMAIN worker
        /\ worker'[w] = [pc |-> "scan", index |-> dispatcher.next, result |-> worker[w].result]
        /\ \A v \in DOMAIN worker : v # w => worker'[v] = worker[v]
        /\ worker[w].pc = "receive"
    BY DEF IInv, TypeOK, Handoff
  <1>v. \A v \in Busy : v # w /\ worker'[v] = worker[v]
    BY <1>w DEF Busy
  <1>b. Busy' = Busy \cup {w} /\ w \notin Busy
    BY <1>w DEF Busy
  <1>1. TypeOK'
    <2>1. worker' \in [DOMAIN worker' -> [pc : {"receive", "scan", "report", "exited"},
                                           index : 0..ScopeCount,
                                           result : ResultType \cup {NoResult}]]
      <3>1. worker' = [v \in DOMAIN worker' |-> worker'[v]]
        BY DEF IInv, TypeOK, Handoff
      <3>2. \A v \in DOMAIN worker' : worker'[v] \in [pc : {"receive", "scan", "report", "exited"},
                                               index : 0..ScopeCount,
                                               result : ResultType \cup {NoResult}]
        <4>1. dispatcher.next \in 0..ScopeCount
          BY <1>0, <1>d
        <4>2. worker[w].result \in ResultType \cup {NoResult}
          BY DEF IInv, TypeOK
        <4>3. worker'[w] \in [pc : {"receive", "scan", "report", "exited"},
                              index : 0..ScopeCount, result : ResultType \cup {NoResult}]
          BY <1>w, <4>1, <4>2
        <4>4. \A v \in DOMAIN worker : worker[v] \in
                 [pc : {"receive", "scan", "report", "exited"},
                  index : 0..ScopeCount, result : ResultType \cup {NoResult}]
          BY DEF IInv, TypeOK
        <4> QED
          BY <1>w, <4>3, <4>4
      <3> QED
        BY <3>1, <3>2
    <2>2. dispatcher' \in [pc : {"off", "announce", "send", "close", "wait", "exited"},
                          next : 1..ScopeCount + 1]
      <3>1. PICK q \in {"announce", "close"} : dispatcher' = [pc |-> q, next |-> dispatcher.next + 1]
        BY DEF Handoff
      <3>2. dispatcher.next + 1 \in 1..ScopeCount + 1
        BY <1>0, <1>d
      <3> QED
        BY <3>1, <3>2
    <2> QED
      BY <1>0, <1>d, <1>w, <2>1, <2>2 DEF IInv, TypeOK
  <1>2. Phases'
    <2>1. /\ dispatcher.pc = "send" /\ dispatcher'.pc \in {"announce", "close"}
          /\ DOMAIN worker' # {} /\ caller.pc \notin {"start", "merge", "decide", "returned"}
      BY <1>d, <1>w DEF IInv, Phases, Handoff
    <2>2. \A v \in DOMAIN worker' : worker'[v].pc # "exited"
      BY <1>w, <2>1 DEF IInv, Phases, jobsClosed
    <2>3. /\ dispatcher'.pc = "announce" => dispatcher'.next \in Indices
          /\ dispatcher'.pc = "close" => dispatcher'.next = ScopeCount + 1
      BY <1>0, <1>d
    <2> QED
      BY <1>0, <1>d, <2>1, <2>2, <2>3 DEF IInv, Phases
  <1>3. Distinct'
    <2>1. \A v \in Busy : worker[v].index \in 1..dispatcher.next - 1
      BY DEF IInv, Distinct
    <2>2. \A v \in Busy' : worker'[v].index \in 1..dispatcher'.next - 1
      BY <1>0, <1>d, <1>w, <1>v, <1>b, <2>1
    <2>3. \A v \in Busy : worker'[v].index # dispatcher.next
      BY <1>0, <1>d, <1>v, <2>1
    <2>4. \A u, v \in Busy : u # v => worker'[u].index # worker'[v].index
      BY <1>v DEF IInv, Distinct
    <2>5. \A u, v \in Busy' : u # v => worker'[u].index # worker'[v].index
      BY <1>w, <1>b, <2>3, <2>4
    <2> QED
      BY <2>2, <2>5 DEF Distinct
  <1>4. Faithful'
    <2>1. plan' = plan /\ answered' = answered
      BY <1>d
    <2>2. \A i \in Indices : i >= dispatcher'.next => answered[i] = <<>>
      BY <1>0, <1>d DEF IInv, Faithful
    <2>3. answered[dispatcher.next] = <<>>
      BY <1>0, <1>d DEF IInv, Faithful
    <2>4. \A v \in DOMAIN worker' :
             /\ worker'[v].pc = "scan" => answered[worker'[v].index] = <<>>
             /\ worker'[v].pc = "report" => ResultOf(plan.scopes, answered, worker'[v].index, worker'[v].result)
      BY <1>w, <2>3 DEF IInv, Faithful
    <2> QED
      BY <1>0, <1>d, <2>1, <2>2, <2>4 DEF IInv, Faithful
  <1>5. Placed'
    <2> SUFFICES ASSUME NEW i \in Indices, i < dispatcher'.next
                 PROVE  \/ \E v \in Busy' : worker'[v].index = i
                        \/ \E k \in DOMAIN results : results[k].index = i
                        \/ collected[i] # NoResult
      BY <1>0, <1>d DEF Placed
    <2>1. CASE i = dispatcher.next
      BY <1>w, <1>b, <2>1
    <2>2. CASE i < dispatcher.next
      BY <1>v, <1>b, <2>2 DEF IInv, Placed
    <2> QED
      BY <1>0, <1>d, <2>1, <2>2
  <1>6. Counted'
    <2>1. Cardinality(Busy') = Cardinality(Busy) + 1
      BY <1>b, BusyFinite, FS_AddElement DEF IInv
    <2> QED
      <3>1. Len(results) \in Nat /\ caller.received \in Nat /\ Cardinality(Busy) \in Nat
        BY BusyFinite, LenProperties DEF IInv, TypeOK
      <3> QED
        BY <1>0, <1>d, <2>1, <3>1 DEF IInv, Counted
  <1>7. Merged'
    BY <1>0, <1>u DEF IInv, Merged, CollectedAsPlanned
  <1> QED
    BY <1>1, <1>2, <1>3, <1>4, <1>5, <1>6, <1>7 DEF IInv

\* The plugin's answer to a worker keeps the invariant.
LEMMA BatchScanInv ==
    ASSUME IInv, NEW w \in DOMAIN worker, NEW answer \in Answers, BatchScan(w, answer)
    PROVE  IInv'
  <1>0. /\ ScopeCount' = ScopeCount /\ Indices' = Indices /\ Concurrency' = Concurrency
        /\ ScopeCount \in Nat /\ Indices = 1..ScopeCount /\ Concurrency \in Nat
        /\ ScopeCount > 0 => Concurrency >= 1
    BY PlanFacts DEF IInv, TypeOK, ScopeCount, Indices, Concurrency, BatchScan
  <1>u. UNCHANGED <<plan, scanner, ctxDone, loop, dispatcher, results,
                    caller, collected, outcome, events>>
    BY DEF BatchScan
  <1>i. /\ worker[w].index \in Indices /\ worker[w].pc = "scan" /\ w \in Busy
        /\ plan.scopes[worker[w].index] \in Scopes
        /\ worker[w].index < dispatcher.next
        /\ answered[worker[w].index] = <<>>
    <2>1. worker[w].pc = "scan" /\ w \in Busy
      BY DEF BatchScan, Busy
    <2>2. worker[w].index \in Indices /\ worker[w].index < dispatcher.next
      BY <1>0, <2>1 DEF IInv, TypeOK, Distinct
    <2>3. answered[worker[w].index] = <<>>
      BY <2>1 DEF IInv, Faithful
    <2> QED
      BY <2>1, <2>2, <2>3, PlanFacts DEF IInv, TypeOK
  <1>w. /\ DOMAIN worker' = DOMAIN worker
        /\ worker'[w].pc = "report" /\ worker'[w].index = worker[w].index
        /\ worker'[w].result = scanScope(plan.scopes[worker[w].index], answer)
        /\ \A v \in DOMAIN worker : v # w => worker'[v] = worker[v]
    BY DEF IInv, TypeOK, BatchScan
  <1>a. /\ answered'[worker[w].index] = <<answer>>
        /\ \A i \in Indices : i # worker[w].index => answered'[i] = answered[i]
        /\ UNCHANGED <<plan, scanner, ctxDone, loop, dispatcher, results, caller, collected, outcome, events>>
    BY <1>i DEF IInv, TypeOK, BatchScan
  <1>b. Busy' = Busy
    BY <1>i, <1>w DEF Busy
  <1>1. TypeOK'
    <2>1. worker' \in [DOMAIN worker' -> [pc : {"receive", "scan", "report", "exited"},
                                           index : 0..ScopeCount,
                                           result : ResultType \cup {NoResult}]]
      <3>1. scanScope(plan.scopes[worker[w].index], answer) \in ResultType
        BY <1>i, ScanScopeFacts
      <3>2. worker' = [v \in DOMAIN worker' |-> worker'[v]]
        BY DEF IInv, TypeOK, BatchScan
      <3>3. worker'[w] = [worker[w] EXCEPT !.pc = "report", !.result = worker'[w].result]
        BY <1>w DEF IInv, TypeOK, BatchScan
      <3>4. \A v \in DOMAIN worker' : worker'[v] \in [pc : {"receive", "scan", "report", "exited"},
                                               index : 0..ScopeCount,
                                               result : ResultType \cup {NoResult}]
        BY <1>0, <1>w, <3>1, <3>3 DEF IInv, TypeOK
      <3> QED
        BY <3>2, <3>4
    <2>2. answered' \in [Indices -> Seq(Answers)]
      <3>1. Append(answered[worker[w].index], answer) \in Seq(Answers)
        BY <1>i, AppendProperties DEF IInv, TypeOK
      <3> QED
        BY <3>1 DEF IInv, TypeOK, BatchScan
    <2> QED
      BY <1>0, <1>a, <1>w, <2>1, <2>2 DEF IInv, TypeOK
  <1>2. Phases'
    BY <1>0 DEF IInv, TypeOK, Phases, jobsClosed, resultsClosed, WorkersDone, CollectedAsPlanned, BatchScan
  <1>3. Distinct'
    <2>1. \A v \in Busy : worker'[v].index = worker[v].index
      BY <1>w DEF Busy
    <2> QED
      BY <1>a, <1>b, <2>1 DEF IInv, Distinct
  <1>4. Faithful'
    <2>1. \A i \in Indices : \A r :
             ResultOf(plan.scopes, answered, i, r) => ResultOf(plan.scopes, answered', i, r)
      <3> SUFFICES ASSUME NEW i \in Indices, NEW r, ResultOf(plan.scopes, answered, i, r) PROVE ResultOf(plan.scopes, answered', i, r)
        OBVIOUS
      <3>1. PICK a \in Answers : answered[i] = <<a>> /\ r = scanScope(plan.scopes[i], a)
        BY DEF ResultOf
      <3>2. i # worker[w].index
        BY <1>i, <3>1, SingletonNotEmpty
      <3> QED
        BY <1>a, <3>1, <3>2 DEF ResultOf, scanScope
    <2>2. ResultOf(plan.scopes, answered', worker[w].index, worker'[w].result)
      BY <1>w, <1>a DEF ResultOf, scanScope
    <2>3. \A i \in Indices : i >= dispatcher.next => answered'[i] = <<>>
      <3>1. \A i \in Indices : i >= dispatcher.next => i # worker[w].index
        BY <1>0, <1>i DEF IInv, TypeOK
      <3> QED
        BY <1>a, <3>1 DEF IInv, Faithful
    <2>4. \A v \in DOMAIN worker' :
             /\ worker'[v].pc = "scan" => answered'[worker'[v].index] = <<>>
             /\ worker'[v].pc = "report" => ResultOf(plan.scopes, answered', worker'[v].index, worker'[v].result)
      <3> SUFFICES ASSUME NEW v \in DOMAIN worker, v # w
                   PROVE  /\ worker[v].pc = "scan" => answered'[worker[v].index] = <<>>
                          /\ worker[v].pc = "report" => ResultOf(plan.scopes, answered', worker[v].index, worker[v].result)
        BY <1>w, <2>2
      <3>1. v \in Busy => worker[v].index # worker[w].index /\ worker[v].index \in Indices
        BY <1>0, <1>i DEF IInv, TypeOK, Distinct
      <3> QED
        BY <1>a, <2>1, <3>1 DEF IInv, Faithful, Busy
    <2>5. \A k \in DOMAIN results : ResultOf(plan.scopes, answered', results[k].index, results[k].result)
      <3>1. \A k \in DOMAIN results : results[k].index \in Indices
        <4> DEFINE R == [index : Indices, result : ResultType]
        <4>1. results \in Seq(R)
          BY DEF IInv, TypeOK
        <4>2. \A e \in R : e.index \in Indices
          OBVIOUS
        <4> HIDE DEF R
        <4>3. \A k \in DOMAIN results : results[k] \in R
          BY <4>1, LenProperties, ElementOfSeq
        <4> QED
          BY <4>2, <4>3
      <3> QED
        BY <2>1, <3>1 DEF IInv, Faithful
    <2>6. \A i \in DOMAIN collected : collected[i] # NoResult => ResultOf(plan.scopes, answered', i, collected[i])
      BY <2>1 DEF IInv, TypeOK, Faithful
    <2> QED
      BY <1>0, <1>a, <2>3, <2>4, <2>5, <2>6 DEF Faithful
  <1>5. Placed'
    <2>1. \A v \in Busy : worker'[v].index = worker[v].index
      BY <1>w DEF Busy
    <2> QED
      BY <1>0, <1>a, <1>b, <2>1 DEF IInv, Placed
  <1>6. Counted'
    BY <1>a, <1>b DEF IInv, Counted
  <1>7. Merged'
    BY <1>0, <1>u DEF IInv, Merged, CollectedAsPlanned
  <1> QED
    BY <1>1, <1>2, <1>3, <1>4, <1>5, <1>6, <1>7 DEF IInv

\* Putting a worker's result on the channel keeps the invariant.
LEMMA ReportInv ==
    ASSUME IInv, NEW w \in DOMAIN worker, Report(w)
    PROVE  IInv'
  <1>0. /\ ScopeCount' = ScopeCount /\ Indices' = Indices /\ Concurrency' = Concurrency
        /\ ScopeCount \in Nat /\ Indices = 1..ScopeCount /\ Concurrency \in Nat
        /\ ScopeCount > 0 => Concurrency >= 1
    BY PlanFacts DEF IInv, TypeOK, ScopeCount, Indices, Concurrency, Report
  <1>u. UNCHANGED <<plan, scanner, ctxDone, loop, dispatcher, caller,
                    collected, outcome, events, answered>>
    BY DEF Report
  <1>i. /\ w \in Busy /\ worker[w].pc = "report"
        /\ worker[w].index \in Indices
        /\ ResultOf(plan.scopes, answered, worker[w].index, worker[w].result)
        /\ worker[w].result \in ResultType
    <2>1. w \in Busy /\ worker[w].pc = "report"
      BY DEF Report, Busy
    <2>2. worker[w].index \in Indices
      BY <1>0, <2>1 DEF IInv, TypeOK, Distinct
    <2>3. ResultOf(plan.scopes, answered, worker[w].index, worker[w].result)
      BY <2>1 DEF IInv, Faithful
    <2>4. worker[w].result \in ResultType
      <3>1. PICK a \in Answers : worker[w].result = scanScope(plan.scopes[worker[w].index], a)
        BY <2>3 DEF ResultOf
      <3>2. plan.scopes[worker[w].index] \in Scopes
        BY <2>2, PlanFacts DEF IInv, TypeOK
      <3> QED
        BY <3>1, <3>2, ScanScopeFacts
    <2> QED
      BY <2>1, <2>2, <2>3, <2>4
  <1>w. /\ DOMAIN worker' = DOMAIN worker
        /\ worker'[w] = Idle
        /\ \A v \in DOMAIN worker : v # w => worker'[v] = worker[v]
        /\ UNCHANGED <<plan, scanner, ctxDone, loop, dispatcher, caller, collected, outcome, events, answered>>
    BY DEF IInv, TypeOK, Report
  <1>b. Busy' = Busy \ {w}
    BY <1>w DEF Busy, Idle
  <1>r. /\ results' \in Seq([index : Indices, result : ResultType])
        /\ Len(results) \in Nat /\ Len(results') = Len(results) + 1
        /\ DOMAIN results = 1..Len(results) /\ DOMAIN results' = 1..Len(results) + 1
        /\ \A k \in DOMAIN results : results'[k] = results[k]
        /\ results'[Len(results) + 1] = [index |-> worker[w].index, result |-> worker[w].result]
    <2> DEFINE R == [index : Indices, result : ResultType]
               e == [index |-> worker[w].index, result |-> worker[w].result]
    <2>1. results \in Seq(R) /\ e \in R /\ results' = Append(results, e)
      BY <1>i DEF IInv, TypeOK, Report
    <2> HIDE DEF R, e
    <2>2. Len(results) \in Nat /\ DOMAIN results = 1..Len(results)
      BY <2>1, LenProperties
    <2>3. /\ results' \in Seq(R) /\ Len(results') = Len(results) + 1
          /\ \A k \in 1..Len(results) : results'[k] = results[k]
          /\ results'[Len(results) + 1] = e
      BY <2>1, AppendProperties
    <2>4. DOMAIN results' = 1..Len(results) + 1
      BY <2>3, LenProperties
    <2> QED
      BY <2>2, <2>3, <2>4 DEF R, e
  <1>1. TypeOK'
    <2>1. worker' \in [DOMAIN worker' -> [pc : {"receive", "scan", "report", "exited"},
                                           index : 0..ScopeCount,
                                           result : ResultType \cup {NoResult}]]
      BY <1>0 DEF IInv, TypeOK, Report, Idle
    <2> QED
      BY <1>0, <1>w, <1>r, <2>1 DEF IInv, TypeOK
  <1>2. Phases'
    <2>1. dispatcher.pc \notin {"off", "exited"}
      BY <1>i DEF IInv, Phases, WorkersDone, Busy
    <2>2. \A v \in DOMAIN worker' : worker'[v].pc = "exited" => jobsClosed'
      BY <1>w DEF IInv, Phases, jobsClosed, Idle
    <2> QED
      BY <1>0, <1>w, <2>1, <2>2 DEF IInv, Phases
  <1>3. Distinct'
    BY <1>w, <1>b DEF IInv, Distinct, Busy
  <1>4. Faithful'
    <2>1. plan' = plan /\ answered' = answered
      BY <1>w
    <2>2. \A k \in DOMAIN results' : ResultOf(plan.scopes, answered, results'[k].index, results'[k].result)
      BY <1>r, <1>i DEF IInv, Faithful
    <2>3. \A v \in DOMAIN worker' :
             /\ worker'[v].pc = "scan" => answered[worker'[v].index] = <<>>
             /\ worker'[v].pc = "report" => ResultOf(plan.scopes, answered, worker'[v].index, worker'[v].result)
      BY <1>w DEF IInv, Faithful, Idle
    <2> QED
      BY <1>0, <1>w, <2>1, <2>2, <2>3 DEF IInv, Faithful
  <1>5. Placed'
    <2> SUFFICES ASSUME NEW i \in Indices, i < dispatcher.next
                 PROVE  \/ \E v \in Busy' : worker'[v].index = i
                        \/ \E k \in DOMAIN results' : results'[k].index = i
                        \/ collected[i] # NoResult
      BY <1>0, <1>w DEF Placed
    <2>1. CASE i = worker[w].index
      BY <1>r, <2>1
    <2>2. CASE i # worker[w].index
      <3>1. \A v \in Busy : worker[v].index = i => v \in Busy' /\ worker'[v].index = i
        BY <1>w, <1>b, <2>2 DEF Busy
      <3>2. \A k \in DOMAIN results : k \in DOMAIN results' /\ results'[k] = results[k]
        BY <1>r
      <3> QED
        BY <3>1, <3>2 DEF IInv, Placed
    <2> QED
      BY <2>1, <2>2
  <1>6. Counted'
    <2>1. Cardinality(Busy') = Cardinality(Busy) - 1
      BY <1>i, <1>b, BusyFinite, FS_RemoveElement DEF IInv
    <2> QED
      <3>1. caller.received \in Nat /\ Cardinality(Busy) \in Nat /\ dispatcher.next \in Int
        BY <1>0, BusyFinite DEF IInv, TypeOK
      <3>2. caller.received + Len(results) + Cardinality(Busy) = dispatcher.next - 1
        BY DEF IInv, Counted
      <3>3. caller.received + (Len(results) + 1) + (Cardinality(Busy) - 1) = dispatcher.next - 1
        BY <1>r, <3>1, <3>2
      <3> QED
        BY <1>w, <1>r, <2>1, <3>3 DEF Counted
  <1>7. Merged'
    BY <1>0, <1>u DEF IInv, Merged, CollectedAsPlanned
  <1> QED
    BY <1>1, <1>2, <1>3, <1>4, <1>5, <1>6, <1>7 DEF IInv

\* The end of a worker keeps the invariant.
LEMMA ExitInv ==
    ASSUME IInv, NEW w \in DOMAIN worker, Exit(w)
    PROVE  IInv'
  <1>0. /\ ScopeCount' = ScopeCount /\ Indices' = Indices /\ Concurrency' = Concurrency
        /\ ScopeCount \in Nat /\ Indices = 1..ScopeCount /\ Concurrency \in Nat
        /\ ScopeCount > 0 => Concurrency >= 1
    BY PlanFacts DEF IInv, TypeOK, ScopeCount, Indices, Concurrency, Exit
  <1>u. UNCHANGED <<plan, scanner, ctxDone, loop, dispatcher, results, caller,
                    collected, outcome, events, answered>>
    BY DEF Exit
  <1>w. /\ DOMAIN worker' = DOMAIN worker
        /\ worker' = [v \in DOMAIN worker' |-> worker'[v]]
        /\ worker'[w] = [worker[w] EXCEPT !.pc = "exited"]
        /\ worker'[w].pc = "exited" /\ worker[w].pc = "receive" /\ jobsClosed
        /\ \A v \in DOMAIN worker : v # w => worker'[v] = worker[v]
    BY DEF IInv, TypeOK, Exit
  <1>b. Busy' = Busy /\ \A v \in Busy : worker'[v] = worker[v]
    BY <1>w DEF Busy
  <1>1. TypeOK'
    <2> DEFINE W == [pc : {"receive", "scan", "report", "exited"}, index : 0..ScopeCount,
                     result : ResultType \cup {NoResult}]
    <2>1. \A v \in DOMAIN worker : worker[v] \in W
      BY DEF IInv, TypeOK
    <2>2. \A v \in DOMAIN worker' : worker'[v] \in W
      BY <1>w, <2>1
    <2>3. worker' \in [DOMAIN worker' -> W]
      BY <1>w, <2>2
    <2> QED
      BY <1>0, <1>u, <1>w, <2>3 DEF IInv, TypeOK
  <1>2. Phases'
    BY <1>0, <1>u, <1>w DEF IInv, Phases, jobsClosed, WorkersDone, CollectedAsPlanned
  <1>3. Distinct'
    BY <1>u, <1>b DEF IInv, Distinct
  <1>4. Faithful'
    <2>1. \A v \in DOMAIN worker' :
             worker'[v].pc \in {"scan", "report"} => worker'[v] = worker[v]
      BY <1>w
    <2> QED
      BY <1>0, <1>u, <1>w, <2>1 DEF IInv, Faithful
  <1>5. Placed'
    BY <1>0, <1>u, <1>b DEF IInv, Placed
  <1>6. Counted'
    BY <1>u, <1>b DEF IInv, Counted
  <1>7. Merged'
    BY <1>0, <1>u DEF IInv, Merged, CollectedAsPlanned
  <1> QED
    BY <1>1, <1>2, <1>3, <1>4, <1>5, <1>6, <1>7 DEF IInv

-----------------------------------------------------------------------------
\* Every step of the executor keeps the invariant.
LEMMA NextInv == IInv /\ [Next]_vars => IInv'
  <1> SUFFICES ASSUME IInv, [Next]_vars PROVE IInv'
    OBVIOUS
  <1>1. CASE Cancel
    BY <1>1, CancelInv
  <1>2. CASE Dispatch
    BY <1>2, AnnounceInv, CloseJobsInv, CloseResultsInv DEF Dispatch
  <1>3. CASE Call
    BY <1>3, RejectInv, StartInv, CollectInv, CollectDoneInv, MergeInv, CountScopeInv,
       AssertMergedTotalInv, DedupeNextInv, DedupedInv, DecideInv
       DEF Call, Aggregate
  <1>4. CASE \E w \in DOMAIN worker : Work(w)
    <2>1. PICK w \in DOMAIN worker : Work(w)
      BY <1>4
    <2>2. CASE \E answer \in Answers : BatchScan(w, answer)
      BY <2>2, BatchScanInv
    <2>3. CASE Handoff(w) \/ Report(w) \/ Exit(w)
      BY <2>3, HandoffInv, ReportInv, ExitInv
    <2> QED
      BY <2>1, <2>2, <2>3 DEF Work
  <1>5. CASE UNCHANGED vars
    <2>1. /\ UNCHANGED <<plan, scanner, ctxDone, loop, dispatcher, worker, results, caller,
                         collected, outcome, events, answered>>
          /\ ScopeCount' = ScopeCount /\ Indices' = Indices /\ Concurrency' = Concurrency
          /\ Busy' = Busy /\ CollectedAsPlanned' = CollectedAsPlanned
      BY <1>5 DEF vars, ScopeCount, Indices, Concurrency, Busy, CollectedAsPlanned
    <2>2. TypeOK'
      BY <2>1 DEF IInv, TypeOK
    <2>3. Phases'
      BY <2>1 DEF IInv, Phases, jobsClosed, WorkersDone
    <2>4. Distinct' /\ Faithful' /\ Placed' /\ Counted'
      BY <2>1 DEF IInv, Distinct, Faithful, Placed, Counted
    <2>5. Merged'
      BY <2>1 DEF IInv, Merged
    <2> QED
      BY <2>2, <2>3, <2>4, <2>5 DEF IInv
  <1> QED
    BY <1>1, <1>2, <1>3, <1>4, <1>5 DEF Next

\* The invariant is an invariant of the executor.
LEMMA Invariance == Spec => []IInv
  BY InitInv, NextInv, PTL DEF Spec

\* When the channel is closed and drained nothing is left with a worker or on
\* the channel, so every scope of the plan has been filed.
LEMMA DrainedIsComplete == IInv => EveryScopeHasAResult
  <1> SUFFICES ASSUME IInv, caller.pc = "collect", results = <<>>, resultsClosed
               PROVE  CollectedAsPlanned
    BY DEF EveryScopeHasAResult
  <1>1. /\ dispatcher.next = ScopeCount + 1 /\ Busy = {}
        /\ DOMAIN collected = Indices /\ ScopeCount \in Nat /\ Indices = 1..ScopeCount
    BY PlanFacts DEF IInv, TypeOK, Phases, resultsClosed, WorkersDone, Busy
  <1>2. caller.received = ScopeCount
    BY <1>1, FS_EmptySet DEF IInv, TypeOK, Counted
  <1>3. \A i \in Indices : collected[i] # NoResult
    <2>1. DOMAIN results = {}
      OBVIOUS
    <2> QED
      BY <1>1, <2>1 DEF IInv, Placed
  <1>4. \A i \in Indices : collected[i].scope = plan.scopes[i]
    BY <1>1, <1>3, PlanFacts, ScanScopeFacts DEF IInv, TypeOK, Faithful, ResultOf
  <1> QED
    BY <1>2, <1>3, <1>4 DEF CollectedAsPlanned

-----------------------------------------------------------------------------
\* The goroutines, the channels and the collected results of Execute keep their
\* types, whatever plan it is called with and whatever the plugin answers.
THEOREM TypeCorrect == Spec => []TypeOK
  <1>1. IInv => TypeOK
    BY DEF IInv
  <1> QED
    BY <1>1, Invariance, PTL

\* The assertion of collectScopeResults never fires: when the channel is closed
\* and drained there is a result for every scope, filed under its own name.
THEOREM ScopesAccountedFor == Spec => []EveryScopeHasAResult
  BY DrainedIsComplete, Invariance, PTL

\* A scan that Execute reports complete asked the plugin exactly once for every
\* scope of the plan and got a clean answer each time.
THEOREM CompleteScansAreComplete == Spec => []CompleteMeansObserved
  <1>1. IInv => CompleteMeansObserved
    <2> SUFFICES ASSUME IInv, outcome.status = "complete", NEW i \in Indices
                 PROVE  Len(answered[i]) = 1 /\ Clean(answered[i][1])
      BY DEF CompleteMeansObserved
    <2>1. collected[i] # NoResult /\ ~collected[i].failed /\ i \in DOMAIN collected
      BY DEF IInv, Merged, CollectedAsPlanned
    <2>2. PICK a \in Answers : answered[i] = <<a>> /\ collected[i] = scanScope(plan.scopes[i], a)
      BY <2>1 DEF IInv, Faithful, ResultOf
    <2>3. Clean(a)
      BY <2>1, <2>2, PlanFacts, ScanScopeFacts DEF IInv, TypeOK
    <2> QED
      BY <2>2, <2>3
  <1> QED
    BY <1>1, Invariance, PTL

\* From the merge on, no goroutine that Execute started is running, so the
\* observer is never called by two goroutines at once.
THEOREM GoroutinesFinishFirst == Spec => []NoGoroutineOutlivesCollection
  <1>1. IInv => NoGoroutineOutlivesCollection
    BY DEF IInv, Phases, NoGoroutineOutlivesCollection, WorkersDone
  <1> QED
    BY <1>1, Invariance, PTL
-----------------------------------------------------------------------------
(***************************************************************************)
(* What aggregateScopes builds.  Its three loops run without interference: *)
(* the goroutines have exited.  While it merges, the resources are the     *)
(* lists of the scopes one after the other (Layout), which is what         *)
(* assertMergedTotal counts; while it removes duplicates, it has kept the  *)
(* first resource of every key it has looked at (Selection).  Together     *)
(* they say that the resources left are the winners of ScanContract, in    *)
(* its order.                                                              *)
(***************************************************************************)

\* merged is the resources of results 1..m, one list after the other; list i
\* ends at position off[i].
Layout(off, rs, m, merged) ==
    /\ off \in [0..m -> Nat]
    /\ off[0] = 0 /\ off[m] = Len(merged)
    /\ \A i \in 1..m : off[i] = off[i - 1] + Len(rs[i].resources)
    /\ \A i, j \in 0..m : i <= j => off[i] <= off[j]
    /\ \A i \in 1..m : \A k \in 1..Len(rs[i].resources) :
           merged[off[i - 1] + k] = rs[i].resources[k]
    /\ \A n \in 1..Len(merged) :
           \E i \in 1..m : \E k \in 1..Len(rs[i].resources) : n = off[i - 1] + k

\* Position p of merged is the first one with its key.
IsFirst(merged, p) ==
    /\ merged[p] # NoResource
    /\ \A q \in 1..p - 1 : merged[q] # NoResource => merged[q].key # merged[p].key

\* kept is the first resource of every key in merged[1..n], in order; kept[a]
\* was at position sel[a].
Selection(sel, merged, n, kept) ==
    /\ sel \in [1..Len(kept) -> 1..n]
    /\ \A a, b \in 1..Len(kept) : a < b => sel[a] < sel[b]
    /\ \A a \in 1..Len(kept) : kept[a] = merged[sel[a]]
    /\ \A p \in 1..n : (\E a \in 1..Len(kept) : sel[a] = p) <=> IsFirst(merged, p)
    /\ \A p \in 1..n : merged[p] # NoResource =>
           \E a \in 1..Len(kept) : kept[a].key = merged[p].key
    /\ Len(kept) <= n

\* The failed and the unreachable scopes among the first m.
Tallied(m, rs, failed, unreachable) ==
    /\ failed = <<>> <=> \A i \in 1..m : ~rs[i].failed
    /\ unreachable <= m /\ unreachable <= Len(failed)
    /\ unreachable = m <=> \A i \in 1..m : rs[i].unreachable

Aggregated ==
    /\ caller.pc # "panicked"
    /\ caller.pc \in {"start", "collect"} => outcome = EmptyOutcome("none")
    /\ caller.pc \in {"start", "collect"} \/ (caller.pc = "merge" /\ caller.merging <= ScopeCount) =>
           loop.next = 1 /\ loop.total = 0
    /\ caller.pc \in {"start", "collect", "merge"} => loop.kept = <<>>
    /\ caller.pc \in {"merge", "dedupe", "decide"} =>
           Tallied(caller.merging - 1, collected, outcome.failed, outcome.unreachable)
    /\ caller.pc = "merge" => \E off :
           /\ Layout(off, collected, caller.merging - 1, outcome.resources)
           /\ loop.next <= caller.merging /\ loop.total = off[loop.next - 1]
    /\ caller.pc = "dedupe" =>
           /\ \E off : Layout(off, collected, ScopeCount, outcome.resources)
           /\ loop.next <= Len(outcome.resources) + 1
           /\ \E sel : Selection(sel, outcome.resources, loop.next - 1, loop.kept)
    /\ caller.pc = "decide" =>
           /\ outcome.resources = loop.kept
           /\ \E merged \in Seq(Resources \cup {NoResource}) :
                  /\ \E off : Layout(off, collected, ScopeCount, merged)
                  /\ \E sel : Selection(sel, merged, Len(merged), loop.kept)

\* Nothing merged is laid out as nothing.
LEMMA LayoutEmpty ==
    ASSUME NEW rs
    PROVE  Layout([i \in 0..0 |-> 0], rs, 0, <<>>)
  BY DEF Layout

\* Appending the next list extends the layout.
LEMMA LayoutAppend ==
    ASSUME NEW S, NEW m \in Nat, NEW rs, NEW merged \in Seq(S), NEW off,
           \A i \in 1..m + 1 : rs[i].resources \in Seq(S),
           Layout(off, rs, m, merged)
    PROVE  Layout([i \in 0..m + 1 |-> IF i <= m THEN off[i] ELSE Len(merged) + Len(rs[m + 1].resources)],
                  rs, m + 1, merged \o rs[m + 1].resources)
  <1> DEFINE l == rs[m + 1].resources
             all == merged \o l
             ext == [i \in 0..m + 1 |-> IF i <= m THEN off[i] ELSE Len(merged) + Len(l)]
  <1>1. /\ l \in Seq(S) /\ all \in Seq(S) /\ Len(all) = Len(merged) + Len(l)
        /\ Len(merged) \in Nat /\ Len(l) \in Nat
        /\ \A n \in 1..Len(merged) : all[n] = merged[n]
        /\ \A k \in 1..Len(l) : all[Len(merged) + k] = l[k]
    <2>1. l \in Seq(S) /\ Len(l) \in Nat /\ Len(merged) \in Nat
      OBVIOUS
    <2> HIDE DEF l
    <2> QED
      BY <2>1
  <1>2. /\ ext \in [0..m + 1 -> Nat] /\ ext[0] = 0 /\ ext[m + 1] = Len(all)
        /\ \A i \in 0..m : ext[i] = off[i]
        /\ ext[m] = Len(merged)
    BY <1>1 DEF Layout
  <1>3. \A i \in 0..m : ext[i] \in Nat /\ ext[i] <= Len(merged)
    BY <1>1, <1>2 DEF Layout
  <1> HIDE DEF ext, all
  <1>4. ASSUME NEW i \in 1..m + 1 PROVE ext[i] = ext[i - 1] + Len(rs[i].resources)
    <2>1. CASE i = m + 1
      BY <1>1, <1>2, <2>1
    <2>2. CASE i \in 1..m
      BY <1>2, <2>2 DEF Layout
    <2> QED
      BY <2>1, <2>2
  <1>5. ASSUME NEW i \in 0..m + 1, NEW j \in 0..m + 1, i <= j PROVE ext[i] <= ext[j]
    <2>1. CASE j = m + 1
      BY <1>1, <1>2, <1>3, <2>1
    <2>2. CASE j # m + 1
      <3>1. i \in 0..m /\ j \in 0..m
        BY <1>5, <2>2
      <3> QED
        BY <1>2, <1>5, <3>1 DEF Layout
    <2> QED
      BY <2>1, <2>2
  <1>6. ASSUME NEW i \in 1..m + 1, NEW k \in 1..Len(rs[i].resources)
        PROVE  all[ext[i - 1] + k] = rs[i].resources[k]
    <2>1. CASE i = m + 1
      <3>1. i - 1 = m /\ rs[i].resources = l
        BY <2>1
      <3>2. k \in 1..Len(l)
        BY <3>1
      <3> HIDE DEF l
      <3>3. all[ext[m] + k] = l[k]
        BY <1>1, <1>2, <3>2
      <3> QED
        BY <3>1, <3>3
    <2>2. CASE i # m + 1
      <3>1. i \in 1..m /\ i - 1 \in 0..m /\ i \in 0..m
        BY <2>2
      <3>2. Len(rs[i].resources) \in Nat
        BY <3>1
      <3>3. /\ merged[off[i - 1] + k] = rs[i].resources[k]
            /\ off[i] = off[i - 1] + Len(rs[i].resources)
        BY <3>1 DEF Layout
      <3>4. ext[i - 1] + k \in 1..Len(merged)
        <4>1. ext[i - 1] \in Nat /\ ext[i] = ext[i - 1] + Len(rs[i].resources) /\ ext[i] <= Len(merged)
          BY <1>2, <1>3, <3>1, <3>3
        <4>2. k \in Nat /\ 1 <= k /\ k <= Len(rs[i].resources) /\ Len(merged) \in Nat
          BY <1>1, <3>2
        <4> QED
          BY <3>2, <4>1, <4>2
      <3> QED
        BY <1>1, <1>2, <3>1, <3>3, <3>4
    <2> QED
      BY <2>1, <2>2
  <1>7. ASSUME NEW n \in 1..Len(all)
        PROVE  \E i \in 1..m + 1 : \E k \in 1..Len(rs[i].resources) : n = ext[i - 1] + k
    <2>1. CASE n <= Len(merged)
      <3>1. n \in 1..Len(merged)
        BY <1>1, <2>1
      <3>2. PICK i \in 1..m : \E k \in 1..Len(rs[i].resources) : n = off[i - 1] + k
        BY <3>1 DEF Layout
      <3>3. i \in 1..m + 1 /\ i - 1 \in 0..m
        OBVIOUS
      <3> QED
        BY <1>2, <3>2, <3>3
    <2>2. CASE n > Len(merged)
      <3>1. n - Len(merged) \in 1..Len(l) /\ n = ext[m] + (n - Len(merged))
        BY <1>1, <1>2, <2>2
      <3>2. m + 1 \in 1..m + 1 /\ (m + 1) - 1 = m
        OBVIOUS
      <3>3. \E k \in 1..Len(rs[m + 1].resources) : n = ext[(m + 1) - 1] + k
        BY <3>1, <3>2
      <3> QED
        BY <3>2, <3>3
    <2> QED
      BY <1>1, <2>1, <2>2
  <1>8. Layout(ext, rs, m + 1, all)
    BY <1>2, <1>4, <1>5, <1>6, <1>7 DEF Layout
  <1> QED
    BY <1>8 DEF ext, all, l

\* Before the first resource nothing is kept.
LEMMA SelectionEmpty ==
    ASSUME NEW merged
    PROVE  Selection(<<>>, merged, 0, <<>>)
  BY DEF Selection

\* Looking at the next resource extends the selection: a new key is appended,
\* a nil entry or a key that was seen is skipped.
LEMMA SelectionStep ==
    ASSUME NEW S, NEW merged \in Seq(S), NEW n \in Nat, n + 1 <= Len(merged),
           NEW T, NEW kept \in Seq(T), NEW sel, Selection(sel, merged, n, kept),
           merged[n + 1] # NoResource => merged[n + 1] \in T
    PROVE  \E s : Selection(s, merged, n + 1, keepFirst(kept, merged[n + 1]))
  <1> DEFINE r == merged[n + 1]
             L == Len(kept)
             old == \E a \in DOMAIN kept : kept[a].key = r.key
  <1>0. L \in Nat /\ DOMAIN kept = 1..L
    BY LenProperties
  <1>1. ASSUME r # NoResource PROVE IsFirst(merged, n + 1) <=> ~old
    <2>1. \A a \in 1..L : /\ sel[a] \in 1..n /\ kept[a] = merged[sel[a]]
                          /\ merged[sel[a]] # NoResource
      BY <1>0 DEF Selection, IsFirst
    <2>2. ASSUME old PROVE ~IsFirst(merged, n + 1)
      <3>1. PICK a \in 1..L : kept[a].key = r.key
        BY <1>0, <2>2
      <3> QED
        BY <2>1, <3>1 DEF IsFirst
    <2>3. ASSUME ~old PROVE IsFirst(merged, n + 1)
      <3>1. \A a \in 1..L : kept[a].key # r.key
        BY <1>0, <2>3
      <3>2. \A q \in 1..n : merged[q] # NoResource => \E a \in 1..L : kept[a].key = merged[q].key
        BY DEF Selection
      <3>3. \A q \in 1..n : merged[q] # NoResource => merged[q].key # r.key
        BY <3>1, <3>2
      <3>4. (n + 1) - 1 = n
        OBVIOUS
      <3> QED
        BY <1>1, <3>3, <3>4 DEF IsFirst
    <2> QED
      BY <2>2, <2>3
  <1>2. CASE r = NoResource \/ old
    <2>1. keepFirst(kept, r) = kept
      BY <1>2 DEF keepFirst
    <2>2. ~IsFirst(merged, n + 1)
      BY <1>1, <1>2 DEF IsFirst
    <2>3. sel \in [1..L -> 1..n + 1] /\ L <= n + 1 /\ \A a \in 1..L : sel[a] # n + 1
      BY <1>0 DEF Selection
    <2>4. \A p \in 1..n + 1 : p \in 1..n \/ p = n + 1
      OBVIOUS
    <2>5. \A p \in 1..n + 1 : (\E a \in 1..L : sel[a] = p) <=> IsFirst(merged, p)
      BY <2>2, <2>3, <2>4 DEF Selection
    <2>6. \A p \in 1..n + 1 : merged[p] # NoResource => \E a \in 1..L : kept[a].key = merged[p].key
      BY <1>0, <1>2, <2>4 DEF Selection
    <2>7. Selection(sel, merged, n + 1, kept)
      BY <2>3, <2>5, <2>6 DEF Selection
    <2> QED
      BY <2>1, <2>7
  <1>3. CASE r # NoResource /\ ~old
    <2> DEFINE new == Append(kept, r)
               s == [a \in 1..L + 1 |-> IF a <= L THEN sel[a] ELSE n + 1]
    <2>1. keepFirst(kept, r) = new
      BY <1>3 DEF keepFirst
    <2>2. Len(new) = L + 1 /\ new[L + 1] = r /\ \A a \in 1..L : new[a] = kept[a]
      BY <1>3, AppendProperties
    <2>3. /\ s \in [1..L + 1 -> 1..n + 1] /\ s[L + 1] = n + 1
          /\ \A a \in 1..L : s[a] = sel[a] /\ sel[a] \in 1..n
      <3>1. \A a \in 1..L : sel[a] \in 1..n
        BY DEF Selection
      <3>2. \A a \in 1..L + 1 : (IF a <= L THEN sel[a] ELSE n + 1) \in 1..n + 1
        BY <1>0, <3>1
      <3> HIDE DEF L
      <3> QED
        BY <1>0, <3>1, <3>2
    <2>4. \A a \in 1..L + 1 : a \in 1..L \/ a = L + 1
      BY <1>0
    <2>5. L + 1 \in 1..L + 1 /\ \A a \in 1..L : a \in 1..L + 1
      BY <1>0
    <2>6. \A p \in 1..n + 1 : p \in 1..n \/ p = n + 1
      OBVIOUS
    <2> HIDE DEF new, s
    <2>7. \A a, b \in 1..L + 1 : a < b => s[a] < s[b]
      <3> SUFFICES ASSUME NEW a \in 1..L + 1, NEW b \in 1..L + 1, a < b PROVE s[a] < s[b]
        OBVIOUS
      <3>1. a \in 1..L
        BY <1>0
      <3>2. CASE b = L + 1
        BY <2>3, <3>1, <3>2
      <3>3. CASE b \in 1..L
        BY <2>3, <3>1, <3>3 DEF Selection
      <3> QED
        BY <2>4, <3>2, <3>3
    <2>8. \A a \in 1..L + 1 : new[a] = merged[s[a]]
      BY <2>2, <2>3, <2>4 DEF Selection
    <2>9. \A p \in 1..n + 1 : (\E a \in 1..L + 1 : s[a] = p) <=> IsFirst(merged, p)
      <3> SUFFICES ASSUME NEW p \in 1..n + 1
                   PROVE  (\E a \in 1..L + 1 : s[a] = p) <=> IsFirst(merged, p)
        OBVIOUS
      <3>1. CASE p = n + 1
        BY <1>1, <1>3, <2>3, <2>5, <3>1
      <3>2. CASE p \in 1..n
        <4>1. (\E a \in 1..L : sel[a] = p) <=> IsFirst(merged, p)
          BY <3>2 DEF Selection
        <4>2. p # n + 1
          BY <3>2
        <4> QED
          BY <2>3, <2>4, <2>5, <4>1, <4>2
      <3> QED
        BY <2>6, <3>1, <3>2
    <2>10. \A p \in 1..n + 1 : merged[p] # NoResource => \E a \in 1..L + 1 : new[a].key = merged[p].key
      <3> SUFFICES ASSUME NEW p \in 1..n + 1, merged[p] # NoResource
                   PROVE  \E a \in 1..L + 1 : new[a].key = merged[p].key
        OBVIOUS
      <3>1. CASE p = n + 1
        BY <2>2, <2>5, <3>1
      <3>2. CASE p \in 1..n
        BY <2>2, <2>5, <3>2 DEF Selection
      <3> QED
        BY <2>6, <3>1, <3>2
    <2>11. L + 1 <= n + 1
      BY <1>0 DEF Selection
    <2>12. Selection(s, merged, n + 1, new)
      BY <2>2, <2>3, <2>7, <2>8, <2>9, <2>10, <2>11 DEF Selection
    <2> QED
      BY <2>1, <2>12
  <1> QED
    BY <1>2, <1>3

-----------------------------------------------------------------------------
(* From the layout and the selection to the winners of ScanContract *)

\* The positions of the resources in results 1..m, and where p stands in the
\* merged resources.
Slots(rs, m) == UNION {{i} \X (1..Len(rs[i].resources)) : i \in 1..m}

Place(off, p) == off[p[1] - 1] + p[2]

\* A function from 1..n onto T that takes no value twice counts T.
LEMMA Counting ==
    ASSUME NEW n \in Nat, NEW T, NEW f \in [1..n -> T],
           \A t \in T : \E a \in 1..n : f[a] = t,
           \A a, b \in 1..n : f[a] = f[b] => a = b
    PROVE  Cardinality(T) = n
  <1>1. f \in Bijection(1..n, T)
    BY DEF Bijection, Injection, Surjection, IsInjective
  <1>2. ExistsBijection(1..n, T)
    BY <1>1 DEF ExistsBijection
  <1> QED
    BY <1>2, FS_CountingElements

\* f lists the positions in S from the earliest to the latest.
Enumerates(f, L, S) ==
    /\ L \in Nat /\ f \in [1..L -> S]
    /\ \A p \in S : p[1] \in Int /\ p[2] \in Int
    /\ \A p \in S : \E a \in 1..L : f[a] = p
    /\ \A a, b \in 1..L : a < b => Contract!Earlier(f[a], f[b])

\* InOrder of a set of positions is any enumeration of it that goes from
\* earlier to later positions.
LEMMA InOrderEnumerates ==
    ASSUME NEW S, NEW L, NEW f, Enumerates(f, L, S)
    PROVE  Contract!InOrder(S) = [a \in 1..L |-> Contract!At(f[a])]
  <1>0. /\ L \in Nat /\ f \in [1..L -> S]
        /\ \A p \in S : p[1] \in Int /\ p[2] \in Int
        /\ \A p \in S : \E a \in 1..L : f[a] = p
        /\ \A a, b \in 1..L : a < b => Contract!Earlier(f[a], f[b])
    BY DEF Enumerates
  <1> USE <1>0
  <1>1. \A p, q \in S : Contract!Earlier(p, q) => p # q /\ ~Contract!Earlier(q, p)
    BY DEF Contract!Earlier
  <1>2. \A a, b \in 1..L : Contract!Earlier(f[a], f[b]) <=> a < b
    <2> SUFFICES ASSUME NEW a \in 1..L, NEW b \in 1..L, Contract!Earlier(f[a], f[b]), ~(a < b)
                 PROVE  FALSE
      OBVIOUS
    <2>1. a = b \/ b < a
      OBVIOUS
    <2> QED
      BY <1>1, <2>1
  <1>3. \A a, b \in 1..L : f[a] = f[b] => a = b
    <2> SUFFICES ASSUME NEW a \in 1..L, NEW b \in 1..L, f[a] = f[b], a # b PROVE FALSE
      OBVIOUS
    <2>1. a < b \/ b < a
      OBVIOUS
    <2> QED
      BY <1>1, <1>2, <2>1
  <1>4. Cardinality(S) = L
    BY <1>3, Counting
  <1>5. ASSUME NEW a \in 1..L
        PROVE  Cardinality({q \in S : Contract!Earlier(q, f[a])}) = a - 1
    <2> DEFINE T == {q \in S : Contract!Earlier(q, f[a])}
               g == [b \in 1..a - 1 |-> f[b]]
    <2>1. a - 1 \in Nat /\ \A b \in 1..a - 1 : b \in 1..L /\ b < a
      OBVIOUS
    <2>2. g \in [1..a - 1 -> T]
      BY <1>2, <2>1
    <2>3. \A t \in T : \E b \in 1..a - 1 : g[b] = t
      <3> SUFFICES ASSUME NEW t \in T PROVE \E b \in 1..a - 1 : g[b] = t
        OBVIOUS
      <3>1. PICK b \in 1..L : f[b] = t
        OBVIOUS
      <3>2. b \in 1..a - 1
        BY <1>2, <3>1
      <3> QED
        BY <3>1, <3>2
    <2>4. \A b, c \in 1..a - 1 : g[b] = g[c] => b = c
      BY <1>3, <2>1
    <2> HIDE DEF T, g
    <2>5. Cardinality(T) = a - 1
      BY <2>1, <2>2, <2>3, <2>4, Counting
    <2> QED
      BY <2>5 DEF T
  <1>6. ASSUME NEW a \in 1..L
        PROVE  (CHOOSE p \in S : Cardinality({q \in S : Contract!Earlier(q, p)}) = a - 1) = f[a]
    <2> DEFINE C(p) == Cardinality({q \in S : Contract!Earlier(q, p)})
    <2>1. \A b \in 1..L : C(f[b]) = b - 1
      BY <1>5
    <2> HIDE DEF C
    <2>2. \A p \in S : C(p) = a - 1 => p = f[a]
      <3> SUFFICES ASSUME NEW p \in S, C(p) = a - 1 PROVE p = f[a]
        OBVIOUS
      <3>1. PICK b \in 1..L : f[b] = p
        OBVIOUS
      <3>2. b - 1 = a - 1
        BY <2>1, <3>1
      <3> QED
        BY <3>1, <3>2
    <2>3. f[a] \in S /\ C(f[a]) = a - 1
      BY <2>1
    <2>4. (CHOOSE p \in S : C(p) = a - 1) = f[a]
      BY <2>2, <2>3
    <2> QED
      BY <2>4 DEF C
  <1> DEFINE Nth(a) == CHOOSE p \in S : Cardinality({q \in S : Contract!Earlier(q, p)}) = a - 1
  <1>7. Contract!InOrder(S) = [a \in 1..Cardinality(S) |-> Contract!At(Nth(a))]
    BY DEF Contract!InOrder, Contract!Cardinality, Cardinality
  <1>8. \A a \in 1..L : Nth(a) = f[a]
    BY <1>6
  <1> HIDE DEF Nth
  <1> QED
    BY <1>4, <1>7, <1>8

\* The merged resources keep the order of the scopes and of their lists, and
\* every one of them comes from one position.
LEMMA LayoutOrder ==
    ASSUME NEW S, NEW m \in Nat, NEW rs, NEW merged \in Seq(S), NEW off,
           \A i \in 1..m : rs[i].resources \in Seq(S),
           Layout(off, rs, m, merged)
    PROVE  /\ \A p \in Slots(rs, m) :
                  /\ p[1] \in 1..m /\ p[2] \in 1..Len(rs[p[1]].resources) /\ p = <<p[1], p[2]>>
                  /\ Place(off, p) \in 1..Len(merged)
                  /\ merged[Place(off, p)] = rs[p[1]].resources[p[2]]
           /\ \A p, q \in Slots(rs, m) :
                  /\ Contract!Earlier(p, q) <=> Place(off, p) < Place(off, q)
                  /\ Place(off, p) = Place(off, q) => p = q
           /\ \A n \in 1..Len(merged) : \E p \in Slots(rs, m) : Place(off, p) = n
  <1>1. \A p \in Slots(rs, m) :
           p[1] \in 1..m /\ p[2] \in 1..Len(rs[p[1]].resources) /\ p = <<p[1], p[2]>>
    BY DEF Slots
  <1>2. \A i \in 1..m : Len(rs[i].resources) \in Nat
    OBVIOUS
  <1>3. /\ \A i \in 0..m : off[i] \in Nat /\ off[i] <= Len(merged)
        /\ \A i \in 1..m : off[i] = off[i - 1] + Len(rs[i].resources)
        /\ \A i, j \in 0..m : i <= j => off[i] <= off[j]
    <2>1. m \in 0..m /\ off[m] = Len(merged)
      BY DEF Layout
    <2> QED
      BY <2>1 DEF Layout
  <1>4. ASSUME NEW p \in Slots(rs, m)
        PROVE  /\ Place(off, p) \in 1..Len(merged)
               /\ off[p[1] - 1] \in Nat /\ off[p[1]] \in Nat
               /\ Place(off, p) > off[p[1] - 1] /\ Place(off, p) <= off[p[1]]
               /\ merged[Place(off, p)] = rs[p[1]].resources[p[2]]
    <2>1. p[1] \in 0..m /\ p[1] - 1 \in 0..m /\ p[1] \in 1..m
      BY <1>1
    <2>2. /\ off[p[1] - 1] \in Nat /\ off[p[1]] \in Nat /\ off[p[1]] <= Len(merged)
          /\ off[p[1]] = off[p[1] - 1] + Len(rs[p[1]].resources)
      BY <1>3, <2>1
    <2>3. p[2] \in Nat /\ 1 <= p[2] /\ p[2] <= Len(rs[p[1]].resources) /\ Len(rs[p[1]].resources) \in Nat
      BY <1>1, <1>2
    <2>4. merged[off[p[1] - 1] + p[2]] = rs[p[1]].resources[p[2]]
      BY <1>1 DEF Layout
    <2>5. Len(merged) \in Nat
      OBVIOUS
    <2>6. Place(off, p) = off[p[1] - 1] + p[2]
      BY DEF Place
    <2> DEFINE x == off[p[1] - 1]
               y == off[p[1]]
               k == p[2]
               l == Len(rs[p[1]].resources)
    <2>7. x \in Nat /\ y \in Nat /\ y <= Len(merged) /\ y = x + l /\ k \in Nat /\ 1 <= k /\ k <= l /\ l \in Nat
      BY <2>2, <2>3
    <2>8. Place(off, p) = x + k
      BY <2>6
    <2> HIDE DEF x, y, k, l
    <2>9. Place(off, p) \in 1..Len(merged) /\ Place(off, p) > x /\ Place(off, p) <= y
      BY <2>5, <2>7, <2>8
    <2> QED
      BY <2>2, <2>4, <2>6, <2>9 DEF x, y
  <1>5. \A p, q \in Slots(rs, m) : Contract!Earlier(p, q) => Place(off, p) < Place(off, q)
    <2> SUFFICES ASSUME NEW p \in Slots(rs, m), NEW q \in Slots(rs, m), Contract!Earlier(p, q)
                 PROVE  Place(off, p) < Place(off, q)
      OBVIOUS
    <2>1. CASE p[1] < q[1]
      <3>1. off[p[1]] <= off[q[1] - 1]
        <4>1. p[1] \in 0..m /\ q[1] - 1 \in 0..m /\ p[1] <= q[1] - 1
          BY <1>1, <2>1
        <4> QED
          BY <1>3, <4>1
      <3> QED
        BY <1>4, <3>1
    <2>2. CASE p[1] = q[1] /\ p[2] < q[2]
      BY <1>1, <1>4, <2>2 DEF Place
    <2> QED
      BY <2>1, <2>2 DEF Contract!Earlier
  <1>6. \A p, q \in Slots(rs, m) : p = q \/ Contract!Earlier(p, q) \/ Contract!Earlier(q, p)
    <2> SUFFICES ASSUME NEW p \in Slots(rs, m), NEW q \in Slots(rs, m)
                 PROVE  p = q \/ Contract!Earlier(p, q) \/ Contract!Earlier(q, p)
      OBVIOUS
    <2>1. /\ p[1] \in Int /\ p[2] \in Int /\ q[1] \in Int /\ q[2] \in Int
          /\ p = <<p[1], p[2]>> /\ q = <<q[1], q[2]>>
      BY <1>1
    <2> QED
      BY <2>1 DEF Contract!Earlier
  <1>7. \A p, q \in Slots(rs, m) :
           /\ Contract!Earlier(p, q) <=> Place(off, p) < Place(off, q)
           /\ Place(off, p) = Place(off, q) => p = q
    <2> SUFFICES ASSUME NEW p \in Slots(rs, m), NEW q \in Slots(rs, m)
                 PROVE  /\ Contract!Earlier(p, q) <=> Place(off, p) < Place(off, q)
                        /\ Place(off, p) = Place(off, q) => p = q
      OBVIOUS
    <2>1. Place(off, p) \in Int /\ Place(off, q) \in Int
      BY <1>4
    <2> QED
      BY <1>5, <1>6, <2>1
  <1>8. \A n \in 1..Len(merged) : \E p \in Slots(rs, m) : Place(off, p) = n
    <2> SUFFICES ASSUME NEW n \in 1..Len(merged) PROVE \E p \in Slots(rs, m) : Place(off, p) = n
      OBVIOUS
    <2>0. PICK i \in 1..m : \E k \in 1..Len(rs[i].resources) : n = off[i - 1] + k
      BY DEF Layout
    <2>1. PICK k \in 1..Len(rs[i].resources) : n = off[i - 1] + k
      BY <2>0
    <2>2. <<i, k>> \in Slots(rs, m)
      BY DEF Slots
    <2>3. Place(off, <<i, k>>) = n
      BY <2>1 DEF Place
    <2> QED
      BY <2>2, <2>3
  <1> QED
    BY <1>1, <1>4, <1>7, <1>8

\* What is filed for a scope says what the plugin answered for it.
LEMMA CollectedFacts ==
    ASSUME IInv, DOMAIN collected = Indices, CollectedAsPlanned, NEW i \in Indices
    PROVE  /\ collected[i] \in ResultType
           /\ collected[i].resources \in Seq(Resources \cup {NoResource})
           /\ Contract!Answered(i) <=> ~collected[i].unreachable
           /\ Contract!HasErrors(i) <=> collected[i].failed
           /\ collected[i].unreachable => collected[i].failed
           /\ Contract!Answered(i) => collected[i].resources = answered[i][1].resources
           /\ ~Contract!Answered(i) => collected[i].resources = <<>>
           /\ answered[i] # <<>>
           /\ i \in Contract!Scope
  <1>1. i \in DOMAIN collected /\ collected[i] # NoResult
    BY DEF CollectedAsPlanned
  <1>2. PICK a \in Answers : answered[i] = <<a>> /\ collected[i] = scanScope(plan.scopes[i], a)
    BY <1>1 DEF IInv, Faithful, ResultOf
  <1>3. plan.scopes[i] \in Scopes /\ i \in Contract!Scope
    BY PlanFacts DEF IInv, TypeOK, Indices, ScopeCount, Contract!Scope
  <1>4. collected[i] \in ResultType
    BY <1>2, <1>3, ScanScopeFacts
  <1>5. a \in AnswerType
    BY AnswersAssumption
  <1>6. answered[i][1] = a /\ answered[i] # <<>>
    BY <1>2, SingletonNotEmpty
  <1>7. CASE a.kind = "response"
    <2>1. collected[i] = [scope |-> plan.scopes[i], resources |-> a.resources,
                         failed |-> \E k \in DOMAIN a.errors : IsScanError(a.errors[k]),
                         unreachable |-> FALSE]
      BY <1>2, <1>7 DEF scanScope
    <2>2. Contract!Answered(i)
      BY <1>6, <1>7 DEF Contract!Answered
    <2>3. collected[i].failed <=> \E k \in DOMAIN a.errors : IsScanError(a.errors[k])
      BY <2>1
    <2>4. \A k \in DOMAIN a.errors : IsScanError(a.errors[k]) <=> a.errors[k] = "error"
      BY <1>5 DEF AnswerType, IsScanError
    <2>5. Contract!HasErrors(i) <=> "error" \in {a.errors[k] : k \in DOMAIN a.errors}
      BY <1>6, <2>2 DEF Contract!HasErrors
    <2>6. Contract!HasErrors(i) <=> collected[i].failed
      BY <2>3, <2>4, <2>5
    <2>7. collected[i].resources = a.resources /\ ~collected[i].unreachable
      BY <2>1
    <2> QED
      BY <1>3, <1>4, <1>6, <2>2, <2>6, <2>7 DEF ResultType
  <1>8. CASE a.kind # "response"
    <2>1. collected[i] = [scope |-> plan.scopes[i], resources |-> <<>>, failed |-> TRUE, unreachable |-> TRUE]
      BY <1>2, <1>8 DEF scanScope
    <2>2. ~Contract!Answered(i)
      BY <1>6, <1>8 DEF Contract!Answered
    <2>3. Contract!HasErrors(i)
      BY <2>2 DEF Contract!HasErrors
    <2>4. collected[i].resources = <<>> /\ collected[i].unreachable /\ collected[i].failed
      BY <2>1
    <2> QED
      BY <1>3, <1>4, <1>6, <2>2, <2>3, <2>4 DEF ResultType
  <1> QED
    BY <1>7, <1>8

\* The first resources of every key of the merged list are the winners of the
\* contract, in the order of the contract.
LEMMA WinnersInOrder ==
    ASSUME IInv, DOMAIN collected = Indices, CollectedAsPlanned,
           NEW merged \in Seq(Resources \cup {NoResource}),
           NEW off, Layout(off, collected, ScopeCount, merged),
           NEW sel, NEW kept \in Seq(Resources),
           Selection(sel, merged, Len(merged), kept)
    PROVE  kept = Contract!InOrder(Contract!Winners)
  <1> DEFINE M == Len(merged)
             L == Len(kept)
             All == Slots(collected, ScopeCount)
             Res(p) == collected[p[1]].resources[p[2]]
             W == Contract!Winners
  <1>1. /\ ScopeCount \in Nat /\ Indices = 1..ScopeCount /\ M \in Nat /\ L \in Nat
    BY PlanFacts DEF IInv, TypeOK
  <1>2. /\ \A p \in All : /\ p[1] \in 1..ScopeCount /\ p[2] \in 1..Len(collected[p[1]].resources)
                          /\ p = <<p[1], p[2]>>
                          /\ Place(off, p) \in 1..M /\ merged[Place(off, p)] = Res(p)
        /\ \A p, q \in All : /\ Contract!Earlier(p, q) <=> Place(off, p) < Place(off, q)
                             /\ Place(off, p) = Place(off, q) => p = q
        /\ \A n \in 1..M : \E p \in All : Place(off, p) = n
    <2> DEFINE S == Resources \cup {NoResource}
    <2>1. \A i \in 1..ScopeCount : collected[i].resources \in Seq(S)
      BY <1>1, CollectedFacts
    <2>2. merged \in Seq(S)
      BY <1>1
    <2> HIDE DEF S
    <2> QED
      BY <1>1, <2>1, <2>2, LayoutOrder
  <1>3. Contract!Positions = {p \in All : Res(p) # NoResource}
    <2>1. \A i \in Indices : 1..Len(collected[i].resources) =
             IF Contract!Answered(i) THEN DOMAIN answered[i][1].resources ELSE {}
      <3> SUFFICES ASSUME NEW i \in Indices
                   PROVE  1..Len(collected[i].resources) =
                            IF Contract!Answered(i) THEN DOMAIN answered[i][1].resources ELSE {}
        OBVIOUS
      <3>1. CASE Contract!Answered(i)
        BY <3>1, CollectedFacts
      <3>2. CASE ~Contract!Answered(i)
        BY <3>2, CollectedFacts
      <3> QED
        BY <3>1, <3>2
    <2>2. Contract!Scope = Indices
      BY PlanFacts DEF IInv, TypeOK, Indices, ScopeCount, Contract!Scope
    <2>3. ASSUME NEW p \in Contract!Positions PROVE p \in All /\ Res(p) # NoResource
      <3>1. PICK i \in Indices : /\ Contract!Answered(i)
                                 /\ p \in {i} \X {k \in DOMAIN answered[i][1].resources :
                                                     answered[i][1].resources[k] # NoResource}
        BY <2>2 DEF Contract!Positions
      <3>2. p = <<i, p[2]>> /\ p[2] \in DOMAIN answered[i][1].resources /\ answered[i][1].resources[p[2]] # NoResource
        BY <3>1
      <3>3. p \in {i} \X (1..Len(collected[i].resources))
        BY <2>1, <3>1, <3>2
      <3>4. p \in All
        BY <1>1, <3>3 DEF Slots
      <3>5. p[1] = i /\ collected[i].resources = answered[i][1].resources
        BY <3>1, CollectedFacts
      <3> QED
        BY <3>2, <3>4, <3>5
    <2>4. ASSUME NEW p \in All, Res(p) # NoResource PROVE p \in Contract!Positions
      <3>1. p[1] \in Indices /\ p[2] \in 1..Len(collected[p[1]].resources) /\ p = <<p[1], p[2]>>
        BY <1>1, <1>2
      <3>2. Contract!Answered(p[1]) /\ p[2] \in DOMAIN answered[p[1]][1].resources
        BY <2>1, <3>1
      <3>3. answered[p[1]][1].resources[p[2]] # NoResource
        BY <2>4, <3>1, <3>2, CollectedFacts
      <3>4. p \in {p[1]} \X {k \in DOMAIN answered[p[1]][1].resources : answered[p[1]][1].resources[k] # NoResource}
        BY <3>1, <3>2, <3>3
      <3> QED
        BY <2>2, <3>1, <3>2, <3>4 DEF Contract!Positions
    <2> QED
      BY <2>3, <2>4
  <1>4. \A p \in Contract!Positions : p \in All /\ Contract!At(p) = Res(p)
    <2> SUFFICES ASSUME NEW p \in Contract!Positions PROVE p \in All /\ Contract!At(p) = Res(p)
      OBVIOUS
    <2>1. p \in All /\ p[1] \in Indices
      BY <1>1, <1>2, <1>3
    <2>2. Contract!Answered(p[1])
      <3>1. Len(<<>>) = 0
        OBVIOUS
      <3>2. collected[p[1]].resources # <<>>
        BY <1>2, <2>1, <3>1
      <3> QED
        BY <2>1, <3>2, CollectedFacts
    <2> QED
      BY <2>1, <2>2, CollectedFacts DEF Contract!At
  <1> HIDE DEF M, L, All, Res
  <1>5. \A p \in All : p \in W <=> IsFirst(merged, Place(off, p))
    <2> SUFFICES ASSUME NEW p \in All PROVE p \in W <=> IsFirst(merged, Place(off, p))
      OBVIOUS
    <2>1. Place(off, p) \in 1..M /\ merged[Place(off, p)] = Res(p)
      BY <1>2
    <2>2. ASSUME p \in W PROVE IsFirst(merged, Place(off, p))
      <3>1. /\ p \in Contract!Positions
            /\ \A q \in Contract!Positions : Contract!Earlier(q, p) => Contract!At(q).key # Contract!At(p).key
        BY <2>2 DEF Contract!Winners
      <3>2. ASSUME NEW n \in 1..Place(off, p) - 1, merged[n] # NoResource
            PROVE  merged[n].key # Res(p).key
        <4>1. n \in 1..M /\ n < Place(off, p)
          BY <1>1, <2>1
        <4>2. PICK q \in All : Place(off, q) = n
          BY <1>2, <4>1
        <4>3. Contract!Earlier(q, p) /\ Res(q) = merged[n]
          BY <1>2, <4>1, <4>2
        <4>4. q \in Contract!Positions
          BY <1>3, <3>2, <4>3
        <4> QED
          BY <1>4, <3>1, <4>3, <4>4
      <3> QED
        BY <1>3, <2>1, <3>1, <3>2 DEF IsFirst
    <2>3. ASSUME IsFirst(merged, Place(off, p)) PROVE p \in W
      <3>1. p \in Contract!Positions
        BY <1>3, <2>1, <2>3 DEF IsFirst
      <3>2. ASSUME NEW q \in Contract!Positions, Contract!Earlier(q, p)
            PROVE  Contract!At(q).key # Contract!At(p).key
        <4>1. q \in All /\ Contract!At(q) = Res(q) /\ Contract!At(p) = Res(p) /\ Res(q) # NoResource
          BY <1>3, <1>4, <3>1
        <4>2. Place(off, q) \in 1..M /\ merged[Place(off, q)] = Res(q) /\ Place(off, q) < Place(off, p)
          BY <1>2, <3>2, <4>1
        <4>3. Place(off, q) \in 1..Place(off, p) - 1
          BY <2>1, <4>2
        <4> QED
          BY <2>1, <2>3, <4>1, <4>2, <4>3 DEF IsFirst
      <3> QED
        BY <3>1, <3>2 DEF Contract!Winners
    <2> QED
      BY <2>2, <2>3
  <1>6. W \subseteq All
    BY <1>4 DEF Contract!Winners
  <1>7. /\ \A a \in 1..L : sel[a] \in 1..M /\ kept[a] = merged[sel[a]]
        /\ \A a, b \in 1..L : a < b => sel[a] < sel[b]
        /\ \A n \in 1..M : (\E a \in 1..L : sel[a] = n) <=> IsFirst(merged, n)
    BY DEF Selection, M, L
  <1>8. \A a \in 1..L : \E p \in W : Place(off, p) = sel[a]
    BY <1>2, <1>5, <1>7
  <1> DEFINE f == [a \in 1..L |-> CHOOSE p \in W : Place(off, p) = sel[a]]
  <1>9. /\ f \in [1..L -> W]
        /\ \A a \in 1..L : f[a] \in W /\ f[a] \in All /\ Place(off, f[a]) = sel[a]
    BY <1>6, <1>8
  <1> HIDE DEF f, W
  <1>10. \A p \in W : \E a \in 1..L : f[a] = p
    <2> SUFFICES ASSUME NEW p \in W PROVE \E a \in 1..L : f[a] = p
      OBVIOUS
    <2>1. p \in All /\ IsFirst(merged, Place(off, p)) /\ Place(off, p) \in 1..M
      BY <1>2, <1>5, <1>6
    <2>2. PICK a \in 1..L : sel[a] = Place(off, p)
      BY <1>7, <2>1
    <2> QED
      BY <1>2, <1>9, <2>1, <2>2
  <1>11. \A a, b \in 1..L : a < b => Contract!Earlier(f[a], f[b])
    BY <1>2, <1>7, <1>9
  <1>12. \A p \in W : p[1] \in Int /\ p[2] \in Int
    BY <1>1, <1>2, <1>6
  <1>13. Contract!InOrder(W) = [a \in 1..L |-> Contract!At(f[a])]
    <2>1. Enumerates(f, L, W)
      BY <1>1, <1>9, <1>10, <1>11, <1>12 DEF Enumerates
    <2> QED
      BY <2>1, InOrderEnumerates
  <1>14. \A a \in 1..L : Contract!At(f[a]) = kept[a]
    <2> SUFFICES ASSUME NEW a \in 1..L PROVE Contract!At(f[a]) = kept[a]
      OBVIOUS
    <2>1. f[a] \in Contract!Positions
      BY <1>9 DEF W, Contract!Winners
    <2> QED
      BY <1>2, <1>4, <1>7, <1>9, <2>1
  <1>15. kept = [a \in 1..L |-> kept[a]]
    BY DEF L
  <1> QED
    BY <1>13, <1>14, <1>15 DEF W

-----------------------------------------------------------------------------
(* The steps of aggregateScopes *)

\* A step that leaves the caller's state, its loops and the collected results
\* alone keeps what aggregateScopes has built.
LEMMA AggregatedKept ==
    ASSUME Aggregated, UNCHANGED <<plan, caller, loop, collected, outcome>>
    PROVE  Aggregated'
  BY DEF Aggregated, ScopeCount

\* Aggregation has nothing to show initially.
LEMMA InitAggregated == Init => Aggregated
  BY DEF Init, Aggregated

\* Rejecting a call leaves nothing to aggregate.
LEMMA RejectAggregated ==
    ASSUME IInv, Aggregated, Reject
    PROVE  Aggregated'
  <1>1. caller'.pc = "returned"
    BY DEF Reject, IInv, TypeOK
  <1> QED
    BY <1>1 DEF Aggregated

\* Returning leaves nothing to aggregate.
LEMMA DecideAggregated ==
    ASSUME IInv, Aggregated, Decide
    PROVE  Aggregated'
  <1>1. caller'.pc = "returned"
    BY DEF Decide, IInv, TypeOK
  <1> QED
    BY <1>1 DEF Aggregated

\* Starting the goroutines and filing a result leave the outcome empty; the index
\* of a result is always in range.
LEMMA CollectAggregated ==
    ASSUME IInv, Aggregated, Start \/ Collect
    PROVE  Aggregated'
  <1>1. /\ caller.pc \in {"start", "collect"} /\ caller'.pc = "collect"
        /\ outcome' = outcome /\ loop' = loop
    <2>1. CASE Start
      BY <2>1 DEF Start, IInv, TypeOK
    <2>2. CASE Collect
      <3>1. Head(results).index \in Indices
        <4> DEFINE R == [index : Indices, result : ResultType]
        <4>1. results \in Seq(R) /\ results # <<>>
          BY <2>2 DEF IInv, TypeOK, Collect
        <4>2. \A e \in R : e.index \in Indices
          OBVIOUS
        <4> HIDE DEF R
        <4> QED
          BY <4>1, <4>2, HeadTailProperties
      <3> QED
        BY <2>2, <3>1 DEF Collect, IInv, TypeOK
    <2> QED
      BY <2>1, <2>2
  <1> QED
    BY <1>1 DEF Aggregated, EmptyOutcome

\* The merge starts with every scope filed and nothing merged.
LEMMA CollectDoneAggregated ==
    ASSUME IInv, Aggregated, CollectDone
    PROVE  Aggregated'
  <1>1. /\ caller.pc = "collect" /\ caller'.pc = "merge" /\ caller'.merging = 1
        /\ outcome' = outcome /\ loop' = loop /\ collected' = collected
    BY DrainedIsComplete DEF CollectDone, EveryScopeHasAResult, IInv, TypeOK, Phases
  <1>2. /\ outcome = EmptyOutcome("none") /\ loop.next = 1 /\ loop.total = 0 /\ loop.kept = <<>>
    BY <1>1 DEF Aggregated
  <1>3. outcome.resources = <<>> /\ outcome.failed = <<>> /\ outcome.unreachable = 0
    BY <1>2 DEF EmptyOutcome
  <1>4. Tallied(0, collected, <<>>, 0)
    BY DEF Tallied
  <1>5. /\ Layout([i \in 0..0 |-> 0], collected, 0, <<>>)
        /\ [i \in 0..0 |-> 0][0] = 0
    BY LayoutEmpty
  <1>6. \E off : Layout(off, collected, 0, <<>>) /\ off[0] = 0
    BY <1>5
  <1>7. caller'.merging - 1 = 0 /\ loop'.next - 1 = 0
    BY <1>1, <1>2
  <1> QED
    BY <1>1, <1>2, <1>3, <1>4, <1>6, <1>7 DEF Aggregated

\* Merging the next scope extends the layout by its list and the tallies by its
\* errors.
LEMMA MergeAggregated ==
    ASSUME IInv, Aggregated, Merge
    PROVE  Aggregated'
  <1> DEFINE m == caller.merging - 1
             r == collected[caller.merging]
             S == Resources \cup {NoResource}
  <1>1. /\ caller.pc = "merge" /\ caller'.pc = "merge" /\ caller'.merging = caller.merging + 1
        /\ loop' = loop /\ collected' = collected /\ plan' = plan
        /\ ScopeCount \in Nat /\ Indices = 1..ScopeCount
        /\ caller.merging \in Indices
    BY PlanFacts DEF IInv, TypeOK, Merge
  <1>2. DOMAIN collected = Indices /\ CollectedAsPlanned
    BY <1>1 DEF IInv, Phases
  <1>3. m \in Nat /\ m + 1 = caller.merging /\ caller'.merging - 1 = m + 1 /\ m + 1 \in Indices
    BY <1>1
  <1>4. /\ outcome'.resources = outcome.resources \o r.resources
        /\ outcome'.failed = IF r.failed THEN Append(outcome.failed, r.scope) ELSE outcome.failed
        /\ outcome'.unreachable = IF r.unreachable THEN outcome.unreachable + 1 ELSE outcome.unreachable
    BY DEF Merge, IInv, TypeOK
  <1>5. r \in ResultType /\ (r.unreachable => r.failed)
    BY <1>1, <1>2, CollectedFacts
  <1>6. Tallied(m + 1, collected, outcome'.failed, outcome'.unreachable)
    <2>1. Tallied(m, collected, outcome.failed, outcome.unreachable)
      BY <1>1 DEF Aggregated
    <2>2. outcome.failed \in Seq(Scopes) /\ outcome.unreachable \in Nat /\ r.scope \in Scopes
      BY <1>5 DEF IInv, TypeOK, ResultType
    <2>3. /\ Append(outcome.failed, r.scope) # <<>>
          /\ Len(Append(outcome.failed, r.scope)) = Len(outcome.failed) + 1 /\ Len(outcome.failed) \in Nat
      BY <2>2, AppendNotEmpty
    <2>4. \A i \in 1..m + 1 : i \in 1..m \/ i = m + 1
      BY <1>3
    <2>5. r = collected[m + 1] /\ m + 1 \in 1..m + 1 /\ \A i \in 1..m : i \in 1..m + 1
      BY <1>3
    <2> DEFINE failed == outcome'.failed
               unreachable == outcome'.unreachable
    <2>6. failed = <<>> <=> \A i \in 1..m + 1 : ~collected[i].failed
      <3>1. outcome.failed = <<>> <=> \A i \in 1..m : ~collected[i].failed
        BY <2>1 DEF Tallied
      <3>2. failed = <<>> <=> outcome.failed = <<>> /\ ~r.failed
        BY <1>4, <2>3
      <3> HIDE DEF failed, r, m
      <3> QED
        BY <2>4, <2>5, <3>1, <3>2
    <2>7. unreachable <= m + 1 /\ unreachable <= Len(failed)
      BY <1>3, <1>4, <1>5, <2>1, <2>2, <2>3 DEF Tallied
    <2>8. unreachable = m + 1 <=> \A i \in 1..m + 1 : collected[i].unreachable
      <3>1. /\ outcome.unreachable = m <=> \A i \in 1..m : collected[i].unreachable
            /\ outcome.unreachable <= m
        BY <2>1 DEF Tallied
      <3>2. unreachable = m + 1 <=> outcome.unreachable = m /\ r.unreachable
        BY <1>3, <1>4, <2>2, <3>1
      <3> HIDE DEF unreachable, r, m
      <3> QED
        BY <2>4, <2>5, <3>1, <3>2
    <2> HIDE DEF m
    <2> QED
      BY <2>6, <2>7, <2>8 DEF Tallied
  <1>7. PICK off : /\ Layout(off, collected, m, outcome.resources)
                   /\ loop.next <= caller.merging /\ loop.total = off[loop.next - 1]
    BY <1>1 DEF Aggregated
  <1>8. loop.next = 1 /\ loop.total = 0 /\ loop.kept = <<>> /\ loop.next \in Nat /\ off[0] = 0
    BY <1>1, <1>7 DEF Aggregated, Layout
  <1> DEFINE ext == [i \in 0..m + 1 |-> IF i <= m THEN off[i] ELSE Len(outcome.resources) + Len(collected[m + 1].resources)]
  <1>9. Layout(ext, collected, m + 1, outcome'.resources) /\ ext[0] = 0
    <2>1. \A i \in 1..m + 1 : collected[i].resources \in Seq(S)
      BY <1>1, <1>2, <1>3, CollectedFacts
    <2>2. outcome.resources \in Seq(S) /\ outcome'.resources = outcome.resources \o collected[m + 1].resources
      BY <1>3, <1>4 DEF IInv, TypeOK
    <2>3. ext[0] = 0
      BY <1>3, <1>8
    <2> HIDE DEF m, S
    <2> QED
      BY <1>3, <1>7, <2>1, <2>2, <2>3, LayoutAppend DEF ext
  <1>10. \E o : Layout(o, collected, caller'.merging - 1, outcome'.resources) /\ loop'.total = o[loop'.next - 1]
    <2> HIDE DEF ext
    <2>1. loop'.total = ext[loop'.next - 1]
      BY <1>1, <1>8, <1>9
    <2> QED
      BY <1>3, <1>9, <2>1
  <1>11. loop'.next <= caller'.merging
    BY <1>1, <1>3, <1>8
  <1> HIDE DEF m, r, S, ext
  <1> QED
    BY <1>1, <1>3, <1>6, <1>8, <1>10, <1>11 DEF Aggregated

\* assertMergedTotal follows the layout from one end of a list to the next.
LEMMA CountScopeAggregated ==
    ASSUME IInv, Aggregated, CountScope
    PROVE  Aggregated'
  <1>1. /\ caller.pc = "merge" /\ UNCHANGED <<plan, caller, collected, outcome>>
        /\ caller.merging = ScopeCount + 1 /\ ScopeCount \in Nat /\ Indices = 1..ScopeCount
        /\ loop.next \in 1..ScopeCount
        /\ loop'.next = loop.next + 1 /\ loop'.kept = loop.kept
        /\ loop'.total = loop.total + Len(collected[loop.next].resources)
    <2>1. /\ caller.pc = "merge" /\ UNCHANGED <<plan, caller, collected, outcome>>
          /\ caller.merging > ScopeCount /\ loop.next <= ScopeCount
          /\ loop \in [next : Nat \ {0}, total : Nat, kept : Seq(Resources)]
          /\ caller.merging \in 1..ScopeCount + 1
      BY DEF IInv, TypeOK, CountScope
    <2>2. ScopeCount \in Nat /\ Indices = 1..ScopeCount
      BY PlanFacts DEF IInv, TypeOK
    <2>3. loop' = [loop EXCEPT !.next = loop.next + 1,
                              !.total = loop.total + Len(collected[loop.next].resources)]
      BY DEF CountScope
    <2>4. /\ loop'.next = loop.next + 1 /\ loop'.kept = loop.kept
          /\ loop'.total = loop.total + Len(collected[loop.next].resources)
      BY <2>1, <2>3
    <2> QED
      BY <2>1, <2>2, <2>4
  <1>2. PICK off : /\ Layout(off, collected, caller.merging - 1, outcome.resources)
                   /\ loop.next <= caller.merging /\ loop.total = off[loop.next - 1]
    BY <1>1 DEF Aggregated
  <1>3. caller.merging - 1 = ScopeCount
    BY <1>1
  <1>4. off[loop.next] = off[loop.next - 1] + Len(collected[loop.next].resources)
    BY <1>1, <1>2, <1>3 DEF Layout
  <1>5. loop'.total = off[loop'.next - 1] /\ loop'.next <= caller.merging
    <2>1. loop'.next - 1 = loop.next
      BY <1>1
    <2> QED
      BY <1>1, <1>2, <1>4, <2>1
  <1>6. /\ \E o : /\ Layout(o, collected, caller.merging - 1, outcome.resources)
                  /\ loop'.next <= caller.merging /\ loop'.total = o[loop'.next - 1]
        /\ ~(caller.merging <= ScopeCount) /\ ScopeCount' = ScopeCount
    BY <1>1, <1>2, <1>5 DEF ScopeCount
  <1> QED
    BY <1>1, <1>6 DEF Aggregated

\* The sum is the end of the last list, which is the length of the merged
\* resources: the assertion holds.
LEMMA AssertMergedTotalAggregated ==
    ASSUME IInv, Aggregated, AssertMergedTotal
    PROVE  Aggregated'
  <1>1. /\ caller.pc = "merge" /\ UNCHANGED <<plan, collected, outcome>>
        /\ caller.merging = ScopeCount + 1 /\ ScopeCount \in Nat
        /\ loop.next \in Nat /\ loop.next > ScopeCount
        /\ loop'.next = 1 /\ loop'.kept = loop.kept /\ caller'.merging = caller.merging
    BY PlanFacts DEF IInv, TypeOK, AssertMergedTotal
  <1>2. PICK off : /\ Layout(off, collected, caller.merging - 1, outcome.resources)
                   /\ loop.next <= caller.merging /\ loop.total = off[loop.next - 1]
    BY <1>1 DEF Aggregated
  <1>3. caller.merging - 1 = ScopeCount /\ loop.next - 1 = ScopeCount
    BY <1>1, <1>2
  <1>4. loop.total = Len(outcome.resources)
    BY <1>2, <1>3 DEF Layout
  <1>5. caller'.pc = "dedupe"
    BY <1>4 DEF AssertMergedTotal, IInv, TypeOK
  <1>6. loop.kept = <<>> /\ loop'.next - 1 = 0
    BY <1>1 DEF Aggregated
  <1>7. Selection(<<>>, outcome.resources, 0, <<>>)
    BY SelectionEmpty
  <1>8. /\ \E o : Layout(o, collected, ScopeCount, outcome.resources)
        /\ \E sel : Selection(sel, outcome.resources, loop'.next - 1, loop'.kept)
    BY <1>1, <1>2, <1>3, <1>6, <1>7
  <1>9. loop'.next <= Len(outcome.resources) + 1
    <2>1. Len(outcome.resources) \in Nat
      BY DEF IInv, TypeOK
    <2> QED
      BY <1>1, <2>1
  <1>10. Tallied(caller.merging - 1, collected, outcome.failed, outcome.unreachable) /\ ScopeCount' = ScopeCount
    BY <1>1 DEF Aggregated, ScopeCount
  <1> QED
    BY <1>1, <1>5, <1>8, <1>9, <1>10 DEF Aggregated

\* Looking at the next resource extends the selection.
LEMMA DedupeNextAggregated ==
    ASSUME IInv, Aggregated, DedupeNext
    PROVE  Aggregated'
  <1> DEFINE S == Resources \cup {NoResource}
             n == loop.next - 1
  <1>1. /\ caller.pc = "dedupe" /\ UNCHANGED <<plan, caller, collected, outcome>>
        /\ loop.next \in Nat \ {0} /\ loop.next <= Len(outcome.resources)
        /\ loop'.next = loop.next + 1
        /\ loop'.kept = keepFirst(loop.kept, outcome.resources[loop.next])
        /\ loop.kept \in Seq(Resources) /\ outcome.resources \in Seq(S)
    BY DEF IInv, TypeOK, DedupeNext
  <1>2. PICK sel : Selection(sel, outcome.resources, n, loop.kept)
    BY <1>1 DEF Aggregated
  <1>3. n \in Nat /\ n + 1 = loop.next /\ loop'.next - 1 = n + 1 /\ n + 1 <= Len(outcome.resources)
    BY <1>1
  <1>4. outcome.resources[n + 1] # NoResource => outcome.resources[n + 1] \in Resources
    BY <1>1, <1>3
  <1> HIDE DEF S, n
  <1>5. \E s : Selection(s, outcome.resources, n + 1, keepFirst(loop.kept, outcome.resources[n + 1]))
    BY <1>1, <1>2, <1>3, <1>4, SelectionStep
  <1>6. \E s : Selection(s, outcome.resources, loop'.next - 1, loop'.kept)
    BY <1>1, <1>3, <1>5
  <1>7. loop'.next <= Len(outcome.resources) + 1
    <2>1. Len(outcome.resources) \in Nat
      BY <1>1
    <2> QED
      BY <1>1, <2>1
  <1>8. ScopeCount' = ScopeCount
    BY <1>1 DEF ScopeCount
  <1> QED
    BY <1>1, <1>6, <1>7, <1>8 DEF Aggregated

\* The selection is no longer than what it selects from, and every unreachable
\* scope was tallied as failed: both assertions hold.
LEMMA DedupedAggregated ==
    ASSUME IInv, Aggregated, Deduped
    PROVE  Aggregated'
  <1>1. /\ caller.pc = "dedupe" /\ UNCHANGED <<plan, collected, loop>>
        /\ loop.next \in Nat \ {0} /\ loop.next > Len(outcome.resources)
        /\ outcome.resources \in Seq(Resources \cup {NoResource}) /\ Len(outcome.resources) \in Nat
        /\ outcome'.resources = loop.kept /\ outcome'.failed = outcome.failed
        /\ outcome'.unreachable = outcome.unreachable /\ caller'.merging = caller.merging
    BY DEF IInv, TypeOK, Deduped
  <1>2. /\ \E off : Layout(off, collected, ScopeCount, outcome.resources)
        /\ loop.next <= Len(outcome.resources) + 1
        /\ \E sel : Selection(sel, outcome.resources, loop.next - 1, loop.kept)
        /\ Tallied(caller.merging - 1, collected, outcome.failed, outcome.unreachable)
    BY <1>1 DEF Aggregated
  <1>3. loop.next - 1 = Len(outcome.resources)
    BY <1>1, <1>2
  <1>4. \E sel : Selection(sel, outcome.resources, Len(outcome.resources), loop.kept)
    BY <1>2, <1>3
  <1>5. Len(loop.kept) <= Len(outcome.resources)
    BY <1>4 DEF Selection
  <1>6. outcome.unreachable <= Len(outcome.failed)
    BY <1>2 DEF Tallied
  <1>7. caller'.pc = "decide"
    BY <1>5, <1>6 DEF Deduped, IInv, TypeOK
  <1>8. \E merged \in Seq(Resources \cup {NoResource}) :
           /\ \E off : Layout(off, collected, ScopeCount, merged)
           /\ \E sel : Selection(sel, merged, Len(merged), loop.kept)
    BY <1>1, <1>2, <1>4
  <1>9. ScopeCount' = ScopeCount
    BY <1>1 DEF ScopeCount
  <1> QED
    BY <1>1, <1>2, <1>7, <1>8, <1>9 DEF Aggregated

\* Every step keeps what aggregateScopes has built.
LEMMA NextAggregated == IInv /\ Aggregated /\ [Next]_vars => Aggregated'
  <1> SUFFICES ASSUME IInv, Aggregated, [Next]_vars PROVE Aggregated'
    OBVIOUS
  <1>1. CASE Cancel \/ Dispatch \/ UNCHANGED vars
    <2>1. UNCHANGED <<plan, caller, loop, collected, outcome>>
      BY <1>1 DEF Cancel, Dispatch, Announce, CloseJobs, CloseResults, vars
    <2> QED
      BY <2>1, AggregatedKept
  <1>2. CASE Call
    BY <1>2, RejectAggregated, DecideAggregated, CollectAggregated, CollectDoneAggregated,
       MergeAggregated, CountScopeAggregated, AssertMergedTotalAggregated,
       DedupeNextAggregated, DedupedAggregated
       DEF Call, Aggregate
  <1>3. CASE \E w \in DOMAIN worker : Work(w)
    <2>1. UNCHANGED <<plan, caller, loop, collected, outcome>>
      BY <1>3 DEF Work, Handoff, BatchScan, Report, Exit
    <2> QED
      BY <2>1, AggregatedKept
  <1> QED
    BY <1>1, <1>2, <1>3 DEF Next

\* What aggregateScopes has built is an invariant of the executor.
LEMMA AggregatedInvariance == Spec => []Aggregated
  BY InitAggregated, NextAggregated, Invariance, PTL DEF Spec

-----------------------------------------------------------------------------
(* The executor implements its contract *)

\* Initially nothing has been answered or returned.
LEMMA InitContract == Init => Contract!Init
  BY DEF Init, Contract!Init, Contract!Scope, Contract!NoOutcome

\* A step that leaves the plan, the context, the answers and what has been
\* returned alone is a stuttering step of the contract.
LEMMA ContractStutters ==
    ASSUME UNCHANGED <<plan, scanner, ctxDone, answered>>,
           \/ UNCHANGED <<caller, outcome>>
           \/ caller.pc # "returned" /\ caller'.pc # "returned"
    PROVE  UNCHANGED Contract!vars
  BY DEF Contract!vars

\* A cancelled context is a cancelled contract.
LEMMA CancelContract ==
    ASSUME Cancel
    PROVE  Contract!Cancel
  BY DEF Cancel, Contract!Cancel

\* A rejected call is a refusal.
LEMMA RejectContract ==
    ASSUME IInv, Reject
    PROVE  Contract!Refuse
  <1>1. /\ caller.pc = "start" /\ caller'.pc = "returned"
        /\ outcome'.status = "failed" /\ outcome'.resources = <<>>
        /\ UNCHANGED <<plan, scanner, ctxDone, answered>>
    BY DEF Reject, IInv, TypeOK, EmptyOutcome
  <1>2. ~scanner \/ Contract!Scope = {}
    <2>1. ScopeCount = 0 => Contract!Scope = {}
      BY PlanFacts DEF IInv, TypeOK, ScopeCount, Contract!Scope
    <2> QED
      BY <2>1 DEF Reject
  <1> QED
    BY <1>1, <1>2 DEF Contract!Refuse, Contract!NoOutcome

\* The plugin answers a scope that had no answer.
LEMMA BatchScanContract ==
    ASSUME IInv, NEW w \in DOMAIN worker, NEW answer \in Answers, BatchScan(w, answer)
    PROVE  \E i \in Contract!Scope : Contract!Answer(i, answer)
  <1> DEFINE i == worker[w].index
  <1>1. /\ worker[w].pc = "scan" /\ UNCHANGED <<plan, scanner, ctxDone, caller, outcome>>
        /\ answered' = [answered EXCEPT ![i] = Append(answered[i], answer)]
    BY DEF BatchScan
  <1>2. i \in Indices /\ answered[i] = <<>> /\ scanner
    <2>1. w \in Busy
      BY <1>1 DEF Busy
    <2>2. i \in 1..dispatcher.next - 1 /\ answered[i] = <<>>
      BY <1>1, <2>1 DEF IInv, Distinct, Faithful
    <2>3. dispatcher.pc # "off"
      BY DEF IInv, Phases
    <2> QED
      BY <2>2, <2>3, PlanFacts DEF IInv, TypeOK, Phases
  <1>3. Append(<<>>, answer) = <<answer>>
    OBVIOUS
  <1>4. i \in Contract!Scope
    BY <1>2, PlanFacts DEF IInv, TypeOK, ScopeCount, Contract!Scope
  <1>5. Contract!Answer(i, answer)
    BY <1>1, <1>2, <1>3 DEF Contract!Answer
  <1> QED
    BY <1>4, <1>5

\* Execute returns what the contract returns.
LEMMA DecideContract ==
    ASSUME IInv, Aggregated, Decide
    PROVE  Contract!Return
  <1>1. /\ caller.pc = "decide" /\ caller'.pc = "returned"
        /\ UNCHANGED <<plan, scanner, ctxDone, answered>>
        /\ outcome'.status = StatusOf(ctxDone, outcome.failed, outcome.unreachable)
        /\ outcome'.resources = outcome.resources
        /\ ctxDone \in BOOLEAN
    BY DEF Decide, IInv, TypeOK
  <1>2. /\ DOMAIN collected = Indices /\ CollectedAsPlanned /\ scanner /\ ScopeCount > 0
        /\ caller.merging - 1 = ScopeCount
        /\ ScopeCount \in Nat /\ Indices = 1..ScopeCount /\ Contract!Scope = Indices
    <2>1. /\ ScopeCount \in Nat /\ Indices = 1..ScopeCount /\ Contract!Scope = Indices
      BY PlanFacts DEF IInv, TypeOK, Indices, ScopeCount, Contract!Scope
    <2> QED
      BY <1>1, <2>1 DEF IInv, Phases
  <1>3. outcome.resources = Contract!InOrder(Contract!Winners)
    <2>1. PICK merged \in Seq(Resources \cup {NoResource}) :
             /\ \E off : Layout(off, collected, ScopeCount, merged)
             /\ \E sel : Selection(sel, merged, Len(merged), loop.kept)
      BY <1>1 DEF Aggregated
    <2>2. loop.kept \in Seq(Resources) /\ outcome.resources = loop.kept
      BY <1>1 DEF Aggregated, IInv, TypeOK
    <2> QED
      BY <1>2, <2>1, <2>2, WinnersInOrder
  <1>4. StatusOf(ctxDone, outcome.failed, outcome.unreachable) \in Contract!Promised
    <2>1. Tallied(ScopeCount, collected, outcome.failed, outcome.unreachable)
      BY <1>1, <1>2 DEF Aggregated
    <2>2. outcome.failed = <<>> <=> \A i \in Contract!Scope : ~Contract!HasErrors(i)
      BY <1>2, <2>1, CollectedFacts DEF Tallied
    <2>3. outcome.unreachable = ScopeCount <=> \A i \in Contract!Scope : ~Contract!Answered(i)
      BY <1>2, <2>1, CollectedFacts DEF Tallied
    <2>4. outcome.failed = <<>> => ~ \A i \in Contract!Scope : ~Contract!Answered(i)
      <3>1. 1 \in Contract!Scope
        BY <1>2
      <3> QED
        BY <2>2, <3>1 DEF Contract!HasErrors
    <2>5. CASE ctxDone
      BY <2>5 DEF StatusOf, Contract!Promised, Contract!Status
    <2>6. CASE ~ctxDone /\ outcome.failed = <<>>
      BY <2>2, <2>4, <2>6 DEF StatusOf, Contract!Promised, Contract!Status
    <2>7. CASE ~ctxDone /\ outcome.failed # <<>> /\ outcome.unreachable = ScopeCount
      BY <2>2, <2>3, <2>7 DEF StatusOf, Contract!Promised, Contract!Status
    <2>8. CASE ~ctxDone /\ outcome.failed # <<>> /\ outcome.unreachable # ScopeCount
      BY <2>2, <2>3, <2>8 DEF StatusOf, Contract!Promised, Contract!Status
    <2> QED
      BY <2>5, <2>6, <2>7, <2>8
  <1>5. \A i \in Contract!Scope : answered[i] # <<>>
    BY <1>2, CollectedFacts
  <1>6. Contract!Scope # {}
    BY <1>2
  <1> QED
    BY <1>1, <1>2, <1>3, <1>4, <1>5, <1>6 DEF Contract!Return, Contract!NoOutcome

\* Every step of the executor is a step of the contract or invisible to it.
LEMMA NextContract == IInv /\ Aggregated /\ [Next]_vars => [Contract!Next]_(Contract!vars)
  <1> SUFFICES ASSUME IInv, Aggregated, [Next]_vars PROVE Contract!Next \/ UNCHANGED Contract!vars
    OBVIOUS
  <1>1. CASE Cancel
    BY <1>1, CancelContract DEF Contract!Next
  <1>2. CASE Dispatch
    BY <1>2, ContractStutters DEF Dispatch, Announce, CloseJobs, CloseResults
  <1>3. CASE Reject
    BY <1>3, RejectContract DEF Contract!Next
  <1>4. CASE Decide
    BY <1>4, DecideContract DEF Contract!Next
  <1>5. CASE Start \/ Collect \/ CollectDone \/ Aggregate
    <2>1. UNCHANGED <<plan, scanner, ctxDone, answered>>
      BY <1>5 DEF Start, Collect, CollectDone, Aggregate, Merge, CountScope, AssertMergedTotal,
                  DedupeNext, Deduped
    <2>2. caller.pc # "returned" /\ caller'.pc # "returned"
      BY <1>5 DEF Start, Collect, CollectDone, Aggregate, Merge, CountScope, AssertMergedTotal,
                  DedupeNext, Deduped, IInv, TypeOK
    <2> QED
      BY <2>1, <2>2, ContractStutters
  <1>6. CASE \E w \in DOMAIN worker : Work(w)
    <2>1. PICK w \in DOMAIN worker : Work(w)
      BY <1>6
    <2>2. CASE \E answer \in Answers : BatchScan(w, answer)
      BY <2>2, BatchScanContract DEF Contract!Next
    <2>3. CASE Handoff(w) \/ Report(w) \/ Exit(w)
      BY <2>3, ContractStutters DEF Handoff, Report, Exit
    <2> QED
      BY <2>1, <2>2, <2>3 DEF Work
  <1>7. CASE UNCHANGED vars
    BY <1>7, ContractStutters DEF vars
  <1> QED
    BY <1>1, <1>2, <1>3, <1>4, <1>5, <1>6, <1>7 DEF Next, Call

-----------------------------------------------------------------------------
\* No assertion of collectScopeResults, aggregateScopes or assertMergedTotal
\* fires: every index is in range, every scope is filed, the merged counts add
\* up, removing duplicates adds nothing and every unreachable scope has failed.
THEOREM NoAssertionFires == Spec => []NoPanic
  <1>1. Aggregated => NoPanic
    BY DEF Aggregated, NoPanic
  <1> QED
    BY <1>1, AggregatedInvariance, PTL

\* Execute implements its contract: whatever order the workers finish in, the
\* resources it returns, and the status of a scan that was not cancelled, are
\* those ScanContract computes in one step from the plan and the answers; a
\* cancelled scan is never complete.
THEOREM ContractImplemented == Spec => ImplementsContract
  BY InitContract, NextContract, Invariance, AggregatedInvariance, PTL
     DEF Spec, ImplementsContract, Contract!Spec

=============================================================================
