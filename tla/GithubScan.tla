----------------------------- MODULE GithubScan -----------------------------
(***************************************************************************)
(* The BatchScan of the GitHub provider: the services of a batch, one      *)
(* after the other, over one scan cache; the listing of repositories       *)
(* (GraphQL with REST as its fallback); parallelRepos, which runs a        *)
(* service's calls for each repository under a semaphore; and the          *)
(* transport that retries throttled and failed requests.                   *)
(*                                                                         *)
(* The listings of coverage.go and scanner.go that only page and report    *)
(* their error are one call, "listing", and the three alert endpoints are  *)
(* one call, "alerts".  A call is one request: its pages are not told      *)
(* apart, a failure of any of them ends the call with that failure.        *)
(* Listing the repositories takes one request for each of them, and one    *)
(* when there is none.                                                     *)
(*                                                                         *)
(* GitHub and go-github are external.  GitHub refuses the calls of Refused *)
(* (403, or 404 for a feature that is off; the call "protection" only with *)
(* 403), answers the others, and may throttle or fail any request.  The    *)
(* protection of a repository in Hidden it does not show to the token:     *)
(* GraphQL has no rule for it, and REST answers 404 as for a branch that   *)
(* has none.  go-github gives a throttled answer an error type of its own, *)
(* so it is never taken for a refusal.                                     *)
(***************************************************************************)
EXTENDS Integers, Sequences, FiniteSets, Functions

CONSTANTS
    RepoList,    \* the repositories of the organisation, in listing order
    Batches,     \* the batches that may be asked for: sequences of services
    Enterprise,  \* those asked of a provider that has no GraphQL client
    Protected,   \* repositories whose default branch is protected at first
    Refused,     \* pairs of repository (None: the organisation) and call
    Hidden,      \* repositories whose protection the token does not see
    Branchless,  \* repositories that have no default branch
    Concurrency, \* p.concurrency
    MaxRetries,  \* defaultMaxRetries
    MaxFaults,   \* bound: answers that are throttled or fail
    MaxChanges,  \* bound: changes of the organisation during the scan
    None

Repos == Range(RepoList)

ASSUME GithubAssumption ==
    /\ RepoList \in Seq(Repos) /\ None \notin Repos
    /\ Protected \subseteq Repos /\ Hidden \subseteq Repos /\ Branchless \subseteq Repos
    /\ Batches \subseteq Seq(STRING) \ {<<>>} \* a request for nothing has the default services
    /\ Concurrency \in Nat \ {0} /\ MaxRetries \in Nat
    /\ MaxFaults \in Nat /\ MaxChanges \in Nat

VARIABLES
    batch,    \* the services asked for
    svc,      \* the index of the current one
    phases,   \* what is left of the current service: "list", "org", "fan"
    over,     \* whether the context of the scan is over
    world,    \* how often protection and alerts have changed
    faults,   \* throttled and failed answers so far
    listing,  \* the listing under way: how, how many it has, its attempt
    repos,    \* how many of RepoList listRepos returned to the current service
    worker,   \* per repository, and per None for the main goroutine's calls
    next,     \* the index of the repository parallelRepos is at
    sem,      \* slots taken in the semaphore
    cache,    \* the scan cache: repos, protection and alerts
    response  \* the entries of the response, by service, repository and call

vars == <<batch, svc, phases, over, world, faults, listing, repos, worker, next, sem, cache, response>>

(***************************************************************************)
(* What each service calls.                                                *)
(***************************************************************************)
\* A service: its phases, its calls for the organisation and for a repository.
Steps(order, org, repo) == [phases |-> order, org |-> org, repo |-> repo]

scanOrgs == Steps(<<"org">>, <<"organization", "listing">>, <<>>)

scanRepos == Steps(<<"list", "fan">>, <<>>, <<"protection", "listing">>)

scanSecurity == Steps(<<"list", "fan">>, <<>>, <<"alerts">>)

scanActions == Steps(<<"list", "org", "fan">>, <<"listing">>, <<"listing">>)

scanAccess == Steps(<<"org", "list", "fan">>, <<"listing">>, <<"listing">>)

scanFindings == Steps(<<"list", "fan">>, <<>>, <<"protection", "alerts">>)

\* The switch of ScanService; another service has no steps.
StepsOf(service) ==
    CASE service = "orgs"     -> scanOrgs
      [] service = "repos"    -> scanRepos
      [] service = "security" -> scanSecurity
      [] service = "actions"  -> scanActions
      [] service = "access"   -> scanAccess
      [] service = "findings" -> scanFindings
      [] OTHER -> Steps(<<>>, <<>>, <<>>)

Phases(service) == StepsOf(service).phases

Service == batch[svc]

Entry(service, repo, call, got, at) ==
    [service |-> service, repo |-> repo, call |-> call, got |-> got, at |-> at]

\* Each change of the organisation flips the protection of every repository.
ProtectedAt(r, v) == (r \in Protected) = (v % 2 = 0)

(***************************************************************************)
(* The transport: RoundTrip and classify.                                  *)
(***************************************************************************)
Retried == {"throttled", "server"}

Faulty == Retried \cup {"too long", "broken"}

\* What GitHub may answer a request that a context still allows.
Answers(target, call) ==
    {IF <<target, call>> \in Refused THEN "refused" ELSE "ok"}
    \cup (IF faults < MaxFaults THEN Faulty ELSE {})

\* Bug variant: the last answer passes for what its status code says, 403.
OutcomeByStatus(answer) ==
    CASE answer = "throttled" -> "refused" [] answer \in {"ok", "refused"} -> answer
      [] OTHER -> "failed"

\* How a request ends: only a refusal is a GitHub error response with 403 or
\* 404; what is throttled, waits too long or breaks is another error.
Outcome(answer) == IF answer \in {"ok", "refused"} THEN answer ELSE "failed"

\* Whether the request is sent again; the last attempt is not classified.
Retries(answer, attempt) == answer \in Retried /\ attempt < MaxRetries

CountFault(answer) == faults' = IF answer \in Faulty THEN faults + 1 ELSE faults

(***************************************************************************)
(* The main goroutine: BatchScan, ScanService and listRepos.               *)
(***************************************************************************)
NoListing == [via |-> "none", got |-> 0, attempt |-> 0]

IdleWorker == [state |-> "off", calls |-> <<>>, attempt |-> 0]

NoEntry == [got |-> "none", at |-> 0]

NoBranch == [got |-> "nobranch", at |-> 0]

Init ==
    /\ batch \in Batches /\ svc = 1
    /\ phases = Phases(Service)
    /\ over = FALSE
    /\ world = 0 /\ faults = 0
    /\ listing = NoListing
    /\ repos = 0
    /\ worker = [r \in Repos \cup {None} |-> IdleWorker]
    /\ next = 1 /\ sem = 0
    /\ cache = [listed |-> FALSE, protection |-> [r \in Repos |-> NoEntry],
                alerts |-> [r \in Repos |-> NoEntry]]
    /\ response = {}

Returned == svc > Len(batch)

\* The current service is through: the next one begins.  A service that is
\* not supported adds its error.
NextService ==
    /\ ~ Returned /\ phases = <<>>
    /\ svc' = svc + 1
    /\ phases' = IF svc < Len(batch) THEN Phases(batch[svc + 1]) ELSE <<>>
    /\ repos' = 0
    /\ response' = response \cup
                   (IF Phases(Service) = <<>> THEN {Entry(Service, None, "service", "error", 0)}
                    ELSE {})
    /\ UNCHANGED <<batch, over, world, faults, listing, worker, next, sem, cache>>

Phase(p) == phases # <<>> /\ Head(phases) = p

\* listReposREST starts from nothing.
Fallback == [NoListing EXCEPT !.via = "rest"]

\* listRepos: a listing of this scan that had no error is used again.
ListRepos ==
    /\ Phase("list") /\ listing.via = "none"
    /\ IF cache.listed
       THEN /\ repos' = Len(RepoList)
            /\ phases' = Tail(phases)
            /\ UNCHANGED listing
       ELSE /\ listing' = IF batch \in Enterprise THEN Fallback
                         ELSE [NoListing EXCEPT !.via = "graphql"]
            /\ UNCHANGED <<repos, phases>>
    /\ UNCHANGED <<batch, svc, over, world, faults, worker, next, sem, cache, response>>

\* Bug variant: the error of a truncated listing is only logged.
EndListingQuietly(got, clean) ==
    /\ repos' = got
    /\ cache' = [cache EXCEPT !.listed = clean]
    /\ listing' = NoListing
    /\ phases' = Tail(phases)
    /\ UNCHANGED response

\* The listing ends with what it has: a clean one is cached for the scan.
EndListing(got, clean) ==
    /\ repos' = got
    /\ cache' = [cache EXCEPT !.listed = clean]
    /\ listing' = NoListing
    /\ phases' = Tail(phases)
    /\ response' = IF clean THEN response
                   ELSE response \cup {Entry(Service, None, "repositories", "error", 0)}

\* cacheBranchProtectionFromGraphQL: a branch without a rule that the token can
\* see is unprotected.
GraphQLProtection(r) ==
    IF r \in Branchless THEN NoBranch
    ELSE [got |-> IF ProtectedAt(r, world) /\ r \notin Hidden THEN "protected" ELSE "unprotected",
          at |-> world]

\* The cached protection after a page.
WithPage(page) ==
    [r \in Repos |-> IF r \in page THEN GraphQLProtection(r) ELSE cache.protection[r]]

\* One page of listReposGraphQL or listReposREST, through the transport.
ListPage ==
    /\ Phase("list") /\ listing.via # "none" /\ ~ over
    /\ \E answer \in Answers(None, "repositories") :
          /\ CountFault(answer)
          /\ LET got == IF listing.got < Len(RepoList) THEN listing.got + 1 ELSE listing.got
                 page == {RepoList[k] : k \in listing.got + 1 .. got}
                 last == got = Len(RepoList)
             IN  \/ /\ Retries(answer, listing.attempt)
                    /\ listing' = [listing EXCEPT !.attempt = @ + 1]
                    /\ UNCHANGED <<repos, cache, phases, response>>
                 \/ /\ answer = "ok" /\ listing.via = "graphql"
                    /\ repos' = IF last THEN got ELSE repos
                    /\ listing' = IF last THEN NoListing
                                  ELSE [listing EXCEPT !.got = got, !.attempt = 0]
                    /\ cache' = [cache EXCEPT !.listed = last,
                                              !.protection = WithPage(page)]
                    /\ phases' = IF last THEN Tail(phases) ELSE phases
                    /\ UNCHANGED response
                 \/ /\ answer = "ok" /\ listing.via = "rest" /\ last
                    /\ EndListing(got, TRUE)
                 \/ /\ answer = "ok" /\ listing.via = "rest" /\ ~ last
                    /\ listing' = [listing EXCEPT !.got = got, !.attempt = 0]
                    /\ UNCHANGED <<repos, cache, phases, response>>
                 \/ /\ answer # "ok" /\ ~ Retries(answer, listing.attempt)
                    /\ IF listing.via = "graphql"
                       THEN listing' = Fallback /\ UNCHANGED <<repos, cache, phases, response>>
                       ELSE EndListing(listing.got, FALSE)
    /\ UNCHANGED <<batch, svc, over, world, worker, next, sem>>

\* A listing whose context is over fails: GraphQL, then REST.
ListPageOver ==
    /\ Phase("list") /\ listing.via # "none" /\ over
    /\ EndListing(IF listing.via = "rest" THEN listing.got ELSE 0, FALSE)
    /\ UNCHANGED <<batch, svc, over, world, faults, worker, next, sem>>

\* The calls about the organisation, on the main goroutine.
StartOrgCalls ==
    /\ Phase("org") /\ worker[None].state = "off"
    /\ worker' = [worker EXCEPT ![None] = [IdleWorker EXCEPT !.state = "run",
                                                             !.calls = StepsOf(Service).org]]
    /\ UNCHANGED <<batch, svc, phases, over, world, faults, listing, repos, next, sem, cache, response>>

EndOrgCalls ==
    /\ Phase("org") /\ worker[None].state = "run" /\ worker[None].calls = <<>>
    /\ worker' = [worker EXCEPT ![None] = IdleWorker]
    /\ phases' = Tail(phases)
    /\ UNCHANGED <<batch, svc, over, world, faults, listing, repos, next, sem, cache, response>>

(***************************************************************************)
(* parallelRepos.                                                          *)
(***************************************************************************)
\* Bug variant: the bare break only leaves the select, and the goroutine is
\* started without a slot.
AcquiredOrOver == sem < Concurrency \/ over

SlotFree == sem < Concurrency

\* The loop acquires a slot and starts the goroutine of the next repository.
StartRepo ==
    /\ Phase("fan") /\ next <= repos
    /\ SlotFree
    /\ sem' = IF sem < Concurrency THEN sem + 1 ELSE sem
    /\ worker' = [worker EXCEPT ![RepoList[next]] = [IdleWorker EXCEPT !.state = "run",
                                                       !.calls = StepsOf(Service).repo]]
    /\ next' = next + 1
    /\ UNCHANGED <<batch, svc, phases, over, world, faults, listing, repos, cache, response>>

\* ctx.Err() != nil, or <-ctx.Done() in the select: the rest is left out.
BreakRepoLoop ==
    /\ Phase("fan") /\ next <= repos /\ over
    /\ next' = repos + 1
    /\ UNCHANGED <<batch, svc, phases, over, world, faults, listing, repos, worker, sem, cache, response>>

\* wg.Wait() and the return.
WaitRepos ==
    /\ Phase("fan") /\ next > repos
    /\ \A r \in Repos : worker[r].state = "off"
    /\ next' = 1
    /\ phases' = Tail(phases)
    /\ UNCHANGED <<batch, svc, over, world, faults, listing, repos, worker, sem, cache, response>>

\* The deferred release, then wg.Done().
EndRepo(r) ==
    /\ r # None /\ worker[r].state = "run" /\ worker[r].calls = <<>>
    /\ sem > 0
    /\ sem' = sem - 1
    /\ worker' = [worker EXCEPT ![r] = IdleWorker]
    /\ UNCHANGED <<batch, svc, phases, over, world, faults, listing, repos, next, cache, response>>

(***************************************************************************)
(* The calls.  What a goroutine collects is private until parallelRepos    *)
(* returns, so it is put into the response at once.                        *)
(***************************************************************************)

\* appendAPIError: a 403 or 404 is a notice, any other failure an error.
APIError(outcome) == IF outcome = "refused" THEN "notice" ELSE "error"

\* A listing reads its pages until the last one or a failure.
GotListing(outcome) == IF outcome = "ok" THEN "listed" ELSE APIError(outcome)

\* Organizations.Get reports every failure as it is.
GotOrganization(outcome) == IF outcome = "ok" THEN "listed" ELSE "error"

\* Bug variant: a protection that cannot be read counts as none.
NoProtection(r, outcome) ==
    IF outcome = "ok" /\ ProtectedAt(r, world) THEN "protected" ELSE "unprotected"

\* The request of checkBranchProtection: every 404 makes a branch unprotected,
\* the one that hides a protection too; any other failure leaves it unknown.
GotProtection(r, outcome) ==
    CASE outcome = "ok" /\ ProtectedAt(r, world) /\ r \notin Hidden -> "protected"
      [] outcome = "ok" /\ (~ ProtectedAt(r, world) \/ r \in Hidden) -> "unprotected"
      [] OTHER -> APIError(outcome)

Got(r, call, outcome) ==
    CASE call = "protection" -> GotProtection(r, outcome)
      [] call = "organization" -> GotOrganization(outcome)
      [] OTHER -> GotListing(outcome)

\* When a call has read what the batch may read twice (0 for anything else).
ReadAt(call, got) ==
    IF call \in {"protection", "alerts"} /\ got \notin {"notice", "error"} THEN world ELSE 0

\* Bug variant: nothing of the calls is cached.
NeverCached(r, call, got) == cache

\* Known protection is cached, and alerts that ended without an error.
Cached(r, call, got) ==
    CASE call = "protection" /\ got \in {"protected", "unprotected"} ->
            [cache EXCEPT !.protection[r] = [got |-> got, at |-> world]]
      [] call = "alerts" /\ got # "error" ->
            [cache EXCEPT !.alerts[r] = [got |-> got, at |-> ReadAt(call, got)]]
      [] OTHER -> cache

\* What checkBranchProtection knows without a request, where scan cache c has it.
KnownProtection(c, r) == IF r \in Branchless THEN NoBranch ELSE c.protection[r]

\* The answer to a call that needs no request, if there is one.
Hit(r, call) ==
    CASE r = None -> NoEntry
      [] call = "protection" -> KnownProtection(cache, r)
      [] call = "alerts" -> cache.alerts[r]
      [] OTHER -> NoEntry

EndCall(r, got, at) ==
    LET call == Head(worker[r].calls)
    IN  /\ response' = response \cup {Entry(Service, r, call, got, at)}
        /\ worker' = [worker EXCEPT ![r].calls = Tail(@), ![r].attempt = 0]

Calling(r) == worker[r].state = "run" /\ worker[r].calls # <<>>

CallFromCache(r) ==
    /\ Calling(r)
    /\ LET hit == Hit(r, Head(worker[r].calls))
       IN  hit # NoEntry /\ EndCall(r, hit.got, hit.at)
    /\ UNCHANGED <<batch, svc, phases, over, world, faults, listing, repos, next, sem, cache>>

\* One attempt of RoundTrip, and the end of the call when it is the last.
Attempt(r) ==
    /\ Calling(r) /\ ~ over
    /\ LET call == Head(worker[r].calls)
       IN  /\ Hit(r, call) = NoEntry
           /\ \E answer \in Answers(r, call) :
                 /\ CountFault(answer)
                 /\ IF Retries(answer, worker[r].attempt)
                    THEN /\ worker' = [worker EXCEPT ![r].attempt = @ + 1]
                         /\ UNCHANGED <<cache, response>>
                    ELSE LET got == Got(r, call, Outcome(answer))
                         IN  EndCall(r, got, ReadAt(call, got)) /\ cache' = Cached(r, call, got)
    /\ UNCHANGED <<batch, svc, phases, over, world, listing, repos, next, sem>>

\* A request, or the sleep before it, whose context is over.
AttemptOver(r) ==
    /\ Calling(r) /\ over
    /\ Hit(r, Head(worker[r].calls)) = NoEntry
    /\ EndCall(r, "error", 0)
    /\ UNCHANGED <<batch, svc, phases, over, world, faults, listing, repos, next, sem, cache>>

(***************************************************************************)
(* The environment.                                                        *)
(***************************************************************************)
\* The deadline of the scope passes, or the host cancels.
ContextOver ==
    /\ ~ Returned /\ ~ over
    /\ over' = TRUE
    /\ UNCHANGED <<batch, svc, phases, world, faults, listing, repos, worker, next, sem, cache, response>>

OrganisationChanges ==
    /\ ~ Returned /\ world < MaxChanges
    /\ world' = world + 1
    /\ UNCHANGED <<batch, svc, phases, over, faults, listing, repos, worker, next, sem, cache, response>>

Main ==
    \/ NextService \/ ListRepos \/ ListPage \/ ListPageOver \/ StartOrgCalls \/ EndOrgCalls
    \/ StartRepo \/ BreakRepoLoop \/ WaitRepos

Worker(r) == CallFromCache(r) \/ Attempt(r) \/ AttemptOver(r) \/ EndRepo(r)

Next == Main \/ (\E r \in Repos \cup {None} : Worker(r)) \/ ContextOver \/ OrganisationChanges

Spec ==
    /\ Init /\ [][Next]_vars
    /\ WF_vars(Main) /\ \A r \in Repos \cup {None} : WF_vars(Worker(r))

(***************************************************************************)
(* Properties.                                                             *)
(***************************************************************************)
HasErrors == \E e \in response : e.got = "error"

Asked(service) ==
    IF Phases(service) = <<>> THEN {<<None, "service">>}
    ELSE ({None} \X Range(StepsOf(service).org)) \cup (Repos \X Range(StepsOf(service).repo))

\* A batch that reports no error has read every repository: each call of each
\* service is answered in full, or the answer is the notice of a real refusal
\* (ADR 0023).  A truncated listing, a fallback, a cached list or a throttled
\* call never passes for a complete scan, as long as the context lasts.
CleanBatchIsComplete ==
    Returned /\ ~ over /\ ~ HasErrors =>
        \A s \in Range(batch) : \A call \in Asked(s) :
            \E e \in response : /\ <<e.service, e.repo, e.call>> = <<s, call[1], call[2]>>
                                /\ e.got = "notice" => call \in Refused

\* The services of a batch tell one story: the protection and the alerts of a
\* repository are the same wherever the batch reports them, also when they
\* change on the way.  Only protection may be told anew, by the listing that
\* repeats one whose error is in the response.
OneStory ==
    LET relisted == \E e \in response : e.call = "repositories"
        shared == {"alerts"} \cup (IF relisted THEN {} ELSE {"protection"})
    IN  \A e, f \in response :
            e.repo = f.repo /\ e.call = f.call /\ e.call \in shared
            /\ {e.got, f.got} \cap {"notice", "error"} = {} => e.got = f.got /\ e.at = f.at

\* A notice is written for what GitHub refuses and never for a call that was
\* throttled to its last attempt: that is an error, and the scan is partial.
NoticesAreRefusals == \A e \in response : e.got = "notice" => <<e.repo, e.call>> \in Refused

\* A repository is called unprotected only when it has a default branch and was
\* unprotected at some time of the scan, or GitHub hides its protection from the
\* token.  A refusal, a throttled or failed call, the end of the context and an
\* entry of the cache never make a finding of a protection that was not read.
FindingsAreTrue ==
    \A e \in response : e.got = "unprotected" =>
        /\ e.repo \notin Branchless
        /\ e.repo \in Hidden \/ \E v \in 0..world : ~ ProtectedAt(e.repo, v)

\* The batch ends, whatever fails and whenever the context is over.
BatchReturns == <>Returned
=============================================================================
