-------------------------- MODULE GithubScanProofs --------------------------
(***************************************************************************)
(* Proofs about the BatchScan of the GitHub provider, for any organisation *)
(* and batch, any refusals, any size of the semaphore and any number of    *)
(* retries, faults and changes.                                            *)
(*                                                                         *)
(* The invariant has five parts: the types; where the goroutines, the      *)
(* listing and the loop over the repositories may be (Placed); that what   *)
(* the response and the cache say is true (Truth); that the cache has what *)
(* the response says (Story); and, as long as nothing has failed, that     *)
(* every call of the services so far is answered or still to be made       *)
(* (Covered).                                                              *)
(***************************************************************************)
EXTENDS GithubScan, SequenceTheorems, TLAPS

OrgCalls == {"organization", "listing"}

RepoCalls == {"protection", "listing", "alerts"}

Gots == {"protected", "unprotected", "nobranch", "listed", "notice", "error"}

PhaseLists ==
    {<<>>, <<"org">>, <<"fan">>, <<"list", "fan">>, <<"org", "fan">>,
     <<"list", "org", "fan">>, <<"org", "list", "fan">>}

ListingState == [via : {"none", "graphql", "rest"}, got : 0 .. Len(RepoList), attempt : Nat]

WorkerState == [state : {"off", "run"}, calls : Seq(OrgCalls \cup RepoCalls), attempt : Nat]

Known == [got : Gots, at : Nat] \cup {NoEntry}

CacheState == [listed : BOOLEAN, protection : [Repos -> Known], alerts : [Repos -> Known]]

Entries ==
    [service : STRING, repo : Repos \cup {None},
     call : OrgCalls \cup RepoCalls \cup {"service", "repositories"}, got : Gots, at : Nat]

TypeOK ==
    /\ batch \in Batches /\ svc \in 1 .. Len(batch) + 1
    /\ phases \in PhaseLists /\ over \in BOOLEAN
    /\ world \in Nat /\ faults \in Nat
    /\ listing \in ListingState /\ repos \in 0 .. Len(RepoList)
    /\ worker \in [Repos \cup {None} -> WorkerState]
    /\ next \in Nat \ {0} /\ sem \in Nat
    /\ cache \in CacheState /\ response \subseteq Entries

Left == Range(phases)

\* The main goroutine's calls, the goroutines of parallelRepos, its loop and
\* the listing belong to the current phase.
Placed ==
    /\ Returned => phases = <<>>
    /\ worker[None].state = "run" => Phase("org")
    /\ worker[None].calls \in Seq(OrgCalls)
    /\ \A r \in Repos : /\ worker[r].state = "run" => Phase("fan")
                        /\ worker[r].calls \in Seq(RepoCalls)
    /\ next # 1 => Phase("fan")
    /\ listing.via # "none" => Phase("list") /\ ~ cache.listed

\* A notice has a refusal behind it, and a repository called unprotected has a
\* branch and was so when it was read, unless its protection is hidden from the
\* token.  k is an entry of the response or of the cache.
TrueOf(r, call, k, w) ==
    /\ k.got = "notice" => <<r, call>> \in Refused
    /\ k.got = "unprotected" => /\ r \notin Branchless
                                /\ r \in Hidden \/ (k.at \in 0 .. w /\ ~ ProtectedAt(r, k.at))

Truth(c, resp, w) ==
    /\ \A e \in resp : TrueOf(e.repo, e.call, e, w)
    /\ \A r \in Repos : /\ TrueOf(r, "protection", c.protection[r], w)
                        /\ TrueOf(r, "alerts", c.alerts[r], w)

Told(e) == e.got \notin {"notice", "error"}

Relisted(resp) == \E e \in resp : e.call = "repositories"

\* What the response tells about alerts is what the cache keeps, and so for
\* protection until a listing has failed.  Protection is told only after a
\* listing that was cached or has failed.
Story(c, resp) ==
    /\ \A e \in resp : e.call = "alerts" /\ Told(e) =>
          e.repo \in Repos /\ c.alerts[e.repo] = [got |-> e.got, at |-> e.at]
    /\ ~ Relisted(resp) => \A e \in resp : e.call = "protection" /\ Told(e) =>
          e.repo \in Repos /\ KnownProtection(c, e.repo) = [got |-> e.got, at |-> e.at]
    /\ c.listed \/ Relisted(resp) \/ \A e \in resp : e.call # "protection"

Listed == "fan" \in Left /\ "list" \notin Left => cache.listed \/ Relisted(response)

Clean(resp) == ~ over /\ \A e \in resp : e.got # "error"

Answered(resp, s, r, call) == \E e \in resp : e.service = s /\ e.repo = r /\ e.call = call

\* The calls that the goroutine of r has still to make.
Pending(r) == IF worker[r].state = "run" THEN Range(worker[r].calls) ELSE {}

PastCovered ==
    \A i \in 1 .. svc - 1 : \A call \in Asked(batch[i]) :
        Answered(response, batch[i], call[1], call[2])

\* As long as nothing has failed: the services that are through are answered,
\* and so are the phases of the current one that are.
CurrentCovered ==
    /\ "org" \notin Left => \A call \in Range(StepsOf(Service).org) :
          Answered(response, Service, None, call)
    /\ worker[None].state = "run" => \A call \in Range(StepsOf(Service).org) :
          Answered(response, Service, None, call) \/ call \in Pending(None)
    /\ "fan" \in Left /\ "list" \notin Left => repos = Len(RepoList)
    /\ "fan" \notin Left => \A r \in Repos, call \in Range(StepsOf(Service).repo) :
          Answered(response, Service, r, call)
    /\ Phase("fan") => \A k \in 1 .. Len(RepoList), call \in Range(StepsOf(Service).repo) :
          k < next => \/ Answered(response, Service, RepoList[k], call)
                      \/ call \in Pending(RepoList[k])

Covered == Clean(response) => PastCovered /\ (~ Returned => CurrentCovered)

IInv ==
    /\ TypeOK
    /\ Placed
    /\ Truth(cache, response, world)
    /\ Story(cache, response) /\ Listed
    /\ Covered

(***************************************************************************)
(* Phases and calls.                                                       *)
(***************************************************************************)

\* The values of short sequences.
LEMMA ShortRanges ==
    ASSUME NEW a, NEW b, NEW c
    PROVE  /\ Range(<<>>) = {} /\ Range(<<a>>) = {a}
           /\ Range(<<a, b>>) = {a, b} /\ Range(<<a, b, c>>) = {a, b, c}
BY DEF Range

\* The same for pairs.
LEMMA PairRange ==
    ASSUME NEW a, NEW b
    PROVE  Range(<<a, b>>) = {a, b}
BY DEF Range

\* The same for triples.
LEMMA TripleRange ==
    ASSUME NEW a, NEW b, NEW c
    PROVE  Range(<<a, b, c>>) = {a, b, c}
BY DEF Range

\* The end of a phase removes it from what is left of the service, and the
\* repositories are the last phase of a service that has them.
LEMMA PhaseTail ==
    ASSUME NEW p \in PhaseLists, p # <<>>
    PROVE  /\ Tail(p) \in PhaseLists
           /\ Range(Tail(p)) = Range(p) \ {Head(p)}
           /\ Head(p) \in Range(p)
           /\ Head(p) = "fan" => Tail(p) = <<>> /\ "list" \notin Range(p)
<1>1. CASE p = <<"org">>
    <2>1. Head(p) = "org" /\ Tail(p) = <<>>
        BY <1>1
    <2>2. Range(p) = {"org"} /\ Range(Tail(p)) = {}
        BY <1>1, <2>1, ShortRanges, Zenon
    <2>3. Tail(p) \in PhaseLists
        BY <2>1, Zenon DEF PhaseLists
    <2> QED
        BY <2>1, <2>2, <2>3
<1>2. CASE p = <<"fan">>
    <2>1. Head(p) = "fan" /\ Tail(p) = <<>>
        BY <1>2
    <2>2. Range(p) = {"fan"} /\ Range(Tail(p)) = {}
        BY <1>2, <2>1, ShortRanges, Zenon
    <2>3. Tail(p) \in PhaseLists
        BY <2>1, Zenon DEF PhaseLists
    <2> QED
        BY <2>1, <2>2, <2>3
<1>3. CASE p = <<"list", "fan">>
    <2>1. Head(p) = "list" /\ Tail(p) = <<"fan">>
        BY <1>3
    <2>2. Range(p) = {"list", "fan"} /\ Range(Tail(p)) = {"fan"}
        BY <1>3, <2>1, ShortRanges, Zenon
    <2>3. Tail(p) \in PhaseLists
        BY <2>1, Zenon DEF PhaseLists
    <2> QED
        BY <2>1, <2>2, <2>3
<1>4. CASE p = <<"org", "fan">>
    <2>1. Head(p) = "org" /\ Tail(p) = <<"fan">>
        BY <1>4
    <2>2. Range(p) = {"org", "fan"} /\ Range(Tail(p)) = {"fan"}
        BY <1>4, <2>1, ShortRanges, Zenon
    <2>3. Tail(p) \in PhaseLists
        BY <2>1, Zenon DEF PhaseLists
    <2> QED
        BY <2>1, <2>2, <2>3
<1>5. CASE p = <<"list", "org", "fan">>
    <2>1. Head(p) = "list" /\ Tail(p) = <<"org", "fan">>
        BY <1>5
    <2>2. Range(p) = {"list", "org", "fan"} /\ Range(Tail(p)) = {"org", "fan"}
        <3>1. Range(p) = {"list", "org", "fan"}
            BY <1>5, TripleRange, Zenon
        <3>2. Range(Tail(p)) = {"org", "fan"}
            BY <2>1, PairRange, Zenon
        <3> QED
            BY <3>1, <3>2
    <2>3. Tail(p) \in PhaseLists
        BY <2>1, Zenon DEF PhaseLists
    <2> QED
        BY <2>1, <2>2, <2>3
<1>6. CASE p = <<"org", "list", "fan">>
    <2>1. Head(p) = "org" /\ Tail(p) = <<"list", "fan">>
        BY <1>6
    <2>2. Range(p) = {"org", "list", "fan"} /\ Range(Tail(p)) = {"list", "fan"}
        <3>1. Range(p) = {"org", "list", "fan"}
            BY <1>6, TripleRange, Zenon
        <3>2. Range(Tail(p)) = {"list", "fan"}
            BY <2>1, PairRange, Zenon
        <3> QED
            BY <3>1, <3>2
    <2>3. Tail(p) \in PhaseLists
        BY <2>1, Zenon DEF PhaseLists
    <2> QED
        BY <2>1, <2>2, <2>3
<1> QED
    BY <1>1, <1>2, <1>3, <1>4, <1>5, <1>6 DEF PhaseLists

\* Every service has calls only for the phases it has, and lists the
\* repositories before it visits them.
LEMMA StepsFacts ==
    ASSUME NEW s
    PROVE  /\ Phases(s) \in PhaseLists
           /\ StepsOf(s).org \in Seq(OrgCalls)
           /\ StepsOf(s).repo \in Seq(RepoCalls)
           /\ "org" \notin Range(Phases(s)) => StepsOf(s).org = <<>>
           /\ "fan" \notin Range(Phases(s)) => StepsOf(s).repo = <<>>
           /\ "fan" \in Range(Phases(s)) => "list" \in Range(Phases(s))
<1> DEFINE q == StepsOf(s)
           Fine(x) == /\ x.phases \in PhaseLists
                      /\ x.org \in Seq(OrgCalls) /\ x.repo \in Seq(RepoCalls)
                      /\ "org" \notin Range(x.phases) => x.org = <<>>
                      /\ "fan" \notin Range(x.phases) => x.repo = <<>>
                      /\ "fan" \in Range(x.phases) => "list" \in Range(x.phases)
<1>1. q \in {scanOrgs, scanRepos, scanSecurity, scanActions, scanAccess, scanFindings,
             Steps(<<>>, <<>>, <<>>)}
    BY DEF StepsOf
<1>2. Fine(scanOrgs)
    <2>1. scanOrgs = [phases |-> <<"org">>, org |-> <<"organization", "listing">>, repo |-> <<>>]
        BY Zenon DEF scanOrgs, Steps
    <2>2. <<"org">> \in PhaseLists /\ Range(<<"org">>) = {"org"}
        BY ShortRanges, Zenon DEF PhaseLists
    <2>3. <<"organization", "listing">> \in Seq(OrgCalls) /\ <<>> \in Seq(RepoCalls)
        BY DEF OrgCalls, RepoCalls
    <2> QED
        BY <2>1, <2>2, <2>3
<1>3. Fine(scanRepos)
    <2>1. scanRepos = [phases |-> <<"list", "fan">>, org |-> <<>>, repo |-> <<"protection", "listing">>]
        BY Zenon DEF scanRepos, Steps
    <2>2. <<"list", "fan">> \in PhaseLists /\ Range(<<"list", "fan">>) = {"list", "fan"}
        BY ShortRanges, Zenon DEF PhaseLists
    <2>3. <<>> \in Seq(OrgCalls) /\ <<"protection", "listing">> \in Seq(RepoCalls)
        BY DEF OrgCalls, RepoCalls
    <2> QED
        BY <2>1, <2>2, <2>3
<1>4. Fine(scanSecurity)
    <2>1. scanSecurity = [phases |-> <<"list", "fan">>, org |-> <<>>, repo |-> <<"alerts">>]
        BY Zenon DEF scanSecurity, Steps
    <2>2. <<"list", "fan">> \in PhaseLists /\ Range(<<"list", "fan">>) = {"list", "fan"}
        BY ShortRanges, Zenon DEF PhaseLists
    <2>3. <<>> \in Seq(OrgCalls) /\ <<"alerts">> \in Seq(RepoCalls)
        BY DEF OrgCalls, RepoCalls
    <2> QED
        BY <2>1, <2>2, <2>3
<1>5. Fine(scanActions)
    <2>1. scanActions = [phases |-> <<"list", "org", "fan">>, org |-> <<"listing">>, repo |-> <<"listing">>]
        BY Zenon DEF scanActions, Steps
    <2>2. <<"list", "org", "fan">> \in PhaseLists /\ Range(<<"list", "org", "fan">>) = {"list", "org", "fan"}
        BY TripleRange, Zenon DEF PhaseLists
    <2>3. <<"listing">> \in Seq(OrgCalls) /\ <<"listing">> \in Seq(RepoCalls)
        BY DEF OrgCalls, RepoCalls
    <2> QED
        BY <2>1, <2>2, <2>3
<1>6. Fine(scanAccess)
    <2>1. scanAccess = [phases |-> <<"org", "list", "fan">>, org |-> <<"listing">>, repo |-> <<"listing">>]
        BY Zenon DEF scanAccess, Steps
    <2>2. <<"org", "list", "fan">> \in PhaseLists /\ Range(<<"org", "list", "fan">>) = {"org", "list", "fan"}
        BY TripleRange, Zenon DEF PhaseLists
    <2>3. <<"listing">> \in Seq(OrgCalls) /\ <<"listing">> \in Seq(RepoCalls)
        BY DEF OrgCalls, RepoCalls
    <2> QED
        BY <2>1, <2>2, <2>3
<1>7. Fine(scanFindings)
    <2>1. scanFindings = [phases |-> <<"list", "fan">>, org |-> <<>>, repo |-> <<"protection", "alerts">>]
        BY Zenon DEF scanFindings, Steps
    <2>2. <<"list", "fan">> \in PhaseLists /\ Range(<<"list", "fan">>) = {"list", "fan"}
        BY ShortRanges, Zenon DEF PhaseLists
    <2>3. <<>> \in Seq(OrgCalls) /\ <<"protection", "alerts">> \in Seq(RepoCalls)
        BY DEF OrgCalls, RepoCalls
    <2> QED
        BY <2>1, <2>2, <2>3
<1>8. Fine(Steps(<<>>, <<>>, <<>>))
    <2>1. Steps(<<>>, <<>>, <<>>) = [phases |-> <<>>, org |-> <<>>, repo |-> <<>>]
        BY Zenon DEF Steps
    <2>2. <<>> \in PhaseLists /\ Range(<<>>) = {}
        BY ShortRanges, Zenon DEF PhaseLists
    <2>3. <<>> \in Seq(OrgCalls) /\ <<>> \in Seq(RepoCalls)
        BY DEF OrgCalls, RepoCalls
    <2> DEFINE x == Steps(<<>>, <<>>, <<>>)
    <2>4. x.phases = <<>> /\ x.org = <<>> /\ x.repo = <<>>
        BY <2>1
    <2>5. Range(x.phases) = {}
        BY <2>2, <2>4, Zenon
    <2> HIDE DEF x
    <2>6. x.phases \in PhaseLists /\ x.org \in Seq(OrgCalls) /\ x.repo \in Seq(RepoCalls)
        BY <2>2, <2>3, <2>4, Zenon
    <2>7. Fine(x)
        BY <2>4, <2>5, <2>6, Zenon
    <2> QED
        BY <2>7 DEF x
<1> HIDE DEF Fine, q
<1>9. Fine(q)
    BY <1>1, <1>2, <1>3, <1>4, <1>5, <1>6, <1>7, <1>8
<1> QED
    BY <1>9 DEF Fine, q, Phases

\* A call that ends leaves the ones after it.
LEMMA CallsTail ==
    ASSUME NEW S, NEW q \in Seq(S), q # <<>>
    PROVE  /\ Head(q) \in S /\ Tail(q) \in Seq(S)
           /\ Range(q) = Range(Tail(q)) \cup {Head(q)}
<1>1. Len(q) \in Nat \ {0} /\ DOMAIN q = 1 .. Len(q)
    BY EmptySeq, LenProperties
<1>2. Tail(q) \in Seq(S) /\ Len(Tail(q)) = Len(q) - 1 /\ Head(q) = q[1]
      /\ \A k \in 1 .. Len(q) - 1 : Tail(q)[k] = q[k + 1]
    BY <1>1
<1>3. Head(q) \in S
    BY <1>1, <1>2
<1>4. ASSUME NEW x \in Range(q) PROVE x \in Range(Tail(q)) \cup {Head(q)}
    <2>1. PICK k \in 1 .. Len(q) : q[k] = x
        BY <1>1 DEF Range
    <2>2. CASE k = 1
        BY <1>2, <2>1, <2>2
    <2>3. CASE k # 1
        <3>1. k - 1 \in 1 .. Len(Tail(q)) /\ Tail(q)[k - 1] = x
            BY <1>1, <1>2, <2>1, <2>3
        <3>2. k - 1 \in DOMAIN Tail(q)
            BY <1>2, <3>1, LenProperties
        <3> QED
            BY <3>1, <3>2 DEF Range
    <2> QED
        BY <2>2, <2>3
<1>5. ASSUME NEW x \in Range(Tail(q)) PROVE x \in Range(q)
    <2>1. PICK k \in 1 .. Len(q) - 1 : Tail(q)[k] = x
        BY <1>2, LenProperties DEF Range
    <2>2. k + 1 \in DOMAIN q /\ q[k + 1] = x
        BY <1>1, <1>2, <2>1
    <2> QED
        BY <2>2 DEF Range
<1>6. Head(q) \in Range(q)
    BY <1>1, <1>2 DEF Range
<1> QED
    BY <1>2, <1>3, <1>4, <1>5, <1>6

(***************************************************************************)
(* What the parts of the invariant have in common.                         *)
(***************************************************************************)

\* The phase at hand, and what is left after it.
LEMMA PhaseFacts ==
    ASSUME TypeOK, Placed, NEW p, Phase(p)
    PROVE  /\ ~ Returned /\ p \in Left
           /\ Tail(phases) \in PhaseLists /\ Range(Tail(phases)) = Left \ {p}
           /\ p = "fan" => "list" \notin Left /\ Tail(phases) = <<>>
<1>1. phases \in PhaseLists /\ phases # <<>> /\ Head(phases) = p
    BY DEF TypeOK, Phase
<1> QED
    BY <1>1, PhaseTail DEF Left, Placed

\* What is answered stays answered.
LEMMA AnsweredGrows ==
    ASSUME NEW resp, NEW more, resp \subseteq more, NEW s, NEW r, NEW call,
           Answered(resp, s, r, call)
    PROVE  Answered(more, s, r, call)
BY DEF Answered

\* A failure is never forgotten, and the services that are through stay so.
LEMMA PastKept ==
    ASSUME response \subseteq response', batch' = batch, svc' = svc, over => over'
    PROVE  /\ Clean(response)' => Clean(response)
           /\ PastCovered => PastCovered'
<1>1. Clean(response)' => Clean(response)
    BY DEF Clean
<1>2. ASSUME PastCovered PROVE PastCovered'
    BY <1>2, AnsweredGrows DEF PastCovered
<1> QED
    BY <1>1, <1>2

\* Nothing is left to show of a scan that has failed or is over.
LEMMA NotClean ==
    ASSUME over' \/ \E e \in response' : e.got = "error"
    PROVE  Covered'
BY DEF Covered, Clean

\* Time only widens what was true.
LEMMA TruthLater ==
    ASSUME NEW c, NEW resp, NEW w \in Nat, NEW v \in Nat, v >= w, Truth(c, resp, w)
    PROVE  Truth(c, resp, v)
BY DEF Truth, TrueOf

\* A true entry keeps the response true.
LEMMA TruthAdd ==
    ASSUME NEW c, NEW resp, NEW w, NEW x, Truth(c, resp, w), TrueOf(x.repo, x.call, x, w)
    PROVE  Truth(c, resp \cup {x}, w)
BY DEF Truth

\* An entry that tells nothing of protection and alerts keeps the story.
LEMMA StoryAdd ==
    ASSUME NEW c, NEW resp, NEW x, Story(c, resp),
           x.call \notin {"alerts", "protection"} \/ ~ Told(x),
           x.call = "protection" => c.listed \/ Relisted(resp)
    PROVE  Story(c, resp \cup {x})
<1>1. Relisted(resp) => Relisted(resp \cup {x})
    BY DEF Relisted
<1> QED
    BY <1>1 DEF Story

(***************************************************************************)
(* The environment and the loop of parallelRepos.                          *)
(***************************************************************************)

\* Once the context is over, nothing is promised of completeness.
LEMMA ContextOverInv ==
    ASSUME IInv, ContextOver
    PROVE  IInv'
<1>1. over' /\ UNCHANGED <<batch, svc, phases, world, faults, listing, repos, worker, next, sem,
                           cache, response>>
    BY DEF ContextOver
<1>2. TypeOK'
    BY <1>1 DEF IInv, TypeOK, ContextOver
<1>3. Placed'
    BY <1>1 DEF IInv, Placed, Returned, Phase
<1>4. Covered'
    BY <1>1, NotClean
<1> QED
    BY <1>1, <1>2, <1>3, <1>4 DEF IInv, Listed, Left

\* A change of the organisation takes nothing back.
LEMMA OrganisationChangesInv ==
    ASSUME IInv, OrganisationChanges
    PROVE  IInv'
<1>1. world' = world + 1 /\ UNCHANGED <<batch, svc, phases, over, faults, listing, repos, worker,
                                        next, sem, cache, response>>
    BY DEF OrganisationChanges
<1>2. TypeOK'
    BY <1>1 DEF IInv, TypeOK
<1>3. Placed'
    BY <1>1 DEF IInv, Placed, Returned, Phase
<1>4. Covered'
    BY <1>1 DEF IInv, Covered, Clean, PastCovered, CurrentCovered, Returned, Phase, Left, Pending,
                Service
<1>5. Truth(cache, response, world + 1)
    <2>1. world \in Nat /\ Truth(cache, response, world)
        BY DEF IInv, TypeOK
    <2> QED
        BY <2>1, TruthLater
<1> QED
    BY <1>1, <1>2, <1>3, <1>4, <1>5 DEF IInv, Listed, Left

\* The loop leaves repositories out only when the context is over.
LEMMA BreakRepoLoopInv ==
    ASSUME IInv, BreakRepoLoop
    PROVE  IInv'
<1>1. /\ next' = repos + 1 /\ over /\ Phase("fan")
      /\ UNCHANGED <<batch, svc, phases, over, world, faults, listing, repos, worker, sem, cache,
                     response>>
    BY DEF BreakRepoLoop
<1>2. TypeOK'
    BY <1>1, LenProperties, GithubAssumption DEF IInv, TypeOK
<1>3. Placed'
    BY <1>1 DEF IInv, Placed, Returned, Phase
<1>4. Covered'
    BY <1>1, NotClean
<1> QED
    BY <1>1, <1>2, <1>3, <1>4 DEF IInv, Listed, Left

\* After wg.Wait every repository of the loop is answered.
LEMMA WaitReposInv ==
    ASSUME IInv, WaitRepos
    PROVE  IInv'
<1>1. /\ Phase("fan") /\ next > repos /\ \A r \in Repos : worker[r].state = "off"
      /\ next' = 1 /\ phases' = Tail(phases)
      /\ UNCHANGED <<batch, svc, over, world, faults, listing, repos, worker, sem, cache, response>>
    BY DEF WaitRepos
<1>2. /\ ~ Returned /\ "fan" \in Left /\ "list" \notin Left
      /\ phases' = <<>> /\ phases' \in PhaseLists /\ Left' = {}
    <2>1. Left' = Range(phases') /\ Range(<<>>) = {}
        BY DEF Left, Range
    <2> QED
        BY <1>1, <2>1, PhaseFacts, ShortRanges DEF IInv
<1>3. TypeOK'
    BY <1>1, <1>2 DEF IInv, TypeOK
<1>4. Placed'
    BY <1>1, <1>2 DEF IInv, Placed, Returned, Phase
<1>5. Covered'
    <2> SUFFICES ASSUME Clean(response)' PROVE PastCovered' /\ CurrentCovered'
        BY DEF Covered
    <2>1. Clean(response) /\ PastCovered' /\ CurrentCovered
        BY <1>1, <1>2, PastKept DEF IInv, Covered
    <2>2. ASSUME NEW r \in Repos, NEW call \in Range(StepsOf(Service).repo)
          PROVE  Answered(response, Service, r, call)
        <3>1. PICK k \in DOMAIN RepoList : RepoList[k] = r
            BY DEF Repos, Range
        <3>2. k \in 1 .. Len(RepoList) /\ Len(RepoList) \in Nat
            BY GithubAssumption, LenProperties
        <3>3. repos = Len(RepoList)
            BY <1>2, <2>1 DEF CurrentCovered
        <3>4. k < next
            BY <1>1, <3>2, <3>3 DEF IInv, TypeOK
        <3>5. call \notin Pending(r)
            BY <1>1 DEF Pending
        <3> QED
            BY <1>1, <2>1, <3>1, <3>2, <3>4, <3>5 DEF CurrentCovered
    <2>3. \A call \in Range(StepsOf(Service).org) : Answered(response, Service, None, call)
        <3>1. Left = {"fan"}
            BY <1>1, <1>2, PhaseFacts, ShortRanges DEF IInv
        <3> QED
            BY <2>1, <3>1 DEF CurrentCovered
    <2>4. Service' = Service /\ ~ Phase("fan")'
        BY <1>1, <1>2 DEF Service, Phase
    <2>5. CurrentCovered'
        BY <1>1, <1>2, <2>2, <2>3, <2>4 DEF CurrentCovered
    <2> QED
        BY <2>1, <2>5
<1> QED
    BY <1>1, <1>2, <1>3, <1>4, <1>5 DEF IInv, Listed

\* A goroutine of parallelRepos ends when it has made its calls.
LEMMA EndRepoInv ==
    ASSUME IInv, NEW r \in Repos \cup {None}, EndRepo(r)
    PROVE  IInv'
<1>1. /\ r \in Repos /\ r # None /\ worker[r].calls = <<>> /\ sem > 0 /\ sem' = sem - 1
      /\ worker' = [worker EXCEPT ![r] = IdleWorker]
      /\ UNCHANGED <<batch, svc, phases, over, world, faults, listing, repos, next, cache,
                     response>>
    BY DEF EndRepo
<1>2. /\ IdleWorker \in WorkerState /\ IdleWorker.state = "off" /\ IdleWorker.calls = <<>>
      /\ <<>> \in Seq(RepoCalls)
    BY DEF IdleWorker, WorkerState
<1>3. /\ worker' \in [Repos \cup {None} -> WorkerState] /\ worker'[r] = IdleWorker
      /\ \A q \in (Repos \cup {None}) \ {r} : worker'[q] = worker[q]
    BY <1>1, <1>2 DEF IInv, TypeOK
<1>4. TypeOK'
    BY <1>1, <1>3 DEF IInv, TypeOK
<1>5. Placed'
    BY <1>1, <1>2, <1>3 DEF IInv, Placed, Returned, Phase
<1>6. \A q \in Repos \cup {None} : Pending(q) \subseteq Pending(q)'
    BY <1>1, <1>2, <1>3, ShortRanges DEF Pending
<1>7. Covered'
    <2> SUFFICES ASSUME Clean(response)' PROVE PastCovered' /\ (~ Returned' => CurrentCovered')
        BY DEF Covered
    <2>1. Clean(response) /\ PastCovered' /\ (~ Returned => CurrentCovered)
        BY <1>1, PastKept DEF IInv, Covered
    <2>2. Service' = Service /\ Left' = Left /\ Phase("fan")' = Phase("fan")
          /\ Returned' = Returned /\ worker'[None] = worker[None]
        BY <1>1, <1>3 DEF Service, Left, Phase, Returned
    <2>3. \A k \in 1 .. Len(RepoList) : RepoList[k] \in Repos
        BY GithubAssumption, ElementOfSeq
    <2>4. ASSUME CurrentCovered PROVE CurrentCovered'
        BY <1>1, <1>6, <2>2, <2>3, <2>4 DEF CurrentCovered
    <2> QED
        BY <2>1, <2>2, <2>4
<1> QED
    BY <1>1, <1>4, <1>5, <1>7 DEF IInv, Listed, Left

\* The goroutine of the next repository starts with all its calls to make.
LEMMA StartRepoInv ==
    ASSUME IInv, StartRepo
    PROVE  IInv'
<1> DEFINE new == [IdleWorker EXCEPT !.state = "run", !.calls = StepsOf(Service).repo]
<1>1. /\ Phase("fan") /\ next <= repos /\ next' = next + 1
      /\ worker' = [worker EXCEPT ![RepoList[next]] = new]
      /\ sem' = IF sem < Concurrency THEN sem + 1 ELSE sem
      /\ UNCHANGED <<batch, svc, phases, over, world, faults, listing, repos, cache, response>>
    BY DEF StartRepo
<1>2. PICK r \in Repos : next \in 1 .. Len(RepoList) /\ r = RepoList[next] /\ r # None
    <2>1. Len(RepoList) \in Nat
        BY GithubAssumption, LenProperties
    <2>2. next \in Nat \ {0} /\ repos \in 0 .. Len(RepoList)
        BY DEF IInv, TypeOK
    <2>3. next \in 1 .. Len(RepoList)
        BY <1>1, <2>1, <2>2
    <2> QED
        BY <2>3, GithubAssumption, ElementOfSeq
<1>3. /\ StepsOf(Service).repo \in Seq(RepoCalls)
      /\ StepsOf(Service).repo \in Seq(OrgCalls \cup RepoCalls)
    BY StepsFacts
<1>4. /\ new \in WorkerState /\ new.state = "run" /\ new.calls = StepsOf(Service).repo
    BY <1>3 DEF IdleWorker, WorkerState
<1> HIDE DEF new
<1>5. /\ worker' \in [Repos \cup {None} -> WorkerState] /\ worker'[r] = new
      /\ \A q \in (Repos \cup {None}) \ {r} : worker'[q] = worker[q]
    BY <1>1, <1>2, <1>4 DEF IInv, TypeOK
<1>6. TypeOK'
    BY <1>1, <1>5 DEF IInv, TypeOK
<1>7. Placed'
    BY <1>1, <1>2, <1>3, <1>4, <1>5 DEF IInv, Placed, Returned, Phase
<1>8. /\ Pending(r)' = Range(StepsOf(Service).repo)
      /\ \A q \in (Repos \cup {None}) \ {r} : Pending(q)' = Pending(q)
    BY <1>4, <1>5 DEF Pending
<1>9. Covered'
    <2> SUFFICES ASSUME Clean(response)' PROVE PastCovered' /\ CurrentCovered'
        BY DEF Covered
    <2>1. Clean(response) /\ PastCovered' /\ CurrentCovered
        BY <1>1, PastKept, PhaseFacts DEF IInv, Covered
    <2>2. Service' = Service /\ Left' = Left /\ Phase("fan")' = Phase("fan")
          /\ worker'[None] = worker[None]
        BY <1>1, <1>2, <1>5, GithubAssumption DEF Service, Left, Phase
    <2>3. ASSUME NEW k \in 1 .. Len(RepoList), NEW call \in Range(StepsOf(Service).repo),
                 k < next + 1
          PROVE  Answered(response, Service, RepoList[k], call) \/ call \in Pending(RepoList[k])'
        <3>1. RepoList[k] \in Repos
            BY GithubAssumption, ElementOfSeq
        <3>2. CASE RepoList[k] = r
            BY <1>8, <3>2
        <3>3. CASE RepoList[k] # r
            <4>1. k < next
                BY <1>2, <2>3, <3>3 DEF IInv, TypeOK
            <4> QED
                BY <1>1, <1>8, <2>1, <3>1, <3>3, <4>1 DEF CurrentCovered
        <3> QED
            BY <3>2, <3>3
    <2>4. CurrentCovered'
        BY <1>1, <1>2, <1>8, <2>1, <2>2, <2>3, GithubAssumption DEF CurrentCovered
    <2> QED
        BY <2>1, <2>4
<1> QED
    BY <1>1, <1>6, <1>7, <1>9 DEF IInv, Listed, Left

(***************************************************************************)
(* The main goroutine.                                                     *)
(***************************************************************************)

\* The calls about the organisation start with all of them to make.
LEMMA StartOrgCallsInv ==
    ASSUME IInv, StartOrgCalls
    PROVE  IInv'
<1> DEFINE new == [IdleWorker EXCEPT !.state = "run", !.calls = StepsOf(Service).org]
<1>1. /\ Phase("org") /\ worker' = [worker EXCEPT ![None] = new]
      /\ UNCHANGED <<batch, svc, phases, over, world, faults, listing, repos, next, sem, cache,
                     response>>
    BY DEF StartOrgCalls
<1>2. /\ StepsOf(Service).org \in Seq(OrgCalls)
      /\ StepsOf(Service).org \in Seq(OrgCalls \cup RepoCalls)
    BY StepsFacts
<1>3. /\ new \in WorkerState /\ new.state = "run" /\ new.calls = StepsOf(Service).org
    BY <1>2 DEF IdleWorker, WorkerState
<1> HIDE DEF new
<1>4. /\ worker' \in [Repos \cup {None} -> WorkerState] /\ worker'[None] = new
      /\ \A q \in Repos : worker'[q] = worker[q]
    BY <1>1, <1>3, GithubAssumption DEF IInv, TypeOK
<1>5. TypeOK'
    BY <1>1, <1>4 DEF IInv, TypeOK
<1>6. Placed'
    BY <1>1, <1>2, <1>3, <1>4 DEF IInv, Placed, Returned, Phase
<1>7. Pending(None)' = Range(StepsOf(Service).org) /\ \A q \in Repos : Pending(q)' = Pending(q)
    BY <1>3, <1>4 DEF Pending
<1>8. Covered'
    <2> SUFFICES ASSUME Clean(response)' PROVE PastCovered' /\ CurrentCovered'
        BY DEF Covered
    <2>1. Clean(response) /\ PastCovered' /\ CurrentCovered
        BY <1>1, PastKept, PhaseFacts DEF IInv, Covered
    <2>2. Service' = Service /\ Left' = Left /\ ~ Phase("fan")'
        BY <1>1 DEF Service, Left, Phase
    <2>3. CurrentCovered'
        BY <1>1, <1>7, <2>1, <2>2 DEF CurrentCovered
    <2> QED
        BY <2>1, <2>3
<1> QED
    BY <1>1, <1>5, <1>6, <1>8 DEF IInv, Listed, Left

\* When they have been made, every one of them is answered.
LEMMA EndOrgCallsInv ==
    ASSUME IInv, EndOrgCalls
    PROVE  IInv'
<1>1. /\ Phase("org") /\ worker[None].state = "run" /\ worker[None].calls = <<>>
      /\ worker' = [worker EXCEPT ![None] = IdleWorker] /\ phases' = Tail(phases)
      /\ UNCHANGED <<batch, svc, over, world, faults, listing, repos, next, sem, cache, response>>
    BY DEF EndOrgCalls
<1>2. /\ IdleWorker \in WorkerState /\ IdleWorker.state = "off" /\ IdleWorker.calls = <<>>
      /\ <<>> \in Seq(OrgCalls)
    BY DEF IdleWorker, WorkerState
<1>3. /\ worker' \in [Repos \cup {None} -> WorkerState] /\ worker'[None] = IdleWorker
      /\ \A q \in Repos : worker'[q] = worker[q]
    BY <1>1, <1>2, GithubAssumption DEF IInv, TypeOK
<1>4. /\ ~ Returned /\ "org" \in Left /\ phases' \in PhaseLists /\ Left' = Left \ {"org"}
    BY <1>1, PhaseFacts DEF IInv, Left
<1>5. TypeOK'
    BY <1>1, <1>3, <1>4 DEF IInv, TypeOK
<1>6. ~ Phase("list") /\ ~ Phase("fan") /\ Returned' = Returned
    BY <1>1 DEF Phase, Returned
<1>7. Placed'
    BY <1>1, <1>2, <1>3, <1>4, <1>6 DEF IInv, Placed
<1>8. Covered'
    <2> SUFFICES ASSUME Clean(response)' PROVE PastCovered' /\ CurrentCovered'
        BY DEF Covered
    <2>1. Clean(response) /\ PastCovered' /\ CurrentCovered
        BY <1>1, <1>4, PastKept DEF IInv, Covered
    <2>2. Service' = Service /\ next' = 1
        BY <1>1, <1>6 DEF Service, IInv, Placed
    <2>3. \A call \in Range(StepsOf(Service).org) : Answered(response, Service, None, call)
        BY <1>1, <2>1, ShortRanges DEF CurrentCovered, Pending
    <2>4. CurrentCovered'
        BY <1>1, <1>2, <1>3, <1>4, <2>1, <2>2, <2>3 DEF CurrentCovered
    <2> QED
        BY <2>1, <2>4
<1> QED
    BY <1>1, <1>4, <1>5, <1>7, <1>8 DEF IInv, Listed

\* Outside the phases nothing is under way.
LEMMA BetweenServices ==
    ASSUME IInv, phases = <<>>
    PROVE  /\ Left = {} /\ next = 1 /\ listing.via = "none"
           /\ \A r \in Repos \cup {None} : worker[r].state # "run"
BY ShortRanges DEF IInv, Placed, Phase, Left

\* A service that is through is answered, and the next one has all to do.
LEMMA NextServiceInv ==
    ASSUME IInv, NextService
    PROVE  IInv'
<1> DEFINE new == IF Phases(Service) = <<>> THEN {Entry(Service, None, "service", "error", 0)}
                  ELSE {}
<1>1. /\ ~ Returned /\ phases = <<>> /\ svc' = svc + 1 /\ repos' = 0
      /\ phases' = IF svc < Len(batch) THEN Phases(batch[svc + 1]) ELSE <<>>
      /\ response' = response \cup new
      /\ UNCHANGED <<batch, over, world, faults, listing, worker, next, sem, cache>>
    BY DEF NextService
<1>2. /\ batch \in Seq(STRING) /\ Len(batch) \in Nat /\ svc \in 1 .. Len(batch)
      /\ Service \in STRING
    <2>1. batch \in Seq(STRING) /\ Len(batch) \in Nat
        BY GithubAssumption, LenProperties DEF IInv, TypeOK
    <2>2. svc \in 1 .. Len(batch)
        BY <1>1, <2>1 DEF IInv, TypeOK, Returned
    <2> QED
        BY <2>1, <2>2, ElementOfSeq DEF Service
<1>3. /\ phases' \in PhaseLists
      /\ "fan" \in Left' => "list" \in Left'
      /\ ~ Returned' => phases' = Phases(Service')
      /\ Returned' => phases' = <<>>
    <2>1. CASE svc < Len(batch)
        <3>1. phases' = Phases(batch[svc + 1]) /\ ~ Returned' /\ Service' = batch[svc + 1]
            BY <1>1, <1>2, <2>1 DEF Returned, Service
        <3> QED
            BY <3>1, StepsFacts DEF Left
    <2>2. CASE ~ svc < Len(batch)
        <3>1. phases' = <<>> /\ Returned'
            BY <1>1, <1>2, <2>2 DEF Returned
        <3>2. <<>> \in PhaseLists
            BY Zenon DEF PhaseLists
        <3> QED
            BY <3>1, <3>2, ShortRanges DEF Left
    <2> QED
        BY <2>1, <2>2
<1>4. Left = {} /\ next = 1 /\ listing.via = "none"
      /\ \A r \in Repos \cup {None} : worker[r].state # "run"
    BY <1>1, BetweenServices
<1>5. new \subseteq Entries
    BY <1>2 DEF Entry, Entries, Gots
<1>6. TypeOK'
    BY <1>1, <1>2, <1>3, <1>5, GithubAssumption, LenProperties DEF IInv, TypeOK
<1>7. Placed'
    BY <1>1, <1>3, <1>4 DEF IInv, Placed
<1>8. Truth(cache, response', world) /\ Story(cache, response')
    <2>1. CASE Phases(Service) = <<>>
        <3> DEFINE x == Entry(Service, None, "service", "error", 0)
        <3>1. x.call = "service" /\ x.got = "error" /\ response' = response \cup {x}
            BY <1>1, <2>1 DEF Entry
        <3> HIDE DEF x
        <3> QED
            BY <3>1, TruthAdd, StoryAdd DEF IInv, TrueOf
    <2>2. CASE Phases(Service) # <<>>
        <3>1. response' = response
            BY <1>1, <2>2
        <3> QED
            BY <3>1 DEF IInv
    <2> QED
        BY <2>1, <2>2
<1>9. Covered'
    <2>1. CASE Phases(Service) = <<>>
        <3>1. Entry(Service, None, "service", "error", 0) \in response'
              /\ Entry(Service, None, "service", "error", 0).got = "error"
            BY <1>1, <2>1 DEF Entry
        <3> QED
            BY <3>1, NotClean
    <2>2. CASE Phases(Service) # <<>>
        <3> SUFFICES ASSUME Clean(response)' PROVE PastCovered' /\ (~ Returned' => CurrentCovered')
            BY DEF Covered
        <3>1. response' = response
            BY <1>1, <2>2
        <3>2. PastCovered /\ CurrentCovered
            BY <1>1, <3>1 DEF Clean, IInv, Covered
        <3>3. ASSUME NEW call \in Asked(batch[svc])
              PROVE  Answered(response, batch[svc], call[1], call[2])
            <4>1. Service = batch[svc]
                BY DEF Service
            <4>2. call \in ({None} \X Range(StepsOf(Service).org))
                           \cup (Repos \X Range(StepsOf(Service).repo))
                BY <2>2, <3>3, <4>1 DEF Asked
            <4> QED
                BY <1>4, <3>2, <4>1, <4>2 DEF CurrentCovered
        <3>4. ASSUME NEW i \in 1 .. svc, NEW call \in Asked(batch[i])
              PROVE  Answered(response, batch[i], call[1], call[2])
            <4>1. CASE i = svc
                BY <3>3, <3>4, <4>1
            <4>2. CASE i # svc
                <5>1. i \in 1 .. svc - 1
                    BY <1>2, <3>4, <4>2
                <5> QED
                    BY <3>2, <3>4, <5>1 DEF PastCovered
            <4> QED
                BY <4>1, <4>2
        <3>5. PastCovered'
            <4>1. 1 .. svc' - 1 = 1 .. svc
                BY <1>1, <1>2
            <4> QED
                BY <1>1, <3>1, <3>4, <4>1 DEF PastCovered
        <3>6. ASSUME ~ Returned' PROVE CurrentCovered'
            <4> DEFINE s == Service'
            <4>1. Left' = Range(Phases(s))
                BY <1>3, <3>6 DEF Left
            <4>2. /\ "org" \notin Left' => Range(StepsOf(s).org) = {}
                  /\ "fan" \notin Left' => Range(StepsOf(s).repo) = {}
                BY <4>1, StepsFacts, ShortRanges
            <4>3. worker'[None].state # "run" /\ next' = 1
                BY <1>1, <1>4
            <4> QED
                BY <1>3, <4>2, <4>3 DEF CurrentCovered
        <3> QED
            BY <3>5, <3>6
    <2> QED
        BY <2>1, <2>2
<1> QED
    BY <1>1, <1>3, <1>6, <1>7, <1>8, <1>9 DEF IInv, Listed

\* The listing ends, or is found in the cache: what it leaves for the service.
\* Either it is clean and complete, or the response has its error.
LEMMA EndOfListing ==
    ASSUME IInv, Phase("list"), phases' = Tail(phases), repos' \in 0 .. Len(RepoList),
           faults' \in Nat, cache' \in CacheState, response' \subseteq Entries,
           listing' = NoListing, response \subseteq response',
           UNCHANGED <<batch, svc, over, world, worker, next, sem>>,
           cache'.listed \/ Relisted(response'), cache'.listed => repos' = Len(RepoList),
           ~ cache'.listed => \E e \in response' : e.got = "error",
           Truth(cache', response', world), Story(cache', response')
    PROVE  IInv'
<1>1. /\ ~ Returned /\ phases' \in PhaseLists /\ Left' = Left \ {"list"}
      /\ ~ Phase("org") /\ ~ Phase("fan")
    BY PhaseFacts DEF IInv, Left, Phase
<1>2. listing' \in ListingState /\ listing'.via = "none"
    BY GithubAssumption, LenProperties DEF NoListing, ListingState
<1>3. TypeOK'
    BY <1>1, <1>2 DEF IInv, TypeOK
<1>4. next = 1 /\ \A r \in Repos \cup {None} : worker[r].state # "run"
    BY <1>1 DEF IInv, Placed
<1>5. Placed'
    BY <1>1, <1>2, <1>4 DEF IInv, Placed, Returned
<1>6. Covered'
    <2> SUFFICES ASSUME Clean(response)' PROVE PastCovered' /\ CurrentCovered'
        BY DEF Covered
    <2>1. Clean(response) /\ PastCovered' /\ CurrentCovered
        BY <1>1, PastKept DEF IInv, Covered
    <2>2. repos' = Len(RepoList)
        BY DEF Clean
    <2>3. Service' = Service
        BY DEF Service
    <2>4. CurrentCovered'
        BY <1>1, <1>4, <2>1, <2>2, <2>3, AnsweredGrows DEF CurrentCovered
    <2> QED
        BY <2>1, <2>4
<1> QED
    BY <1>3, <1>5, <1>6 DEF IInv, Listed

\* The listing goes on.
LEMMA ListingGoesOn ==
    ASSUME IInv, Phase("list"), faults' \in Nat, cache' \in CacheState, listing' \in ListingState,
           ~ cache'.listed, ~ cache.listed,
           UNCHANGED <<batch, svc, phases, over, world, repos, worker, next, sem, response>>,
           Truth(cache', response, world), Story(cache', response)
    PROVE  IInv'
<1>1. TypeOK'
    BY DEF IInv, TypeOK
<1>2. Placed'
    BY DEF IInv, Placed, Returned, Phase
<1>3. Covered'
    BY DEF IInv, Covered, Clean, PastCovered, CurrentCovered, Returned, Phase, Left, Pending,
           Service
<1> QED
    BY <1>1, <1>2, <1>3 DEF IInv, Listed, Left

\* listRepos takes the cached list or starts a listing.
LEMMA ListReposInv ==
    ASSUME IInv, ListRepos
    PROVE  IInv'
<1>1. /\ Phase("list") /\ listing.via = "none"
      /\ UNCHANGED <<batch, svc, over, world, faults, worker, next, sem, cache, response>>
    BY DEF ListRepos
<1>2. CASE cache.listed
    <2>1. repos' = Len(RepoList) /\ phases' = Tail(phases) /\ listing' = listing
        BY <1>2 DEF ListRepos
    <2>2. /\ ~ Returned /\ phases' \in PhaseLists /\ Left' = Left \ {"list"}
          /\ ~ Phase("org") /\ ~ Phase("fan")
        BY <1>1, <2>1, PhaseFacts DEF IInv, Left, Phase
    <2>3. TypeOK'
        BY <1>1, <2>1, <2>2, GithubAssumption, LenProperties DEF IInv, TypeOK
    <2>4. next = 1 /\ \A r \in Repos \cup {None} : worker[r].state # "run"
        BY <2>2 DEF IInv, Placed
    <2>5. Placed'
        BY <1>1, <2>1, <2>2, <2>4 DEF IInv, Placed, Returned
    <2>6. Covered'
        <3> SUFFICES ASSUME Clean(response)' PROVE PastCovered' /\ CurrentCovered'
            BY DEF Covered
        <3>1. Clean(response) /\ PastCovered' /\ CurrentCovered
            BY <1>1, <2>2, PastKept DEF IInv, Covered
        <3>2. Service' = Service
            BY <1>1 DEF Service
        <3>3. CurrentCovered'
            BY <1>1, <2>1, <2>2, <2>4, <3>1, <3>2 DEF CurrentCovered
        <3> QED
            BY <3>1, <3>3
    <2> QED
        BY <1>1, <1>2, <2>3, <2>5, <2>6 DEF IInv, Listed
<1>3. CASE ~ cache.listed
    <2>1. /\ repos' = repos /\ phases' = phases
          /\ listing' \in {Fallback, [NoListing EXCEPT !.via = "graphql"]}
        BY <1>3 DEF ListRepos
    <2>2. listing' \in ListingState
        BY <2>1, GithubAssumption, LenProperties DEF Fallback, NoListing, ListingState
    <2> QED
        BY <1>1, <1>3, <2>1, <2>2, ListingGoesOn DEF IInv, TypeOK
<1> QED
    BY <1>2, <1>3

\* EndListing, for the REST listing: complete, or with its error.
LEMMA EndListingInv ==
    ASSUME IInv, NEW got \in 0 .. Len(RepoList), NEW clean \in BOOLEAN, EndListing(got, clean),
           Phase("list"), listing.via # "none", clean => got = Len(RepoList), faults' \in Nat,
           UNCHANGED <<batch, svc, over, world, worker, next, sem>>
    PROVE  IInv'
<1> DEFINE x == Entry(Service, None, "repositories", "error", 0)
<1>1. /\ repos' = got /\ cache' = [cache EXCEPT !.listed = clean] /\ listing' = NoListing
      /\ phases' = Tail(phases)
      /\ response' = IF clean THEN response ELSE response \cup {x}
    BY DEF EndListing
<1>2. cache \in CacheState /\ ~ cache.listed
    BY DEF IInv, TypeOK, Placed
<1>3. /\ cache' \in CacheState /\ cache'.listed = clean /\ cache'.protection = cache.protection
      /\ cache'.alerts = cache.alerts
    BY <1>1, <1>2 DEF CacheState
<1>4. Service \in STRING
    <2>1. batch \in Seq(STRING) /\ Len(batch) \in Nat
        BY GithubAssumption, LenProperties DEF IInv, TypeOK
    <2>2. svc \in 1 .. Len(batch)
        BY <2>1, PhaseFacts DEF IInv, TypeOK, Returned
    <2> QED
        BY <2>1, <2>2, ElementOfSeq DEF Service
<1>5. x \in Entries /\ x.call = "repositories" /\ x.got = "error"
    BY <1>4 DEF Entry, Entries, Gots
<1> HIDE DEF x
<1>6. response' \subseteq Entries /\ response \subseteq response'
    BY <1>1, <1>5 DEF IInv, TypeOK
<1>7. ~ clean => Relisted(response') /\ \E e \in response' : e.got = "error"
    BY <1>1, <1>5 DEF Relisted
<1>8. Truth(cache', response, world)
    BY <1>3 DEF IInv, Truth
<1>9. Truth(cache', response', world)
    BY <1>1, <1>5, <1>8, TruthAdd DEF TrueOf
<1>10. Story(cache', response')
    <2>1. CASE clean
        BY <1>1, <1>3, <2>1 DEF IInv, Story, KnownProtection
    <2>2. CASE ~ clean
        <3>1. Story(cache', response)
            BY <1>2, <1>3, <2>2 DEF IInv, Story, KnownProtection
        <3> QED
            BY <1>1, <1>5, <2>2, <3>1, StoryAdd
    <2> QED
        BY <2>1, <2>2
<1> QED
    BY <1>1, <1>3, <1>6, <1>7, <1>9, <1>10, EndOfListing

\* A page of GraphQL puts the protection it has seen into the cache, which no
\* entry of the response contradicts: protection is told after the listing.
LEMMA GraphQLPage ==
    ASSUME IInv, listing.via # "none", NEW page, NEW last \in BOOLEAN,
           cache' = [cache EXCEPT !.listed = last, !.protection = WithPage(page)]
    PROVE  /\ cache' \in CacheState /\ cache'.listed = last /\ ~ cache.listed
           /\ Truth(cache', response, world) /\ Story(cache', response)
<1>1. cache \in CacheState /\ ~ cache.listed /\ world \in Nat
    BY DEF IInv, TypeOK, Placed
<1>2. ASSUME NEW r \in Repos
      PROVE  /\ GraphQLProtection(r) \in Known
             /\ TrueOf(r, "protection", GraphQLProtection(r), world)
    BY <1>1 DEF GraphQLProtection, NoBranch, Known, Gots, TrueOf
<1>3. WithPage(page) \in [Repos -> Known]
    BY <1>1, <1>2 DEF WithPage, CacheState
<1>4. /\ cache' \in CacheState /\ cache'.listed = last /\ cache'.protection = WithPage(page)
      /\ cache'.alerts = cache.alerts
    BY <1>1, <1>3 DEF CacheState
<1>5. \A r \in Repos : TrueOf(r, "protection", WithPage(page)[r], world)
    <2> SUFFICES ASSUME NEW r \in Repos
                 PROVE  TrueOf(r, "protection", WithPage(page)[r], world)
        OBVIOUS
    <2>1. WithPage(page)[r] \in {GraphQLProtection(r), cache.protection[r]}
        BY DEF WithPage
    <2>2. TrueOf(r, "protection", cache.protection[r], world)
        BY DEF IInv, Truth
    <2> QED
        BY <1>2, <2>1, <2>2
<1>6. Truth(cache', response, world)
    BY <1>4, <1>5 DEF IInv, Truth
<1>7. Story(cache', response)
    BY <1>1, <1>4 DEF IInv, Story
<1> QED
    BY <1>1, <1>4, <1>6, <1>7

\* One page: retried, taken, or the end of the listing or of its GraphQL half.
LEMMA ListPageInv ==
    ASSUME IInv, ListPage
    PROVE  IInv'
<1> DEFINE got == IF listing.got < Len(RepoList) THEN listing.got + 1 ELSE listing.got
           page == {RepoList[k] : k \in listing.got + 1 .. got}
           last == got = Len(RepoList)
<1>1. /\ Phase("list") /\ listing.via # "none"
      /\ UNCHANGED <<batch, svc, over, world, worker, next, sem>>
    BY DEF ListPage
<1>2. PICK answer \in Answers(None, "repositories") :
        /\ CountFault(answer)
        /\ \/ /\ Retries(answer, listing.attempt)
              /\ listing' = [listing EXCEPT !.attempt = @ + 1]
              /\ UNCHANGED <<repos, cache, phases, response>>
           \/ /\ answer = "ok" /\ listing.via = "graphql"
              /\ repos' = IF last THEN got ELSE repos
              /\ listing' = IF last THEN NoListing
                            ELSE [listing EXCEPT !.got = got, !.attempt = 0]
              /\ cache' = [cache EXCEPT !.listed = last, !.protection = WithPage(page)]
              /\ phases' = IF last THEN Tail(phases) ELSE phases
              /\ UNCHANGED response
           \/ /\ answer = "ok" /\ listing.via = "rest" /\ last
              /\ EndListing(got, TRUE)
           \/ /\ answer = "ok" /\ listing.via = "rest" /\ ~ last
              /\ listing' = [listing EXCEPT !.got = got, !.attempt = 0]
              /\ UNCHANGED <<repos, cache, phases, response>>
           \/ /\ answer # "ok" /\ ~ Retries(answer, listing.attempt)
              /\ IF listing.via = "graphql"
                 THEN listing' = Fallback /\ UNCHANGED <<repos, cache, phases, response>>
                 ELSE EndListing(listing.got, FALSE)
    BY ZenonT(60) DEF ListPage
<1>3. faults' \in Nat
    BY <1>2 DEF CountFault, IInv, TypeOK
<1>4. /\ listing \in ListingState /\ cache \in CacheState /\ ~ cache.listed
      /\ Truth(cache, response, world) /\ Story(cache, response) /\ response \subseteq Entries
    BY <1>1 DEF IInv, TypeOK, Placed
<1>5. got \in 0 .. Len(RepoList) /\ listing.got \in 0 .. Len(RepoList)
    BY <1>4, GithubAssumption, LenProperties DEF ListingState
<1>6. last \in BOOLEAN
    OBVIOUS
<1> HIDE DEF got, page, last
<1>7. [listing EXCEPT !.got = got, !.attempt = 0] \in ListingState
    BY <1>4, <1>5 DEF ListingState
<1>8. ASSUME UNCHANGED <<repos, cache, phases, response>>, listing' \in ListingState
      PROVE  IInv'
    BY <1>1, <1>3, <1>4, <1>8, ListingGoesOn
<1>9. CASE /\ Retries(answer, listing.attempt)
           /\ listing' = [listing EXCEPT !.attempt = @ + 1]
           /\ UNCHANGED <<repos, cache, phases, response>>
    <2>1. listing' \in ListingState
        BY <1>4, <1>9 DEF ListingState
    <2> QED
        BY <1>8, <1>9, <2>1
<1>10. CASE /\ repos' = IF last THEN got ELSE repos
            /\ listing' = IF last THEN NoListing
                          ELSE [listing EXCEPT !.got = got, !.attempt = 0]
            /\ cache' = [cache EXCEPT !.listed = last, !.protection = WithPage(page)]
            /\ phases' = IF last THEN Tail(phases) ELSE phases
            /\ UNCHANGED response
    <2>1. /\ cache' \in CacheState /\ cache'.listed = last
          /\ Truth(cache', response, world) /\ Story(cache', response)
        BY <1>1, <1>6, <1>10, GraphQLPage
    <2>2. CASE last
        <3>1. got = Len(RepoList)
            BY <2>2 DEF last
        <3> QED
            BY <1>1, <1>3, <1>4, <1>5, <1>10, <2>1, <2>2, <3>1, EndOfListing
    <2>3. CASE ~ last
        BY <1>1, <1>3, <1>4, <1>7, <1>10, <2>1, <2>3, ListingGoesOn
    <2> QED
        BY <2>2, <2>3
<1>11. CASE last /\ EndListing(got, TRUE)
    <2>1. got = Len(RepoList)
        BY <1>11 DEF last
    <2> QED
        BY <1>1, <1>3, <1>5, <1>11, <2>1, EndListingInv
<1>12. CASE EndListing(listing.got, FALSE)
    BY <1>1, <1>3, <1>5, <1>12, EndListingInv
<1>13. CASE listing' = Fallback /\ UNCHANGED <<repos, cache, phases, response>>
    <2>1. Fallback \in ListingState
        BY GithubAssumption, LenProperties DEF Fallback, NoListing, ListingState
    <2> QED
        BY <1>8, <1>13, <2>1
<1>14. CASE /\ listing' = [listing EXCEPT !.got = got, !.attempt = 0]
            /\ UNCHANGED <<repos, cache, phases, response>>
    BY <1>7, <1>8, <1>14
<1> QED
    BY <1>2, <1>9, <1>10, <1>11, <1>12, <1>13, <1>14, Zenon

\* A listing whose context is over ends with its error.
LEMMA ListPageOverInv ==
    ASSUME IInv, ListPageOver
    PROVE  IInv'
<1> DEFINE got == IF listing.via = "rest" THEN listing.got ELSE 0
<1>1. /\ Phase("list") /\ listing.via # "none" /\ EndListing(got, FALSE)
      /\ UNCHANGED <<batch, svc, over, world, faults, worker, next, sem>>
    BY DEF ListPageOver
<1>2. got \in 0 .. Len(RepoList) /\ faults' \in Nat
    BY <1>1, GithubAssumption, LenProperties DEF IInv, TypeOK, ListingState
<1> HIDE DEF got
<1> QED
    BY <1>1, <1>2, EndListingInv

(***************************************************************************)
(* The calls of a goroutine.                                               *)
(***************************************************************************)

\* What a call, its goroutine and its service may be.
LEMMA CallFacts ==
    ASSUME IInv, NEW r \in Repos \cup {None}, Calling(r)
    PROVE  LET call == Head(worker[r].calls)
           IN  /\ call \in OrgCalls \cup RepoCalls
               /\ r = None => call \in OrgCalls
               /\ Tail(worker[r].calls) \in Seq(OrgCalls \cup RepoCalls)
               /\ r = None => Tail(worker[r].calls) \in Seq(OrgCalls)
               /\ r \in Repos => Tail(worker[r].calls) \in Seq(RepoCalls)
               /\ Range(worker[r].calls) = Range(Tail(worker[r].calls)) \cup {call}
               /\ Service \in STRING /\ ~ Returned
               /\ r \in Repos => Phase("fan") /\ (cache.listed \/ Relisted(response))
<1>1. worker[r] \in WorkerState /\ worker[r].calls # <<>> /\ worker[r].state = "run"
    BY DEF IInv, TypeOK, Calling
<1>2. worker[r].calls \in Seq(OrgCalls \cup RepoCalls)
    BY <1>1 DEF WorkerState
<1>3. r = None => worker[r].calls \in Seq(OrgCalls)
    BY DEF IInv, Placed
<1>4. r \in Repos => worker[r].calls \in Seq(RepoCalls) /\ Phase("fan")
    BY <1>1 DEF IInv, Placed
<1>5. Phase("org") \/ Phase("fan")
    BY <1>1, <1>4 DEF IInv, Placed
<1>6. ~ Returned
    BY <1>5, PhaseFacts DEF IInv
<1>7. Service \in STRING
    <2>1. batch \in Seq(STRING) /\ Len(batch) \in Nat
        BY GithubAssumption, LenProperties DEF IInv, TypeOK
    <2>2. svc \in 1 .. Len(batch)
        BY <1>6, <2>1 DEF IInv, TypeOK, Returned
    <2> QED
        BY <2>1, <2>2, ElementOfSeq DEF Service
<1>8. r \in Repos => cache.listed \/ Relisted(response)
    BY <1>4, PhaseFacts DEF IInv, Listed
<1>9. /\ Head(worker[r].calls) \in OrgCalls \cup RepoCalls
      /\ Tail(worker[r].calls) \in Seq(OrgCalls \cup RepoCalls)
      /\ Range(worker[r].calls) = Range(Tail(worker[r].calls)) \cup {Head(worker[r].calls)}
    BY <1>1, <1>2, CallsTail
<1>10. r = None => Head(worker[r].calls) \in OrgCalls /\ Tail(worker[r].calls) \in Seq(OrgCalls)
    BY <1>1, <1>3, CallsTail
<1>11. r \in Repos => Tail(worker[r].calls) \in Seq(RepoCalls)
    BY <1>1, <1>4, CallsTail
<1> QED
    BY <1>4, <1>6, <1>7, <1>8, <1>9, <1>10, <1>11, Zenon

\* A call that ends is answered by the entry it adds; the other parts are shown
\* where the entry is known.
LEMMA EndCallInv ==
    ASSUME IInv, NEW r \in Repos \cup {None}, Calling(r), NEW got \in Gots, NEW at \in Nat,
           EndCall(r, got, at), faults' \in Nat, cache' \in CacheState,
           cache'.listed = cache.listed,
           UNCHANGED <<batch, svc, phases, over, world, listing, repos, next, sem>>,
           Truth(cache', response', world), Story(cache', response')
    PROVE  IInv'
<1> DEFINE call == Head(worker[r].calls)
           x == Entry(Service, r, call, got, at)
           new == [worker[r] EXCEPT !.calls = Tail(@), !.attempt = 0]
<1>1. response' = response \cup {x}
    BY DEF EndCall
<1>2. /\ call \in OrgCalls \cup RepoCalls
      /\ Tail(worker[r].calls) \in Seq(OrgCalls \cup RepoCalls)
      /\ r = None => Tail(worker[r].calls) \in Seq(OrgCalls)
      /\ r \in Repos => Tail(worker[r].calls) \in Seq(RepoCalls)
      /\ Range(worker[r].calls) = Range(Tail(worker[r].calls)) \cup {call}
      /\ Service \in STRING /\ ~ Returned
    BY CallFacts
<1>3. /\ x \in Entries /\ x.service = Service /\ x.repo = r /\ x.call = call
    BY <1>2 DEF Entry, Entries
<1>4. worker[r] \in WorkerState
    BY DEF IInv, TypeOK
<1>5. worker' = [worker EXCEPT ![r] = new]
    BY DEF EndCall, IInv, TypeOK
<1>6. /\ new \in WorkerState /\ new.state = worker[r].state /\ new.calls = Tail(worker[r].calls)
    BY <1>2, <1>4 DEF WorkerState
<1> HIDE DEF x, new
<1>7. /\ worker' \in [Repos \cup {None} -> WorkerState] /\ worker'[r] = new
      /\ \A q \in (Repos \cup {None}) \ {r} : worker'[q] = worker[q]
    BY <1>5, <1>6 DEF IInv, TypeOK
<1>8. TypeOK'
    BY <1>1, <1>3, <1>7 DEF IInv, TypeOK
<1>9. Placed'
    BY <1>2, <1>6, <1>7 DEF IInv, Placed, Returned, Phase
<1>10. Listed'
    BY <1>1 DEF IInv, Listed, Left, Relisted
<1>11. /\ \A q \in (Repos \cup {None}) \ {r} : Pending(q)' = Pending(q)
       /\ Pending(r) \subseteq Pending(r)' \cup {call}
       /\ worker'[None].state = worker[None].state
    BY <1>2, <1>6, <1>7 DEF Pending
<1>12. Answered(response', Service, r, call)
    BY <1>1, <1>3 DEF Answered
<1> HIDE DEF call
<1>13. Covered'
    <2> SUFFICES ASSUME Clean(response)' PROVE PastCovered' /\ CurrentCovered'
        BY DEF Covered
    <2>1. Clean(response) /\ PastCovered' /\ CurrentCovered
        BY <1>1, <1>2, PastKept DEF IInv, Covered
    <2>2. Service' = Service /\ Left' = Left /\ Phase("fan")' = Phase("fan")
        BY DEF Service, Left, Phase
    <2>3. ASSUME NEW q \in Repos \cup {None}, NEW c,
                 Answered(response, Service, q, c) \/ c \in Pending(q)
          PROVE  Answered(response', Service, q, c) \/ c \in Pending(q)'
        <3>1. CASE Answered(response, Service, q, c)
            BY <1>1, <3>1, AnsweredGrows
        <3>2. CASE c \in Pending(q)
            BY <1>11, <1>12, <3>2
        <3> QED
            BY <2>3, <3>1, <3>2
    <2>4. \A k \in 1 .. Len(RepoList) : RepoList[k] \in Repos
        BY GithubAssumption, ElementOfSeq
    <2>5. \A s, q, c : Answered(response, s, q, c) => Answered(response', s, q, c)
        BY <1>1, AnsweredGrows
    <2>6. CurrentCovered'
        BY <1>11, <2>1, <2>2, <2>3, <2>4, <2>5 DEF CurrentCovered
    <2> QED
        BY <2>1, <2>6
<1> QED
    BY <1>8, <1>9, <1>10, <1>13 DEF IInv

\* What a request may come back with, and what is made of it.
LEMMA GotFacts ==
    ASSUME NEW r \in Repos \cup {None}, NEW call \in OrgCalls \cup RepoCalls, world \in Nat,
           NEW answer \in Answers(r, call)
    PROVE  LET got == Got(r, call, Outcome(answer))
           IN  /\ got \in Gots
               /\ got = "notice" => <<r, call>> \in Refused
               /\ got \in {"protected", "unprotected"} => call = "protection"
               /\ got \in {"listed", "nobranch"} => call # "protection"
               /\ got = "unprotected" => r \in Hidden \/ ~ ProtectedAt(r, world)
               /\ ReadAt(call, got) \in Nat
               /\ call \in {"protection", "alerts"} /\ got \notin {"notice", "error"} =>
                     ReadAt(call, got) = world
<1> DEFINE o == Outcome(answer)
           got == Got(r, call, o)
           Fine(g) == /\ g \in Gots
                      /\ g = "notice" => <<r, call>> \in Refused
                      /\ g \in {"protected", "unprotected"} => call = "protection"
                      /\ g \in {"listed", "nobranch"} => call # "protection"
                      /\ g = "unprotected" => r \in Hidden \/ ~ ProtectedAt(r, world)
<1>1. o \in {"ok", "refused", "failed"} /\ (o = "refused" => <<r, call>> \in Refused)
    BY DEF Outcome, Answers, Faulty, Retried
<1> HIDE DEF o
<1>2. ASSUME call = "protection" PROVE Fine(got)
    <2>1. got = GotProtection(r, o)
        BY <1>2 DEF Got
    <2>2. CASE o = "ok" /\ ProtectedAt(r, world) /\ r \notin Hidden
        <3>1. got = "protected"
            BY <2>1, <2>2 DEF GotProtection
        <3> HIDE DEF got
        <3> QED
            BY <1>2, <3>1 DEF Gots
    <2>3. CASE o = "ok" /\ (~ ProtectedAt(r, world) \/ r \in Hidden)
        <3>1. got = "unprotected"
            BY <2>1, <2>3 DEF GotProtection
        <3> HIDE DEF got
        <3> QED
            BY <1>2, <2>3, <3>1 DEF Gots
    <2>4. CASE o # "ok"
        <3>1. got = APIError(o)
            BY <2>1, <2>4 DEF GotProtection
        <3>2. got \in {"notice", "error"} /\ (got = "notice" => o = "refused")
            BY <3>1 DEF APIError
        <3> HIDE DEF got
        <3> QED
            BY <1>1, <3>2 DEF Gots
    <2> HIDE DEF Fine, got
    <2> QED
        BY <2>2, <2>3, <2>4
<1>3. ASSUME call # "protection" PROVE Fine(got)
    <2>1. got \in {GotOrganization(o), GotListing(o)}
        BY <1>3 DEF Got
    <2> HIDE DEF got
    <2>2. got \in {"listed", "notice", "error"} /\ (got = "notice" => o = "refused")
        BY <2>1 DEF GotOrganization, GotListing, APIError
    <2> QED
        BY <1>1, <1>3, <2>2 DEF Gots
<1>4. Fine(got)
    BY <1>2, <1>3
<1> HIDE DEF got
<1>5. /\ ReadAt(call, got) \in Nat
      /\ call \in {"protection", "alerts"} /\ got \notin {"notice", "error"} =>
            ReadAt(call, got) = world
    BY DEF ReadAt
<1> QED
    BY <1>4, <1>5 DEF got, o

\* A call that needs no request is answered with what is known, which is true and
\* the story.
LEMMA CallFromCacheInv ==
    ASSUME IInv, NEW r \in Repos \cup {None}, CallFromCache(r)
    PROVE  IInv'
<1> DEFINE call == Head(worker[r].calls)
           hit == Hit(r, call)
           x == Entry(Service, r, call, hit.got, hit.at)
<1>1. /\ Calling(r) /\ hit # NoEntry /\ EndCall(r, hit.got, hit.at)
      /\ UNCHANGED <<batch, svc, phases, over, world, faults, listing, repos, next, sem, cache>>
    BY DEF CallFromCache
<1>2. /\ r = None => call \in OrgCalls
      /\ r \in Repos => cache.listed \/ Relisted(response)
    BY <1>1, CallFacts
<1>3. /\ r \in Repos /\ r # None
      /\ \/ call = "protection" /\ hit = KnownProtection(cache, r)
         \/ call = "alerts" /\ hit = cache.alerts[r]
    <2>1. r # None
        BY <1>1, <1>2 DEF Hit, OrgCalls
    <2> QED
        BY <1>1, <2>1 DEF Hit
<1>4. cache \in CacheState /\ faults \in Nat
    BY DEF IInv, TypeOK
<1> HIDE DEF hit, call
<1>5. hit \in [got : Gots, at : Nat]
    <2>1. NoBranch \in [got : Gots, at : Nat]
        BY DEF NoBranch, Gots
    <2>2. cache.protection[r] \in Known /\ cache.alerts[r] \in Known
        BY <1>3, <1>4 DEF CacheState
    <2>3. hit \in {NoBranch, cache.protection[r], cache.alerts[r]}
        BY <1>3 DEF KnownProtection
    <2> QED
        BY <1>1, <2>1, <2>2, <2>3 DEF Known
<1>6. /\ x.repo = r /\ x.call = call /\ x.got = hit.got /\ x.at = hit.at
      /\ response' = response \cup {x}
    BY <1>1 DEF Entry, EndCall, call
<1> HIDE DEF x
<1>7. hit = [got |-> x.got, at |-> x.at]
    BY <1>5, <1>6
<1>8. TrueOf(r, call, hit, world)
    <2>1. TrueOf(r, "protection", NoBranch, world)
        BY DEF TrueOf, NoBranch
    <2>2. /\ TrueOf(r, "protection", cache.protection[r], world)
          /\ TrueOf(r, "alerts", cache.alerts[r], world)
        BY <1>3 DEF IInv, Truth
    <2> QED
        BY <1>3, <2>1, <2>2 DEF KnownProtection
<1>9. Truth(cache, response', world)
    <2>1. TrueOf(x.repo, x.call, x, world)
        BY <1>6, <1>8 DEF TrueOf
    <2> QED
        BY <1>6, <2>1, TruthAdd DEF IInv
<1>10. Story(cache, response')
    <2>1. Relisted(response) => Relisted(response')
        BY <1>6 DEF Relisted
    <2> QED
        BY <1>2, <1>3, <1>6, <1>7, <2>1 DEF IInv, Story
<1>11. hit.got \in Gots /\ hit.at \in Nat
    BY <1>5
<1> QED
    BY <1>1, <1>4, <1>9, <1>10, <1>11, EndCallInv

\* An attempt that is retried changes nothing but its count.
LEMMA RetryInv ==
    ASSUME IInv, NEW r \in Repos \cup {None}, worker' = [worker EXCEPT ![r].attempt = @ + 1],
           faults' \in Nat,
           UNCHANGED <<batch, svc, phases, over, world, listing, repos, next, sem, cache, response>>
    PROVE  IInv'
<1> DEFINE new == [worker[r] EXCEPT !.attempt = @ + 1]
<1>1. worker' = [worker EXCEPT ![r] = new] /\ worker[r] \in WorkerState
    BY DEF IInv, TypeOK
<1>2. new \in WorkerState /\ new.state = worker[r].state /\ new.calls = worker[r].calls
    BY <1>1 DEF WorkerState
<1> HIDE DEF new
<1>3. /\ worker' \in [Repos \cup {None} -> WorkerState]
      /\ \A q \in Repos \cup {None} : /\ worker'[q].state = worker[q].state
                                     /\ worker'[q].calls = worker[q].calls
    BY <1>1, <1>2 DEF IInv, TypeOK
<1>4. TypeOK'
    BY <1>3 DEF IInv, TypeOK
<1>5. Placed'
    BY <1>3 DEF IInv, Placed, Returned, Phase
<1>6. \A q \in Repos \cup {None} : Pending(q)' = Pending(q)
    BY <1>3 DEF Pending
<1>7. \A k \in 1 .. Len(RepoList) : RepoList[k] \in Repos
    BY GithubAssumption, ElementOfSeq
<1>8. Covered'
    BY <1>3, <1>6, <1>7
    DEF IInv, Covered, Clean, PastCovered, CurrentCovered, Returned, Phase, Left, Service
<1> QED
    BY <1>4, <1>5, <1>8 DEF IInv, Listed, Left

\* A request that is not retried: its answer is true, and what it tells of
\* protection and alerts goes to the cache, which had nothing about it.
LEMMA AttemptInv ==
    ASSUME IInv, NEW r \in Repos \cup {None}, Attempt(r)
    PROVE  IInv'
<1> DEFINE call == Head(worker[r].calls)
<1>1. /\ Calling(r) /\ Hit(r, call) = NoEntry
      /\ UNCHANGED <<batch, svc, phases, over, world, listing, repos, next, sem>>
    BY DEF Attempt
<1>2. PICK answer \in Answers(r, call) :
        /\ CountFault(answer)
        /\ IF Retries(answer, worker[r].attempt)
           THEN /\ worker' = [worker EXCEPT ![r].attempt = @ + 1]
                /\ UNCHANGED <<cache, response>>
           ELSE /\ EndCall(r, Got(r, call, Outcome(answer)),
                           ReadAt(call, Got(r, call, Outcome(answer))))
                /\ cache' = Cached(r, call, Got(r, call, Outcome(answer)))
    BY Zenon DEF Attempt
<1>3. faults' \in Nat
    BY <1>2 DEF CountFault, IInv, TypeOK
<1>4. CASE Retries(answer, worker[r].attempt)
    BY <1>1, <1>2, <1>3, <1>4, RetryInv
<1>5. CASE ~ Retries(answer, worker[r].attempt)
    <2> DEFINE got == Got(r, call, Outcome(answer))
               at == ReadAt(call, got)
               x == Entry(Service, r, call, got, at)
    <2>1. EndCall(r, got, at) /\ cache' = Cached(r, call, got)
        BY <1>2, <1>5
    <2>2. /\ call \in OrgCalls \cup RepoCalls /\ (r = None => call \in OrgCalls)
          /\ r \in Repos => cache.listed \/ Relisted(response)
        BY <1>1, CallFacts
    <2>3. world \in Nat /\ cache \in CacheState /\ response \subseteq Entries
        BY DEF IInv, TypeOK
    <2>4. /\ got \in Gots
          /\ got = "notice" => <<r, call>> \in Refused
          /\ got \in {"protected", "unprotected"} => call = "protection"
          /\ got \in {"listed", "nobranch"} => call # "protection"
          /\ got = "unprotected" => r \in Hidden \/ ~ ProtectedAt(r, world)
          /\ at \in Nat
          /\ call \in {"protection", "alerts"} /\ got \notin {"notice", "error"} => at = world
        BY <2>2, <2>3, GotFacts
    <2>5. /\ x.repo = r /\ x.call = call /\ x.got = got /\ x.at = at
          /\ response' = response \cup {x}
        BY <2>1 DEF Entry, EndCall
    <2>6. call \in {"protection", "alerts"} => r \in Repos /\ r # None
        BY <2>2 DEF OrgCalls
    <2>7. /\ call = "protection" => cache.protection[r] = NoEntry /\ r \notin Branchless
          /\ call = "alerts" => cache.alerts[r] = NoEntry
        <3>1. NoBranch # NoEntry
            BY DEF NoBranch, NoEntry
        <3> QED
            BY <1>1, <2>6, <3>1 DEF Hit, KnownProtection
    <2> DEFINE k == [got |-> got, at |-> at]
    <2>8. /\ cache' \in CacheState /\ cache'.listed = cache.listed
          /\ \A q \in Repos :
                /\ cache'.protection[q] = IF call = "protection" /\ q = r
                                             /\ got \in {"protected", "unprotected"}
                                          THEN k ELSE cache.protection[q]
                /\ cache'.alerts[q] = IF call = "alerts" /\ q = r /\ got # "error"
                                      THEN k ELSE cache.alerts[q]
        <3> HIDE DEF got, at, call, k
        <3>1. k \in Known /\ k = [got |-> got, at |-> at]
            BY <2>4 DEF Known, k
        <3>2. CASE call = "protection" /\ got \in {"protected", "unprotected"}
            <4>1. cache' = [cache EXCEPT !.protection[r] = k]
                <5>1. at = world
                    BY <2>4, <3>2
                <5> QED
                    BY <2>1, <3>1, <3>2, <5>1 DEF Cached
            <4> QED
                BY <2>3, <2>6, <3>1, <3>2, <4>1 DEF CacheState
        <3>3. CASE call = "alerts" /\ got # "error"
            <4>1. cache' = [cache EXCEPT !.alerts[r] = k]
                <5>1. k = [got |-> got, at |-> ReadAt(call, got)]
                    BY <3>1 DEF at
                <5> QED
                    BY <2>1, <3>3, <5>1 DEF Cached
            <4> QED
                BY <2>3, <2>6, <3>1, <3>3, <4>1 DEF CacheState
        <3>4. CASE /\ ~ (call = "protection" /\ got \in {"protected", "unprotected"})
                   /\ ~ (call = "alerts" /\ got # "error")
            <4>1. cache' = cache
                BY <2>1, <3>4 DEF Cached
            <4> QED
                BY <2>3, <3>4, <4>1
        <3> QED
            BY <3>2, <3>3, <3>4
    <2>9. k.got = got /\ k.at = at
        OBVIOUS
    <2> HIDE DEF got, at, call, x, k
    <2>10. TrueOf(r, call, k, world) /\ TrueOf(x.repo, x.call, x, world)
        BY <2>3, <2>4, <2>5, <2>7, <2>9 DEF TrueOf
    <2>11. Truth(cache', response, world)
        BY <2>6, <2>8, <2>10 DEF IInv, Truth
    <2>12. Truth(cache', response', world)
        BY <2>5, <2>10, <2>11, TruthAdd
    <2>13. Story(cache', response')
        <3>1. Relisted(response') => Relisted(response)
            BY <2>2, <2>5 DEF Relisted, OrgCalls, RepoCalls
        <3>2. \A e \in response : [got |-> e.got, at |-> e.at] # NoEntry
            BY <2>3 DEF Entries, Gots, NoEntry
        <3>3. ASSUME NEW e \in response, e.call = "alerts", Told(e)
              PROVE  e.repo \in Repos /\ cache'.alerts[e.repo] = [got |-> e.got, at |-> e.at]
            BY <2>7, <2>8, <3>2, <3>3 DEF IInv, Story
        <3>4. ASSUME ~ Relisted(response), NEW e \in response, e.call = "protection", Told(e)
              PROVE  /\ e.repo \in Repos
                     /\ KnownProtection(cache', e.repo) = [got |-> e.got, at |-> e.at]
            BY <2>7, <2>8, <3>2, <3>4 DEF IInv, Story, KnownProtection
        <3>5. ASSUME x.call = "alerts", Told(x)
              PROVE  x.repo \in Repos /\ cache'.alerts[x.repo] = [got |-> x.got, at |-> x.at]
            BY <2>5, <2>6, <2>8, <3>5 DEF Told, k
        <3>6. ASSUME x.call = "protection", Told(x)
              PROVE  /\ x.repo \in Repos
                     /\ KnownProtection(cache', x.repo) = [got |-> x.got, at |-> x.at]
            <4>1. got \in {"protected", "unprotected"}
                BY <2>4, <2>5, <3>6 DEF Told, Gots
            <4> QED
                BY <2>5, <2>6, <2>7, <2>8, <3>6, <4>1 DEF k, KnownProtection
        <3>7. cache'.listed \/ Relisted(response') \/ \A e \in response' : e.call # "protection"
            BY <2>2, <2>5, <2>6, <2>8 DEF IInv, Story, Relisted
        <3>8. Relisted(response) => Relisted(response')
            BY <2>5 DEF Relisted
        <3> QED
            BY <2>5, <3>3, <3>4, <3>5, <3>6, <3>7, <3>8 DEF Story
    <2> QED
        BY <1>1, <1>3, <2>1, <2>4, <2>8, <2>12, <2>13, EndCallInv
<1> QED
    BY <1>4, <1>5

\* A request whose context is over is an error.
LEMMA AttemptOverInv ==
    ASSUME IInv, NEW r \in Repos \cup {None}, AttemptOver(r)
    PROVE  IInv'
<1> DEFINE call == Head(worker[r].calls)
           x == Entry(Service, r, call, "error", 0)
<1>1. /\ Calling(r) /\ EndCall(r, "error", 0)
      /\ UNCHANGED <<batch, svc, phases, over, world, faults, listing, repos, next, sem, cache>>
    BY DEF AttemptOver
<1>2. /\ call \in OrgCalls \cup RepoCalls /\ (r = None => call \in OrgCalls)
      /\ r \in Repos => cache.listed \/ Relisted(response)
    BY <1>1, CallFacts
<1>3. cache \in CacheState /\ faults \in Nat /\ "error" \in Gots
    BY DEF IInv, TypeOK, Gots
<1>4. x.call = call /\ x.got = "error" /\ response' = response \cup {x}
    BY <1>1 DEF Entry, EndCall
<1> HIDE DEF x, call
<1>5. Truth(cache, response', world)
    BY <1>4, TruthAdd DEF IInv, TrueOf
<1>6. Story(cache, response')
    <2>1. call = "protection" => cache.listed \/ Relisted(response)
        BY <1>2 DEF OrgCalls
    <2> QED
        BY <1>4, <2>1, StoryAdd DEF IInv, Told
<1> QED
    BY <1>1, <1>3, <1>5, <1>6, EndCallInv

(***************************************************************************)
(* The theorems.                                                           *)
(***************************************************************************)

\* The invariant holds before the first request.
LEMMA InitInv == Init => IInv
<1> SUFFICES ASSUME Init PROVE IInv
    OBVIOUS
<1>1. /\ batch \in Seq(STRING) /\ Len(batch) \in Nat \ {0}
    BY GithubAssumption, LenProperties, EmptySeq DEF Init
<1>2. Len(RepoList) \in Nat
    BY GithubAssumption, LenProperties
<1>3. /\ IdleWorker \in WorkerState /\ IdleWorker.state = "off" /\ IdleWorker.calls = <<>>
    BY DEF IdleWorker, WorkerState
<1>4. NoListing \in ListingState /\ NoListing.via = "none" /\ NoEntry \in Known
    BY <1>2 DEF NoListing, ListingState, Known
<1>5. phases = Phases(Service) /\ phases \in PhaseLists
    BY StepsFacts DEF Init
<1>6. cache \in CacheState
    BY <1>4 DEF Init, CacheState
<1>7. TypeOK
    <2>1. batch \in Batches /\ svc \in 1 .. Len(batch) + 1 /\ repos \in 0 .. Len(RepoList)
        BY <1>1, <1>2 DEF Init
    <2>2. worker \in [Repos \cup {None} -> WorkerState] /\ listing \in ListingState
        BY <1>3, <1>4 DEF Init
    <2>3. world \in Nat /\ faults \in Nat /\ next \in Nat \ {0} /\ sem \in Nat
        BY DEF Init
    <2>4. over \in BOOLEAN /\ response \subseteq Entries
        BY Zenon DEF Init
    <2> QED
        BY <1>5, <1>6, <2>1, <2>2, <2>3, <2>4 DEF TypeOK
<1>8. ~ Returned
    BY <1>1 DEF Init, Returned
<1>9. /\ \A r \in Repos \cup {None} : worker[r] = IdleWorker
      /\ <<>> \in Seq(OrgCalls) /\ <<>> \in Seq(RepoCalls)
    BY DEF Init
<1>10. Placed
    BY <1>3, <1>4, <1>8, <1>9 DEF Init, Placed
<1>11. Truth(cache, response, world) /\ Story(cache, response)
    BY DEF Init, Truth, TrueOf, Story, NoEntry
<1>12. /\ "fan" \in Left => "list" \in Left
       /\ "org" \notin Left => Range(StepsOf(Service).org) = {}
       /\ "fan" \notin Left => Range(StepsOf(Service).repo) = {}
    BY <1>5, StepsFacts, ShortRanges DEF Left
<1>13. Covered
    <2>1. PastCovered
        BY DEF Init, PastCovered
    <2>2. worker[None].state # "run" /\ next = 1
        BY <1>3, <1>9 DEF Init
    <2>3. CurrentCovered
        BY <1>12, <2>2 DEF CurrentCovered
    <2> QED
        BY <2>1, <2>3 DEF Covered
<1> QED
    BY <1>7, <1>10, <1>11, <1>12, <1>13 DEF IInv, Listed

\* Every step keeps the invariant.
LEMMA NextInv == IInv /\ [Next]_vars => IInv'
<1> SUFFICES ASSUME IInv, [Next]_vars PROVE IInv'
    OBVIOUS
<1>1. CASE Main
    BY <1>1, NextServiceInv, ListReposInv, ListPageInv, ListPageOverInv, StartOrgCallsInv,
       EndOrgCallsInv, StartRepoInv, BreakRepoLoopInv, WaitReposInv DEF Main
<1>2. ASSUME NEW r \in Repos \cup {None}, Worker(r) PROVE IInv'
    BY <1>2, CallFromCacheInv, AttemptInv, AttemptOverInv, EndRepoInv DEF Worker
<1>3. CASE UNCHANGED vars
    BY <1>3
    DEF vars, IInv, TypeOK, Placed, Listed, Covered, Clean, PastCovered, CurrentCovered, Returned,
        Phase, Left, Pending, Service
<1> QED
    BY <1>1, <1>2, <1>3, ContextOverInv, OrganisationChangesInv DEF Next

\* The invariant holds in every state of a batch.
THEOREM Invariance == Spec => []IInv
BY InitInv, NextInv, PTL DEF Spec

\* Every variable has its type: among others a service is always at one of the
\* phases StepsOf gives some service, and a listing is a prefix of the list.
THEOREM TypeCorrect == Spec => []TypeOK
<1>1. IInv => TypeOK
    BY DEF IInv
<1> QED
    BY <1>1, Invariance, PTL

\* A notice of appendAPIError, new or from the cache, is about what GitHub
\* refuses, never about a call that RoundTrip gave up.
THEOREM NoticesAreTrue == Spec => []NoticesAreRefusals
<1>1. IInv => NoticesAreRefusals
    BY DEF IInv, Truth, TrueOf, NoticesAreRefusals
<1> QED
    BY <1>1, Invariance, PTL

\* A repository reported as unprotected has a default branch and was so when
\* GraphQL or REST read it, unless GitHub hides its protection from the token:
\* checkBranchProtection takes any 404, and the GraphQL listing any null rule,
\* for no protection.
THEOREM UnprotectedIsTrue == Spec => []FindingsAreTrue
<1>1. IInv => FindingsAreTrue
    BY DEF IInv, Truth, TrueOf, FindingsAreTrue
<1> QED
    BY <1>1, Invariance, PTL

\* The services of a batch agree about alerts, and about protection as long as
\* no listing has failed, whatever changes between their calls.
THEOREM BatchTellsOneStory == Spec => []OneStory
<1>1. IInv => OneStory
    <2> DEFINE relisted == \E e \in response : e.call = "repositories"
               shared == {"alerts"} \cup (IF relisted THEN {} ELSE {"protection"})
    <2> SUFFICES ASSUME IInv, NEW e \in response, NEW f \in response,
                        e.repo = f.repo, e.call = f.call, e.call \in shared,
                        {e.got, f.got} \cap {"notice", "error"} = {}
                 PROVE  e.got = f.got /\ e.at = f.at
        BY DEF OneStory
    <2>1. Told(e) /\ Told(f) /\ Story(cache, response)
        BY DEF Told, IInv
    <2>2. [got |-> e.got, at |-> e.at] = [got |-> f.got, at |-> f.at]
        <3>1. CASE e.call = "alerts"
            <4>1. \A x \in response : x.call = "alerts" /\ Told(x) =>
                      cache.alerts[x.repo] = [got |-> x.got, at |-> x.at]
                BY <2>1 DEF Story
            <4> QED
                BY <2>1, <3>1, <4>1
        <3>2. CASE e.call = "protection" /\ ~ Relisted(response)
            <4>1. \A x \in response : x.call = "protection" /\ Told(x) =>
                      KnownProtection(cache, x.repo) = [got |-> x.got, at |-> x.at]
                BY <2>1, <3>2 DEF Story
            <4> QED
                BY <2>1, <3>2, <4>1
        <3>3. e.call = "alerts" \/ (e.call = "protection" /\ ~ Relisted(response))
            BY DEF Relisted
        <3> QED
            BY <3>1, <3>2, <3>3
    <2> QED
        BY <2>2
<1> QED
    BY <1>1, Invariance, PTL

\* A batch that ends in time and without an error has an answer for every call
\* of every service for every repository, and its notices are refusals.
THEOREM CleanIsComplete == Spec => []CleanBatchIsComplete
<1>1. IInv => CleanBatchIsComplete
    <2> SUFFICES ASSUME IInv, Returned, ~ over, ~ HasErrors, NEW s \in Range(batch),
                        NEW call \in Asked(s)
                 PROVE  \E e \in response :
                            /\ <<e.service, e.repo, e.call>> = <<s, call[1], call[2]>>
                            /\ e.got = "notice" => call \in Refused
        BY DEF CleanBatchIsComplete
    <2>1. PastCovered
        BY DEF IInv, Covered, Clean, HasErrors
    <2>2. PICK i \in DOMAIN batch : batch[i] = s
        BY DEF Range
    <2>3. i \in 1 .. svc - 1
        <3>1. batch \in Seq(STRING) /\ Len(batch) \in Nat
            BY GithubAssumption, LenProperties DEF IInv, TypeOK
        <3>2. svc = Len(batch) + 1
            BY <3>1 DEF IInv, TypeOK, Returned
        <3> QED
            BY <2>2, <3>1, <3>2, LenProperties
    <2>4. PICK e \in response : e.service = s /\ e.repo = call[1] /\ e.call = call[2]
        BY <2>1, <2>2, <2>3 DEF PastCovered, Answered
    <2>5. call = <<call[1], call[2]>>
        BY DEF Asked
    <2>6. e.got = "notice" => call \in Refused
        <3>1. TrueOf(e.repo, e.call, e, world)
            BY DEF IInv, Truth
        <3> QED
            BY <2>4, <2>5, <3>1 DEF TrueOf
    <2> QED
        BY <2>4, <2>6
<1> QED
    BY <1>1, Invariance, PTL
=============================================================================
