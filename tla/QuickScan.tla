----------------------------- MODULE QuickScan -----------------------------
(***************************************************************************)
(* The quick scan of the terminal interface (internal/tui/app.go).  Update *)
(* handles one message at a time; the commands it returns run on their own *)
(* goroutines and their messages arrive in any order.  A quick scan runs   *)
(* the enabled providers one after the other and then announces its end.   *)
(* Every message carries the number of the round it belongs to, which the  *)
(* code does not see.                                                      *)
(***************************************************************************)
EXTENDS Integers, FiniteSets, Sequences

CONSTANTS
    Enabled,     \* the sorted sequence of enabled providers
    MaxFound,    \* bound: resources a provider scan finds
    MaxRequests  \* bound: how often a quick scan is asked for

ASSUME QuickScanAssumption ==
    /\ Enabled \in Seq(STRING)
    /\ \A i, j \in DOMAIN Enabled : Enabled[i] = Enabled[j] => i = j
    /\ MaxFound \in Nat /\ MaxRequests \in Nat

VARIABLES
    providers,  \* quickScanProviders
    completed,  \* quickScanCompleted
    failures,   \* quickScanErrors: the providers that failed
    scanning,   \* scanning, and with it scanStatus # nil
    resources,  \* scanStatus.Resources
    commands,   \* commands running, and messages not yet handled
    requests,   \* quick scans asked for
    round,      \* history: quick scans begun
    results,    \* history: results[n], who was counted in round n, in order
    open        \* FALSE once the program has quit

vars == <<providers, completed, failures, scanning, resources, commands, requests, round,
          results, open>>

Names == {Enabled[i] : i \in DOMAIN Enabled}

ProviderResult == [provider : Names, found : 0..MaxFound, error : BOOLEAN]

quickScanRunning == completed < Len(providers)

Request(n) == [kind |-> "request", round |-> n]
Scan(n, p) == [kind |-> "scan", round |-> n, provider |-> p]
Completed(n, result) == [kind |-> "completed", round |-> n, result |-> result]
Announce(n, found, failed) ==
    [kind |-> "announce", round |-> n, found |-> found, failed |-> failed]

Init ==
    /\ providers = <<>> /\ completed = 0 /\ failures = <<>>
    /\ scanning = FALSE /\ resources = 0
    /\ commands = {} /\ requests = 0 /\ round = 0
    /\ results = [n \in 1..MaxRequests |-> <<>>]
    /\ open = TRUE

\* The user asks for a quick scan from the menu, whatever is running.
StartQuickScan ==
    /\ open
    /\ requests < MaxRequests
    /\ requests' = requests + 1
    /\ commands' = commands \cup {Request(requests + 1)}
    /\ UNCHANGED <<providers, completed, failures, scanning, resources, round, results, open>>

\* The scan application runs on the command's goroutine.
RunProvider(c, result) ==
    /\ open
    /\ c.kind = "scan"
    /\ result.provider = c.provider
    /\ commands' = (commands \ {c}) \cup {Completed(c.round, result)}
    /\ UNCHANGED <<providers, completed, failures, scanning, resources, requests, round,
                   results, open>>

\* Bug variant: a second quick scan may begin while one is running.
AlwaysFree == TRUE

MayBegin == ~quickScanRunning

\* beginQuickScan refuses while one is running, or without providers.
BeginQuickScan(c) ==
    /\ open
    /\ c.kind = "request"
    /\ \/ /\ MayBegin /\ Enabled # <<>>
          /\ providers' = Enabled /\ completed' = 0 /\ failures' = <<>>
          /\ scanning' = TRUE /\ resources' = 0
          /\ round' = round + 1
          /\ commands' = (commands \ {c}) \cup {Scan(round + 1, Enabled[1])}
       \/ /\ ~MayBegin \/ Enabled = <<>>
          /\ commands' = commands \ {c}
          /\ UNCHANGED <<providers, completed, failures, scanning, resources, round>>
    /\ UNCHANGED <<requests, results, open>>

\* Bug variants: errors are not kept; the provider after next is run.
ForgetError(failed, result) == failed
SkipOne(n) == n + 2

KeepError(failed, result) == IF result.error THEN Append(failed, result.provider) ELSE failed

\* The position of the provider to run after n have completed.
NextProvider(n) == n + 1

\* handleProviderScanComplete: only the provider in flight counts; the next one is
\* run, or finishQuickScan announces the end with what the status shows.
HandleCompleted(c) ==
    LET expected == quickScanRunning /\ providers[completed + 1] = c.result.provider
        failed == KeepError(failures, c.result)
        found == IF scanning THEN resources + c.result.found ELSE 0
        following ==
            IF completed + 1 < Len(providers)
            THEN IF NextProvider(completed + 1) \in DOMAIN providers
                 THEN {Scan(round, providers[NextProvider(completed + 1)])} ELSE {}
            ELSE {Announce(round, found, failed)}
    IN  /\ open
        /\ c.kind = "completed"
        /\ \/ /\ expected
              /\ completed' = completed + 1
              /\ failures' = failed
              /\ resources' = found
              /\ commands' = (commands \ {c}) \cup following
              /\ results' = [results EXCEPT ![round] =
                     Append(@, [provider |-> c.result.provider, error |-> c.result.error])]
           \/ /\ ~expected
              /\ commands' = commands \ {c}
              /\ UNCHANGED <<completed, failures, resources, results>>
        /\ UNCHANGED <<providers, scanning, requests, round, open>>

\* handleScanComplete clears the scan status, whichever scan the message is about.
HandleAnnounce(c) ==
    /\ open
    /\ c.kind = "announce"
    /\ commands' = commands \ {c}
    /\ scanning' = FALSE /\ resources' = 0
    /\ UNCHANGED <<providers, completed, failures, requests, round, results, open>>

\* quit cancels the context of everything running and ends the program.
Quit ==
    /\ open
    /\ open' = FALSE
    /\ commands' = {}
    /\ UNCHANGED <<providers, completed, failures, scanning, resources, requests, round, results>>

Update(c) == BeginQuickScan(c) \/ HandleCompleted(c) \/ HandleAnnounce(c)

Command(c) == Update(c) \/ \E result \in ProviderResult : RunProvider(c, result)

Next ==
    \/ StartQuickScan
    \/ \E c \in commands : Command(c)
    \/ Quit

\* Commands are goroutines whose scans have deadlines, and the event loop handles
\* every message it is sent.
Fairness == WF_vars(\E c \in commands : Command(c))

Spec == Init /\ [][Next]_vars /\ Fairness

-----------------------------------------------------------------------------
(* Properties *)

Messages ==
    [kind : {"request"}, round : Nat]
        \cup [kind : {"scan"}, round : Nat, provider : Names]
        \cup [kind : {"completed"}, round : Nat, result : ProviderResult]
        \cup [kind : {"announce"}, round : Nat, found : Nat, failed : Seq(Names)]

\* The type invariant; the counters respect the assertions of quickScanProgress.
TypeOK ==
    /\ providers \in {<<>>, Enabled}
    /\ completed \in 0..Len(providers)
    /\ failures \in Seq(Names) /\ Len(failures) <= completed
    /\ scanning \in BOOLEAN /\ open \in BOOLEAN
    /\ resources \in 0..MaxFound * Len(Enabled)
    /\ commands \subseteq Messages
    /\ requests \in 0..MaxRequests /\ round \in 0..requests
    /\ results \in [1..MaxRequests -> Seq([provider : Names, error : BOOLEAN])]

InFlight == {c \in commands : c.kind \in {"scan", "completed"}}

\* Providers run one at a time: there is one provider scan in flight while a quick
\* scan runs and none otherwise, however often quick scans are asked for, and it is
\* the one handleProviderScanComplete waits for.
OneProviderInFlight ==
    open => /\ Cardinality(InFlight) = IF quickScanRunning THEN 1 ELSE 0
            /\ \A c \in InFlight :
                  /\ c.round = round
                  /\ (IF c.kind = "scan" THEN c.provider ELSE c.result.provider)
                         = providers[completed + 1]

\* When a quick scan is announced as complete, every enabled provider was scanned
\* in it exactly once, in order, and the failures announced are the ones of that
\* round.
AnnouncedRoundsAreExact ==
    \A c \in commands : c.kind = "announce" =>
        /\ [i \in DOMAIN results[c.round] |-> results[c.round][i].provider] = Enabled
        /\ \A i \in DOMAIN Enabled :
              results[c.round][i].error <=> \E j \in DOMAIN c.failed : c.failed[j] = Enabled[i]

\* Every quick scan ends, unless the program quits first.
QuickScanEnds == quickScanRunning ~> (~quickScanRunning \/ ~open)
=============================================================================
