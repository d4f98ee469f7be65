-------------------------- MODULE QuickScanProofs --------------------------
(***************************************************************************)
(* Proofs about the quick scan of the terminal interface, for any enabled  *)
(* providers and any number of requests.                                   *)
(*                                                                         *)
(* The invariant says of the message in flight which provider it is about, *)
(* of the current round that the results are those of the providers        *)
(* counted so far, and of every announcement that its round is over.  A    *)
(* round begins only with a request, which keeps the rounds within the     *)
(* requests.                                                               *)
(***************************************************************************)
EXTENDS QuickScan, FiniteSetTheorems, TLAPS

(***************************************************************************)
(* The inductive invariant.                                                *)
(***************************************************************************)
Results == Seq([provider : Names, error : BOOLEAN])

Typed ==
    /\ providers \in {<<>>, Enabled}
    /\ completed \in 0..Len(providers)
    /\ failures \in Seq(Names) /\ Len(failures) <= completed
    /\ scanning \in BOOLEAN /\ open \in BOOLEAN
    /\ commands \subseteq Messages
    /\ requests \in 0..MaxRequests /\ round \in Nat
    /\ results \in [1..MaxRequests -> Results]

\* The status counts at most MaxFound resources for each provider counted.
Shown == resources \in 0..MaxFound * completed

Pending == {c \in commands : c.kind = "request"}

\* Every round took a request.
Budget == IsFiniteSet(Pending) /\ round + Cardinality(Pending) <= requests

Flying(c) == c.kind \in {"scan", "completed"}

ProviderOf(c) == IF c.kind = "scan" THEN c.provider ELSE c.result.provider

\* The provider scan in flight is the one of the provider waited for, and there
\* is exactly one while a quick scan runs.
Flight ==
    /\ \A c \in commands : Flying(c) =>
          /\ completed < Len(providers) /\ c.round = round
          /\ ProviderOf(c) = providers[completed + 1]
    /\ \A c, d \in commands : Flying(c) /\ Flying(d) => c = d
    /\ open /\ completed < Len(providers) => \E c \in commands : Flying(c)

\* Who was counted in a round: the first n providers, failed as listed.
Counted(counted, n, failed) ==
    /\ Len(counted) = n
    /\ \A i \in 1..n : counted[i].provider = Enabled[i]
    /\ \A i \in 1..n : counted[i].error <=> \E j \in DOMAIN failed : failed[j] = Enabled[i]
    /\ \A j \in DOMAIN failed : \E i \in 1..n : failed[j] = Enabled[i]

\* The current round has counted the providers completed, later ones nobody.
Recorded ==
    /\ providers # <<>> => round # 0
    /\ round # 0 => Counted(results[round], completed, failures)
    /\ \A n \in 1..MaxRequests : n > round => results[n] = <<>>

\* An announced round is over and has counted everybody.
Announced ==
    \A c \in commands : c.kind = "announce" =>
        /\ c.round \in 1..round
        /\ c.round = round => completed >= Len(providers)
        /\ Counted(results[c.round], Len(Enabled), c.failed)

IInv == Typed /\ Shown /\ Budget /\ Flight /\ Recorded /\ Announced

-----------------------------------------------------------------------------
(* Lemmas about the messages and the counting *)

\* Enabled is a sequence of distinct names.
LEMMA EnabledFacts ==
    /\ Enabled \in Seq(Names) /\ Len(Enabled) \in Nat
    /\ \A i \in 1..Len(Enabled) : Enabled[i] \in Names
    /\ \A i, j \in 1..Len(Enabled) : Enabled[i] = Enabled[j] => i = j
    /\ MaxFound \in Nat /\ MaxRequests \in Nat
BY QuickScanAssumption DEF Names

\* The messages are told apart by their kind.
LEMMA MessageFacts ==
    /\ \A n \in Nat : Request(n) \in Messages
    /\ \A n \in Nat, p \in Names : Scan(n, p) \in Messages
    /\ \A n \in Nat, r \in ProviderResult : Completed(n, r) \in Messages
    /\ \A n, f \in Nat, q \in Seq(Names) : Announce(n, f, q) \in Messages
BY DEF Messages, Request, Scan, Completed, Announce

\* What a message carries follows from its kind.
LEMMA PayloadFacts ==
    \A c \in Messages :
        /\ c.round \in Nat
        /\ c.kind = "scan" => c.provider \in Names
        /\ c.kind = "completed" => c.result \in ProviderResult
        /\ c.kind = "announce" => c.failed \in Seq(Names)
BY DEF Messages

\* Removing a message, or replacing it by one that is no request, leaves no
\* more requests pending.
LEMMA PendingShrinks ==
    ASSUME IsFiniteSet(Pending), NEW c \in commands, NEW new,
           commands' = (commands \ {c}) \cup new, \A d \in new : d.kind # "request"
    PROVE  /\ IsFiniteSet(Pending') /\ Cardinality(Pending') \in Nat
           /\ Cardinality(Pending') =
                 IF c.kind = "request" THEN Cardinality(Pending) - 1 ELSE Cardinality(Pending)
<1>1. Pending' = Pending \ {c}
    BY DEF Pending
<1>2. c \in Pending <=> c.kind = "request"
    BY DEF Pending
<1> QED
    BY <1>1, <1>2, FS_RemoveElement, FS_CardinalityType

\* KeepError and the record of a result carry the count from n to n + 1.
LEMMA CountOneMore ==
    ASSUME NEW counted \in Results, NEW failed \in Seq(Names), NEW n \in Nat,
           n < Len(Enabled), Counted(counted, n, failed),
           NEW result \in ProviderResult, result.provider = Enabled[n + 1]
    PROVE  Counted(Append(counted, [provider |-> result.provider, error |-> result.error]),
                   n + 1, KeepError(failed, result))
<1> DEFINE rec == [provider |-> result.provider, error |-> result.error]
           more == Append(counted, rec)
           kept == KeepError(failed, result)
<1>1. /\ result.provider \in Names /\ result.error \in BOOLEAN
      /\ rec.provider = Enabled[n + 1] /\ rec.error = result.error
    BY DEF ProviderResult
<1>2. rec \in [provider : Names, error : BOOLEAN]
    BY <1>1
<1> HIDE DEF rec
<1>3. /\ Len(more) = n + 1 /\ more[n + 1] = rec
      /\ \A i \in 1..n : more[i] = counted[i]
    BY <1>2 DEF Results, Counted
<1>4. CASE result.error
    <2>1. kept = Append(failed, result.provider)
        BY <1>4 DEF KeepError
    <2>2. /\ DOMAIN kept = 1..Len(failed) + 1 /\ DOMAIN failed = 1..Len(failed)
          /\ Len(failed) \in Nat /\ kept[Len(failed) + 1] = Enabled[n + 1]
          /\ \A j \in 1..Len(failed) : kept[j] = failed[j]
        BY <2>1, <1>1
    <2> HIDE DEF more, kept
    <2>3. \A i \in 1..n + 1 : more[i].provider = Enabled[i]
        BY <1>1, <1>3 DEF Counted
    <2>4. \A i \in 1..n : more[i].error <=> \E j \in DOMAIN kept : kept[j] = Enabled[i]
        <3> SUFFICES ASSUME NEW i \in 1..n
                     PROVE  more[i].error <=> \E j \in DOMAIN kept : kept[j] = Enabled[i]
            OBVIOUS
        <3>1. Enabled[n + 1] # Enabled[i]
            BY EnabledFacts
        <3>2. more[i].error <=> \E j \in DOMAIN failed : failed[j] = Enabled[i]
            BY <1>3 DEF Counted
        <3> QED
            BY <2>2, <3>1, <3>2
    <2>5. more[n + 1].error /\ \E j \in DOMAIN kept : kept[j] = Enabled[n + 1]
        <3>1. more[n + 1].error
            BY <1>1, <1>3, <1>4
        <3>2. Len(failed) + 1 \in DOMAIN kept
            BY <2>2
        <3> QED
            BY <2>2, <3>1, <3>2
    <2>6. \A j \in DOMAIN kept : \E i \in 1..n + 1 : kept[j] = Enabled[i]
        BY <2>2 DEF Counted
    <2>7. \A i \in 1..n + 1 : more[i].error <=> \E j \in DOMAIN kept : kept[j] = Enabled[i]
        BY <2>4, <2>5
    <2>8. Counted(more, n + 1, kept)
        BY <1>3, <2>3, <2>6, <2>7 DEF Counted
    <2> QED
        BY <2>8 DEF more, kept, rec
<1>5. CASE ~ result.error
    <2>1. kept = failed
        BY <1>5 DEF KeepError
    <2> HIDE DEF more, kept
    <2>2. \A i \in 1..n + 1 : more[i].provider = Enabled[i]
        BY <1>1, <1>3 DEF Counted
    <2>3. ~ \E j \in DOMAIN kept : kept[j] = Enabled[n + 1]
        <3> SUFFICES ASSUME NEW j \in DOMAIN failed, failed[j] = Enabled[n + 1] PROVE FALSE
            BY <2>1
        <3>1. PICK i \in 1..n : failed[j] = Enabled[i]
            BY DEF Counted
        <3>2. i \in 1..Len(Enabled) /\ n + 1 \in 1..Len(Enabled) /\ i # n + 1
            BY EnabledFacts
        <3> QED
            BY <3>1, <3>2, EnabledFacts
    <2>4. ~ more[n + 1].error
        BY <1>1, <1>3, <1>5
    <2>5. \A i \in 1..n + 1 : more[i].error <=> \E j \in DOMAIN kept : kept[j] = Enabled[i]
        <3> SUFFICES ASSUME NEW i \in 1..n + 1
                     PROVE  more[i].error <=> \E j \in DOMAIN kept : kept[j] = Enabled[i]
            OBVIOUS
        <3>1. CASE i = n + 1
            BY <2>3, <2>4, <3>1
        <3>2. CASE i \in 1..n
            BY <1>3, <2>1, <3>2 DEF Counted
        <3> QED
            BY <3>1, <3>2
    <2>6. \A j \in DOMAIN kept : \E i \in 1..n + 1 : kept[j] = Enabled[i]
        BY <2>1 DEF Counted
    <2>7. Counted(more, n + 1, kept)
        BY <1>3, <2>2, <2>5, <2>6 DEF Counted
    <2> QED
        BY <2>7 DEF more, kept, rec
<1> QED
    BY <1>4, <1>5

\* A round that has counted everybody is exact.
LEMMA CountedIsExact ==
    ASSUME NEW counted \in Results, NEW failed, Counted(counted, Len(Enabled), failed)
    PROVE  /\ [i \in DOMAIN counted |-> counted[i].provider] = Enabled
           /\ \A i \in DOMAIN Enabled :
                 counted[i].error <=> \E j \in DOMAIN failed : failed[j] = Enabled[i]
<1>1. DOMAIN counted = 1..Len(Enabled) /\ DOMAIN Enabled = 1..Len(Enabled)
    BY EnabledFacts DEF Counted, Results
<1>2. \A i \in 1..Len(Enabled) : counted[i].provider = Enabled[i]
    BY DEF Counted
<1>3. Enabled = [i \in 1..Len(Enabled) |-> Enabled[i]]
    BY EnabledFacts
<1> QED
    BY <1>1, <1>2, <1>3 DEF Counted

-----------------------------------------------------------------------------
(* The actions keep the invariant *)

\* Nothing is in flight at first.
LEMMA InitInv == Init => IInv
<1> SUFFICES ASSUME Init PROVE IInv
    OBVIOUS
<1>1. Typed
    <2>1. <<>> \in Results /\ <<>> \in Seq(Names) /\ Len(<<>>) = 0
        BY DEF Results
    <2>2. results \in [1..MaxRequests -> Results]
        BY <2>1 DEF Init
    <2>3. scanning \in BOOLEAN /\ open \in BOOLEAN
        BY DEF Init
    <2>4. providers = <<>> /\ failures = <<>> /\ completed = 0 /\ requests = 0 /\ round = 0
        BY DEF Init
    <2>5. commands \subseteq Messages
        BY DEF Init
    <2>6. completed \in 0..Len(providers) /\ Len(failures) <= completed
        BY <2>1, <2>4
    <2> QED
        BY <2>1, <2>2, <2>3, <2>4, <2>5, <2>6, EnabledFacts DEF Typed
<1>2. Shown
    BY EnabledFacts DEF Init, Shown
<1>3. Budget
    <2>1. Pending = {}
        BY DEF Init, Pending
    <2> QED
        BY <2>1, FS_EmptySet DEF Init, Budget
<1>4. Flight /\ Announced
    BY DEF Init, Flight, Announced
<1>5. Recorded
    BY DEF Init, Recorded
<1> QED
    BY <1>1, <1>2, <1>3, <1>4, <1>5 DEF IInv

\* A request is one more message, and allows one more round.
LEMMA StartInv ==
    ASSUME IInv, StartQuickScan
    PROVE  IInv'
<1> DEFINE new == Request(requests + 1)
<1>1. /\ requests < MaxRequests /\ requests' = requests + 1
      /\ commands' = commands \cup {new}
      /\ UNCHANGED <<providers, completed, failures, scanning, resources, round, results, open>>
    BY DEF StartQuickScan
<1>2. Typed /\ Shown /\ Budget /\ Flight /\ Recorded /\ Announced
    BY DEF IInv
<1>3. new \in Messages /\ new.kind = "request"
    BY <1>2, MessageFacts DEF Typed, Request
<1> HIDE DEF new
<1>4. Typed'
    BY <1>1, <1>2, <1>3, EnabledFacts DEF Typed
<1>5. Shown' /\ Recorded'
    BY <1>1, <1>2 DEF Shown, Recorded
<1>6. Budget'
    <2>1. Pending' = Pending \cup {new}
        BY <1>1, <1>3 DEF Pending
    <2>2. IsFiniteSet(Pending') /\ Cardinality(Pending') \in Nat /\ Cardinality(Pending) \in Nat
        BY <1>2, <2>1, FS_AddElement, FS_CardinalityType DEF Budget
    <2>3. Cardinality(Pending') <= Cardinality(Pending) + 1
        BY <1>2, <2>1, <2>2, FS_AddElement DEF Budget
    <2> QED
        BY <1>1, <1>2, <2>2, <2>3 DEF Budget, Typed
<1>7. Flight'
    BY <1>1, <1>2, <1>3 DEF Flight, Flying, ProviderOf
<1>8. Announced'
    BY <1>1, <1>2, <1>3 DEF Announced
<1> QED
    BY <1>4, <1>5, <1>6, <1>7, <1>8 DEF IInv

\* The provider scan in flight becomes its result.
LEMMA RunInv ==
    ASSUME IInv, NEW c \in commands, NEW result \in ProviderResult, RunProvider(c, result)
    PROVE  IInv'
<1> DEFINE new == Completed(c.round, result)
<1>1. /\ c.kind = "scan" /\ result.provider = c.provider
      /\ commands' = (commands \ {c}) \cup {new}
      /\ UNCHANGED <<providers, completed, failures, scanning, resources, requests, round,
                     results, open>>
    BY DEF RunProvider
<1>2. Typed /\ Shown /\ Budget /\ Flight /\ Recorded /\ Announced
    BY DEF IInv
<1>3. /\ new \in Messages /\ new.kind = "completed" /\ new.round = c.round
      /\ ProviderOf(new) = ProviderOf(c)
    <2>1. c \in Messages
        BY <1>2 DEF Typed
    <2> QED
        BY <1>1, <2>1, MessageFacts, PayloadFacts DEF Completed, ProviderOf
<1> HIDE DEF new
<1>4. Typed'
    BY <1>1, <1>2, <1>3 DEF Typed
<1>5. Shown' /\ Recorded'
    BY <1>1, <1>2 DEF Shown, Recorded
<1>6. Budget'
    <2>1. Pending' = Pending
        BY <1>1, <1>3 DEF Pending
    <2> QED
        BY <1>1, <1>2, <2>1 DEF Budget
<1>7. Flying(c) /\ Flying(new)
    BY <1>1, <1>3 DEF Flying
<1>8. Flight'
    <2>1. \A d \in commands' : Flying(d) => d = new
        BY <1>1, <1>2, <1>7 DEF Flight
    <2> QED
        BY <1>1, <1>2, <1>3, <1>7, <2>1 DEF Flight
<1>9. Announced'
    BY <1>1, <1>2, <1>3 DEF Announced
<1> QED
    BY <1>4, <1>5, <1>6, <1>8, <1>9 DEF IInv

\* A message that is dropped takes nothing with it.
LEMMA DropInv ==
    ASSUME IInv, NEW c \in commands, ~ Flying(c), commands' = commands \ {c},
           UNCHANGED <<providers, completed, failures, requests, round, results, open>>,
           scanning' \in BOOLEAN, Shown'
    PROVE  IInv'
<1>1. Typed /\ Shown /\ Budget /\ Flight /\ Recorded /\ Announced
    BY DEF IInv
<1>2. Typed'
    BY <1>1 DEF Typed
<1>3. Recorded'
    BY <1>1 DEF Recorded
<1>4. Budget'
    <2>1. Pending' \in SUBSET Pending /\ IsFiniteSet(Pending)
        BY <1>1 DEF Pending, Budget
    <2>2. IsFiniteSet(Pending') /\ Cardinality(Pending') \in Nat
        BY <2>1, FS_Subset, FS_CardinalityType
    <2>3. Cardinality(Pending') <= Cardinality(Pending)
        BY <2>1, FS_Subset
    <2> QED
        BY <1>1, <2>2, <2>3, FS_CardinalityType DEF Budget, Typed
<1>5. Flight'
    BY <1>1 DEF Flight
<1>6. Announced'
    BY <1>1 DEF Announced
<1> QED
    BY <1>2, <1>3, <1>4, <1>5, <1>6 DEF IInv

\* A request is spent on a round that is still empty, or refused.
LEMMA BeginInv ==
    ASSUME IInv, NEW c \in commands, BeginQuickScan(c)
    PROVE  IInv'
<1>1. Typed /\ Shown /\ Budget /\ Flight /\ Recorded /\ Announced
    BY DEF IInv
<1>2. CASE /\ MayBegin /\ Enabled # <<>>
           /\ providers' = Enabled /\ completed' = 0 /\ failures' = <<>>
           /\ scanning' = TRUE /\ resources' = 0
           /\ round' = round + 1
           /\ commands' = (commands \ {c}) \cup {Scan(round + 1, Enabled[1])}
    <2> DEFINE new == Scan(round + 1, Enabled[1])
    <2>1. c.kind = "request" /\ UNCHANGED <<requests, results, open>>
        BY DEF BeginQuickScan
    <2>2. ~ (completed < Len(providers))
        BY <1>2 DEF MayBegin, quickScanRunning
    <2>3. Len(Enabled) >= 1
        BY <1>2, EnabledFacts
    <2>4. /\ new \in Messages /\ new.kind = "scan" /\ new.round = round + 1
          /\ ProviderOf(new) = Enabled[1] /\ Flying(new)
        <3>1. Enabled[1] \in Names /\ round + 1 \in Nat
            BY <1>1, <2>3, EnabledFacts DEF Typed
        <3> QED
            BY <3>1, MessageFacts DEF Scan, ProviderOf, Flying
    <2>5. commands' = (commands \ {c}) \cup {new}
        BY <1>2
    <2> HIDE DEF new
    <2>6. Typed'
        BY <1>1, <1>2, <2>1, <2>3, <2>4, <2>5, EnabledFacts DEF Typed
    <2>7. Shown'
        BY <1>2, EnabledFacts DEF Shown
    <2>8. Budget'
        <3>1. /\ IsFiniteSet(Pending') /\ Cardinality(Pending') \in Nat
              /\ Cardinality(Pending') = Cardinality(Pending) - 1
            BY <1>1, <2>1, <2>4, <2>5, PendingShrinks DEF Budget
        <3> QED
            BY <1>1, <1>2, <2>1, <3>1, FS_CardinalityType DEF Budget, Typed
    <2>9. Flight'
        <3>1. \A d \in commands' : Flying(d) => d = new
            BY <1>1, <2>2, <2>5 DEF Flight
        <3> QED
            BY <1>2, <2>3, <2>4, <2>5, <3>1 DEF Flight
    <2>10. Recorded'
        <3>1. round \in Nat /\ round' \in Nat /\ round' <= MaxRequests
            <4>1. Cardinality(Pending') \in Nat
                BY <2>8, FS_CardinalityType DEF Budget
            <4> QED
                BY <1>1, <1>2, <2>6, <2>8, <4>1, EnabledFacts DEF Typed, Budget
        <3>2. results'[round'] = <<>>
            BY <1>1, <1>2, <2>1, <3>1 DEF Recorded
        <3>3. Counted(<<>>, 0, <<>>)
            BY DEF Counted
        <3>4. \A n \in 1..MaxRequests : n > round' => results'[n] = <<>>
            BY <1>1, <1>2, <2>1, <3>1 DEF Recorded
        <3> QED
            BY <1>2, <3>1, <3>2, <3>3, <3>4 DEF Recorded
    <2>11. Announced'
        <3> SUFFICES ASSUME NEW d \in commands', d.kind = "announce"
                     PROVE  /\ d.round \in 1..round' /\ d.round # round'
                            /\ Counted(results'[d.round], Len(Enabled), d.failed)
            BY DEF Announced
        <3>1. d \in commands
            BY <2>4, <2>5
        <3> QED
            BY <1>1, <1>2, <2>1, <3>1 DEF Announced, Typed
    <2> QED
        BY <2>6, <2>7, <2>8, <2>9, <2>10, <2>11 DEF IInv
<1>3. CASE /\ commands' = commands \ {c}
           /\ UNCHANGED <<providers, completed, failures, scanning, resources, round>>
    <2>1. c.kind = "request" /\ UNCHANGED <<requests, results, open>>
        BY DEF BeginQuickScan
    <2>2. Shown' /\ ~ Flying(c) /\ scanning' \in BOOLEAN
        BY <1>1, <1>3, <2>1 DEF Shown, Flying, Typed
    <2> QED
        BY <1>3, <2>1, <2>2, DropInv
<1> QED
    BY <1>2, <1>3 DEF BeginQuickScan

\* The end of a round clears the status, of whichever round.
LEMMA AnnounceInv ==
    ASSUME IInv, NEW c \in commands, HandleAnnounce(c)
    PROVE  IInv'
<1>1. /\ c.kind = "announce" /\ commands' = commands \ {c}
      /\ scanning' = FALSE /\ resources' = 0
      /\ UNCHANGED <<providers, completed, failures, requests, round, results, open>>
    BY DEF HandleAnnounce
<1>2. Shown'
    <2> DEFINE most == MaxFound * completed
    <2>1. resources \in 0..most /\ most \in Int /\ most' = most
        BY <1>1, EnabledFacts DEF IInv, Shown, Typed
    <2> HIDE DEF most
    <2>2. 0 \in 0..most
        BY <2>1
    <2>3. resources' \in 0..most'
        BY <1>1, <2>1, <2>2
    <2> QED
        BY <2>3 DEF Shown, most
<1>3. ~ Flying(c) /\ scanning' \in BOOLEAN
    BY <1>1 DEF Flying
<1> QED
    BY <1>1, <1>2, <1>3, DropInv

\* The message counted is the one waited for, so the round it belongs to goes on
\* by one provider.
LEMMA HandleInv ==
    ASSUME IInv, NEW c \in commands, HandleCompleted(c)
    PROVE  IInv'
<1> DEFINE failed == KeepError(failures, c.result)
           found == IF scanning THEN resources + c.result.found ELSE 0
           next == {Scan(round, providers[NextProvider(completed + 1)])}
           last == {Announce(round, found, failed)}
           rec == [provider |-> c.result.provider, error |-> c.result.error]
<1>1. Typed /\ Shown /\ Budget /\ Flight /\ Recorded /\ Announced
    BY DEF IInv
<1>2. open /\ c.kind = "completed" /\ UNCHANGED <<providers, scanning, requests, round, open>>
    BY DEF HandleCompleted
<1>3. /\ c \in Messages /\ c.result \in ProviderResult
    BY <1>1, <1>2, PayloadFacts DEF Typed
<1>4. /\ completed < Len(providers) /\ c.round = round
      /\ c.result.provider = providers[completed + 1] /\ Flying(c)
    BY <1>1, <1>2 DEF Flight, Flying, ProviderOf
<1>5. providers = Enabled /\ providers # <<>> /\ completed \in Nat
    <2>1. completed \in 0..Len(providers) /\ providers \in {<<>>, Enabled}
        BY <1>1 DEF Typed
    <2>2. providers # <<>>
        BY <1>4, <2>1
    <2> QED
        BY <2>1, <2>2, EnabledFacts
<1>6. /\ completed' = completed + 1 /\ failures' = failed /\ resources' = found
      /\ completed + 1 < Len(providers) =>
            \/ NextProvider(completed + 1) \notin DOMAIN providers
            \/ commands' = (commands \ {c}) \cup next
      /\ ~ (completed + 1 < Len(providers)) => commands' = (commands \ {c}) \cup last
      /\ results' = [results EXCEPT ![round] = Append(@, rec)]
    BY <1>4 DEF HandleCompleted, quickScanRunning
<1>7. failed \in Seq(Names) /\ Len(failed) <= completed + 1
    <2>1. c.result.provider \in Names
        BY <1>3 DEF ProviderResult
    <2> QED
        BY <1>1, <1>5, <2>1 DEF KeepError, Typed
<1>8. found \in 0..MaxFound * (completed + 1)
    <2> DEFINE most == MaxFound * completed
    <2>1. most \in Nat /\ MaxFound * (completed + 1) = most + MaxFound
        BY <1>5, EnabledFacts
    <2>2. resources \in 0..most
        BY <1>1 DEF Shown
    <2>3. c.result.found \in 0..MaxFound
        BY <1>3 DEF ProviderResult
    <2> HIDE DEF most
    <2> QED
        BY <2>1, <2>2, <2>3, EnabledFacts
<1>9. found \in Nat
    BY <1>5, <1>8, EnabledFacts
<1>10. round \in 1..MaxRequests
    <2>1. Cardinality(Pending) \in Nat
        BY <1>1, FS_CardinalityType DEF Budget
    <2> QED
        BY <1>1, <1>5, <2>1, EnabledFacts DEF Typed, Budget, Recorded
<1>11. PICK new \in Messages :
          /\ commands' = (commands \ {c}) \cup {new} /\ new.round = round
          /\ \/ /\ completed + 1 < Len(providers) /\ new.kind = "scan"
                /\ ProviderOf(new) = providers[completed + 2]
             \/ /\ ~ (completed + 1 < Len(providers)) /\ new.kind = "announce"
                /\ new.failed = failed
    <2>1. CASE completed + 1 < Len(providers)
        <3>1. /\ NextProvider(completed + 1) = completed + 2
              /\ completed + 2 \in DOMAIN providers /\ providers[completed + 2] \in Names
            BY <1>5, <2>1, EnabledFacts DEF NextProvider
        <3>2. commands' = (commands \ {c}) \cup {Scan(round, providers[completed + 2])}
            BY <1>6, <2>1, <3>1
        <3>3. Scan(round, providers[completed + 2]) \in Messages
            BY <1>10, <3>1, MessageFacts, EnabledFacts
        <3> QED
            BY <2>1, <3>2, <3>3 DEF Scan, ProviderOf
    <2>2. CASE ~ (completed + 1 < Len(providers))
        <3> DEFINE message == Announce(round, found, failed)
        <3>1. message \in Messages
            <4>1. \A n, f \in Nat, q \in Seq(Names) : Announce(n, f, q) \in Messages
                BY MessageFacts
            <4>2. round \in Nat /\ found \in Nat /\ failed \in Seq(Names)
                BY <1>7, <1>9, <1>10, EnabledFacts
            <4> HIDE DEF found, failed
            <4> QED
                BY <4>1, <4>2
        <3>2. message.round = round /\ message.kind = "announce" /\ message.failed = failed
            BY DEF Announce
        <3>3. commands' = (commands \ {c}) \cup {message}
            BY <1>6, <2>2
        <3> HIDE DEF message
        <3> QED
            BY <2>2, <3>1, <3>2, <3>3
    <2> QED
        BY <2>1, <2>2
<1> HIDE DEF failed, found
<1>12. rec \in [provider : Names, error : BOOLEAN]
    BY <1>3 DEF ProviderResult
<1>13. /\ results' \in [1..MaxRequests -> Results]
       /\ results'[round] = Append(results[round], rec)
       /\ \A n \in 1..MaxRequests : n # round => results'[n] = results[n]
    <2>1. results[round] \in Results /\ results \in [1..MaxRequests -> Results]
        BY <1>1, <1>10 DEF Typed
    <2>2. Append(results[round], rec) \in Results
        BY <1>12, <2>1 DEF Results
    <2> HIDE DEF rec
    <2> QED
        BY <1>6, <1>10, <2>1, <2>2
<1>14. Typed'
    BY <1>1, <1>2, <1>4, <1>5, <1>6, <1>7, <1>11, <1>13, EnabledFacts DEF Typed
<1>15. Shown'
    BY <1>6, <1>8 DEF Shown
<1>16. Budget'
    <2>1. Pending' = Pending
        BY <1>2, <1>11 DEF Pending
    <2> QED
        BY <1>1, <1>2, <2>1 DEF Budget
<1>17. Flight'
    <2>1. \A d \in commands' : Flying(d) => d = new
        BY <1>1, <1>4, <1>11 DEF Flight
    <2>2. CASE completed + 1 < Len(providers)
        <3>1. /\ Flying(new) /\ new.round = round' /\ new \in commands'
              /\ ProviderOf(new) = providers'[completed' + 1]
            BY <1>2, <1>5, <1>6, <1>11, <2>2 DEF Flying
        <3> QED
            BY <1>2, <1>6, <2>1, <2>2, <3>1 DEF Flight
    <2>3. CASE ~ (completed + 1 < Len(providers))
        <3>1. ~ Flying(new)
            BY <1>11, <2>3 DEF Flying
        <3> QED
            BY <1>2, <1>6, <2>1, <2>3, <3>1 DEF Flight
    <2> QED
        BY <2>2, <2>3
<1>18. Counted(results'[round], completed + 1, failed)
    <2>1. Counted(results[round], completed, failures)
        BY <1>1, <1>10 DEF Recorded
    <2>2. results[round] \in Results /\ failures \in Seq(Names)
        BY <1>1, <1>10 DEF Typed
    <2>3. completed < Len(Enabled) /\ c.result.provider = Enabled[completed + 1]
        BY <1>4, <1>5
    <2>4. Counted(Append(results[round], rec), completed + 1, KeepError(failures, c.result))
        BY <1>3, <1>5, <2>1, <2>2, <2>3, CountOneMore
    <2> QED
        BY <1>13, <2>4 DEF failed
<1>19. Recorded'
    <2>1. Counted(results'[round'], completed', failures')
        BY <1>2, <1>6, <1>18
    <2>2. \A n \in 1..MaxRequests : n > round' => results'[n] = <<>>
        BY <1>1, <1>2, <1>10, <1>13 DEF Recorded
    <2> QED
        BY <1>2, <1>10, <2>1, <2>2 DEF Recorded
<1>20. Announced'
    <2> SUFFICES ASSUME NEW d \in commands', d.kind = "announce"
                 PROVE  /\ d.round \in 1..round'
                        /\ d.round = round' => completed' >= Len(providers')
                        /\ Counted(results'[d.round], Len(Enabled), d.failed)
        BY DEF Announced
    <2>1. CASE d = new
        <3>1. /\ ~ (completed + 1 < Len(providers)) /\ d.round = round /\ d.failed = failed
            BY <1>11, <2>1
        <3>2. completed + 1 = Len(Enabled)
            BY <1>4, <1>5, <3>1, EnabledFacts
        <3> QED
            BY <1>2, <1>5, <1>6, <1>10, <1>18, <3>1, <3>2
    <2>2. CASE d # new
        <3>1. d \in commands
            BY <1>11, <2>2
        <3>2. /\ d.round \in 1..round /\ d.round # round
              /\ Counted(results[d.round], Len(Enabled), d.failed)
            BY <1>1, <1>4, <1>5, <3>1, EnabledFacts DEF Announced
        <3>3. results'[d.round] = results[d.round]
            BY <1>10, <1>13, <3>2, EnabledFacts
        <3> QED
            BY <1>2, <3>2, <3>3
    <2> QED
        BY <2>1, <2>2
<1> QED
    BY <1>14, <1>15, <1>16, <1>17, <1>19, <1>20 DEF IInv

\* Quitting leaves no message.
LEMMA QuitInv ==
    ASSUME IInv, Quit
    PROVE  IInv'
<1>1. /\ open' = FALSE /\ commands' = {}
      /\ UNCHANGED <<providers, completed, failures, scanning, resources, requests, round,
                     results>>
    BY DEF Quit
<1>2. Typed /\ Shown /\ Budget /\ Flight /\ Recorded /\ Announced
    BY DEF IInv
<1>3. Typed'
    BY <1>1, <1>2 DEF Typed
<1>4. Shown' /\ Recorded'
    BY <1>1, <1>2 DEF Shown, Recorded
<1>5. Budget'
    <2>1. Pending' = {}
        BY <1>1 DEF Pending
    <2>2. round <= requests
        BY <1>2, FS_CardinalityType DEF Budget, Typed
    <2> QED
        BY <1>1, <1>2, <2>1, <2>2, FS_EmptySet DEF Budget, Typed
<1>6. Flight' /\ Announced'
    BY <1>1 DEF Flight, Announced
<1> QED
    BY <1>3, <1>4, <1>5, <1>6 DEF IInv

\* Every step keeps the invariant.
LEMMA NextInv == IInv /\ [Next]_vars => IInv'
<1> SUFFICES ASSUME IInv, [Next]_vars PROVE IInv'
    OBVIOUS
<1>1. CASE UNCHANGED vars
    BY <1>1 DEF vars, IInv, Typed, Shown, Budget, Pending, Flight, Recorded, Announced
<1>2. ASSUME NEW c \in commands, Command(c) PROVE IInv'
    BY <1>2, BeginInv, HandleInv, AnnounceInv, RunInv DEF Command, Update
<1> QED
    BY <1>1, <1>2, StartInv, QuitInv DEF Next

-----------------------------------------------------------------------------
(* The theorems *)

\* The invariant holds in every state of the terminal interface.
THEOREM Invariance == Spec => []IInv
BY InitInv, NextInv, PTL DEF Spec

\* Every variable has its type, the progress quickScanProgress shows is within
\* its assertions, and a round never runs without a request of its own.
THEOREM TypeCorrect == Spec => []TypeOK
<1>1. IInv => TypeOK
    <2> SUFFICES ASSUME IInv PROVE TypeOK
        OBVIOUS
    <2>1. round \in 0..requests
        BY FS_CardinalityType DEF IInv, Typed, Budget
    <2>2. resources \in 0..MaxFound * Len(Enabled)
        <3> DEFINE most == MaxFound * completed
                   all == MaxFound * Len(Enabled)
        <3>1. completed \in 0..Len(Enabled)
            <4>1. completed \in 0..Len(providers) /\ providers \in {<<>>, Enabled}
                BY DEF IInv, Typed
            <4> QED
                BY <4>1, EnabledFacts
        <3>2. most \in Nat /\ all \in Nat /\ most <= all
            BY <3>1, EnabledFacts
        <3>3. resources \in 0..most
            BY DEF IInv, Shown
        <3> HIDE DEF most, all
        <3>4. resources \in 0..all
            BY <3>2, <3>3
        <3> QED
            BY <3>4 DEF all
    <2> QED
        BY <2>1, <2>2 DEF IInv, Typed, TypeOK, Results
<1> QED
    BY <1>1, Invariance, PTL

\* However often quick scans are asked for and in whatever order messages
\* arrive, the provider scan in flight is the only one, belongs to the current
\* round and is the one handleProviderScanComplete waits for.
THEOREM ProvidersRunOneByOne == Spec => []OneProviderInFlight
<1>1. IInv => OneProviderInFlight
    <2> SUFFICES ASSUME IInv, open PROVE OneProviderInFlight
        BY DEF OneProviderInFlight
    <2>1. Flight
        BY DEF IInv
    <2>2. \A c \in InFlight :
             /\ c.round = round
             /\ (IF c.kind = "scan" THEN c.provider ELSE c.result.provider)
                    = providers[completed + 1]
        BY <2>1 DEF Flight, InFlight, Flying, ProviderOf
    <2>3. CASE quickScanRunning
        <3>1. PICK c \in commands : Flying(c)
            BY <2>1, <2>3 DEF Flight, quickScanRunning
        <3>2. InFlight = {c}
            BY <2>1, <3>1 DEF Flight, InFlight, Flying
        <3> QED
            BY <2>2, <2>3, <3>2, FS_Singleton DEF OneProviderInFlight
    <2>4. CASE ~ quickScanRunning
        <3>1. InFlight = {}
            BY <2>1, <2>4 DEF Flight, InFlight, Flying, quickScanRunning
        <3> QED
            BY <2>4, <3>1, FS_EmptySet DEF OneProviderInFlight
    <2> QED
        BY <2>3, <2>4
<1> QED
    BY <1>1, Invariance, PTL

\* finishQuickScan announces a round when every enabled provider was counted in
\* it once and in order, with the failures of that round and no others.
THEOREM AnnouncementsAreExact == Spec => []AnnouncedRoundsAreExact
<1>1. IInv => AnnouncedRoundsAreExact
    <2> SUFFICES ASSUME IInv, NEW c \in commands, c.kind = "announce"
                 PROVE  /\ [i \in DOMAIN results[c.round] |-> results[c.round][i].provider] = Enabled
                        /\ \A i \in DOMAIN Enabled :
                              results[c.round][i].error <=>
                                  \E j \in DOMAIN c.failed : c.failed[j] = Enabled[i]
        BY DEF AnnouncedRoundsAreExact
    <2>1. c.round \in 1..round /\ Counted(results[c.round], Len(Enabled), c.failed)
        BY DEF IInv, Announced
    <2>2. c.round \in 1..MaxRequests
        <3>1. Cardinality(Pending) \in Nat
            BY FS_CardinalityType DEF IInv, Budget
        <3> QED
            BY <2>1, <3>1, EnabledFacts DEF IInv, Typed, Budget
    <2>3. results[c.round] \in Results
        BY <2>2 DEF IInv, Typed
    <2> QED
        BY <2>1, <2>3, CountedIsExact
<1> QED
    BY <1>1, Invariance, PTL
=============================================================================
