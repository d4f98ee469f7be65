------------------------ MODULE InformerStreamProofs ------------------------
(***************************************************************************)
(* Proofs about the watch streams of the Kubernetes provider, for any      *)
(* number of clients and types, any size of the event channel and any      *)
(* number of notifications and of calls of Stop.                           *)
(*                                                                         *)
(* A step changes one stream and its informers (or only counts a Stop), so *)
(* the invariant is a predicate Good of one stream, its informers and the  *)
(* number of closed stop channels, and a word about the shared map of      *)
(* tracked informers.  Each action has a lemma that says it keeps Good.    *)
(***************************************************************************)
EXTENDS InformerStream, FiniteSetTheorems, FunctionTheorems, SequenceTheorems, TLAPS

(***************************************************************************)
(* The inductive invariant.                                                *)
(***************************************************************************)
StreamState ==
    [pc : {"idle", "track", "forward", "shutdown", "untrack", "wait", "returned"},
     request : (SUBSET Types) \cup {None}, cacheStop : Nat, over : BOOLEAN,
     cancelled : BOOLEAN, eventChan : Seq(Types), stopper : {"select", "done"},
     syncErr : {"none", "waiting", "nil", "error", "taken"},
     err : {"none", "send", "sync"},
     result : {"none", "setup", "handlers", "send", "sync", "context", "stopped"},
     passed : [Types -> Nat]]

InformerState ==
    [state : {"off", "list", "watch", "stopped"}, emitted : Nat, handled : Nat,
     busy : BOOLEAN]

Typed(st, inf, n) ==
    /\ st \in StreamState /\ inf \in [Types -> InformerState] /\ n \in Nat

\* Nothing runs before the informers are started.
NotStarted(st, inf) ==
    st.pc \in {"idle", "track"} =>
        /\ ~ st.over /\ ~ st.cancelled /\ st.eventChan = <<>>
        /\ st.passed = NothingPassed /\ st.stopper = "done" /\ st.syncErr = "none"
        /\ st.err = "none" /\ st.result = "none"
        /\ \A t \in Types : inf[t] = IdleInformer

\* A handler runs only inside an informer that watches.
BusyWatches(inf) == \A t \in Types : inf[t].busy => inf[t].state = "watch"

\* Informers run for the types the stream watches, until Shutdown has seen
\* every one of them stopped.
OwnInformers(st, inf) ==
    /\ st.pc \in {"track", "forward", "shutdown", "untrack", "wait"} => st.request \subseteq Types
    /\ st.pc \in {"forward", "shutdown", "untrack", "wait"} =>
          \A t \in Types \ st.request : inf[t].state = "off"
    /\ st.pc \in {"untrack", "wait"} => \A t \in st.request : inf[t].state = "stopped"
    /\ st.pc = "returned" =>
          /\ st.stopper = "done" /\ st.syncErr # "waiting"
          /\ \A t \in Types : inf[t].state \in {"off", "stopped"}

Alive(st) == st.pc = "forward" /\ ~ st.over /\ ~ st.cancelled

\* What the handlers have returned from is queued or passed on, and a synced
\* stream has had its initial list.
Conserved(st, inf) ==
    Alive(st) =>
        /\ \A t \in Types : inf[t].handled = st.passed[t] + Count(st.eventChan, t)
        /\ st.syncErr \in {"nil", "taken"} => \A t \in st.request : inf[t].handled >= Initial

\* A stream that ends without a failure while its client is there was stopped.
\* Before the forwarding is over, only the listener of Stop cancels.
EndedByStop(st, n) ==
    /\ st.pc = "forward" /\ st.cancelled => n > st.cacheStop
    /\ st.pc \in {"shutdown", "untrack", "wait"} /\ st.err = "none" /\ ~ st.over =>
          n > st.cacheStop
    /\ st.pc \in {"forward"} => st.err = "none"
    /\ st.pc # "returned" => st.result = "none"
    /\ st.result = "stopped" => n > st.cacheStop

Good(st, inf, n) ==
    /\ Typed(st, inf, n)
    /\ NotStarted(st, inf)
    /\ BusyWatches(inf)
    /\ OwnInformers(st, inf)
    /\ Conserved(st, inf)
    /\ EndedByStop(st, n)

TypeOK ==
    /\ stream \in [Streams -> StreamState]
    /\ informer \in [Streams -> [Types -> InformerState]]
    /\ tracked \in [Types -> Streams \cup {None}]
    /\ stops \in Nat

\* A tracked informer belongs to a stream that has not untracked its own yet.
TrackedAreLive ==
    \A t \in Types, s \in Streams :
        tracked[t] = s => stream[s].pc \in {"forward", "shutdown", "untrack"}

IInv ==
    /\ TypeOK
    /\ TrackedAreLive
    /\ \A s \in Streams : Good(stream[s], informer[s], stops)

(***************************************************************************)
(* Counting the entries of a channel.                                      *)
(***************************************************************************)

\* Count is a natural number, and zero for an empty channel.
LEMMA CountType ==
    ASSUME NEW q \in Seq(Types), NEW t
    PROVE  /\ IsFiniteSet({k \in DOMAIN q : q[k] = t})
           /\ Count(q, t) \in Nat
           /\ q = <<>> => Count(q, t) = 0
<1> DEFINE at == {k \in DOMAIN q : q[k] = t}
<1>1. IsFiniteSet(1 .. Len(q))
    BY FS_Interval, LenProperties
<1>2. at \subseteq 1 .. Len(q)
    OBVIOUS
<1>3. IsFiniteSet(at)
    BY <1>1, <1>2, FS_Subset
<1>4. Cardinality(at) \in Nat
    BY <1>3, FS_CardinalityType
<1>5. q = <<>> => at = {}
    OBVIOUS
<1>6. q = <<>> => Cardinality(at) = 0
    BY <1>5, FS_EmptySet
<1> QED
    BY <1>3, <1>4, <1>6 DEF Count

\* A send on the channel counts once, for its own type.
LEMMA CountAppend ==
    ASSUME NEW q \in Seq(Types), NEW u \in Types, NEW t
    PROVE  Count(Append(q, u), t) = Count(q, t) + (IF t = u THEN 1 ELSE 0)
<1> DEFINE at == {k \in DOMAIN q : q[k] = t}
           after == {k \in DOMAIN Append(q, u) : Append(q, u)[k] = t}
<1>1. IsFiniteSet(at)
    BY CountType
<1>2. /\ Len(q) + 1 \notin at
      /\ after = IF t = u THEN at \cup {Len(q) + 1} ELSE at
    OBVIOUS
<1>3. Cardinality(at \cup {Len(q) + 1}) = Cardinality(at) + 1
    BY <1>1, <1>2, FS_AddElement
<1>4. Cardinality(at) \in Nat
    BY <1>1, FS_CardinalityType
<1> HIDE DEF at, after
<1>5. Cardinality(after) = Cardinality(at) + (IF t = u THEN 1 ELSE 0)
    BY <1>2, <1>3, <1>4
<1> QED
    BY <1>5 DEF Count, at, after

\* A receive takes one entry of the type at the head of the channel.
LEMMA CountTail ==
    ASSUME NEW q \in Seq(Types), q # <<>>, NEW t
    PROVE  Count(q, t) = Count(Tail(q), t) + (IF t = Head(q) THEN 1 ELSE 0)
<1> DEFINE at == {k \in DOMAIN q : q[k] = t}
           rest == {k \in DOMAIN Tail(q) : Tail(q)[k] = t}
           later == at \ {1}
           f == [k \in rest |-> k + 1]
<1>1. Tail(q) \in Seq(Types) /\ Len(Tail(q)) = Len(q) - 1 /\ Len(q) \in Nat \ {0}
    BY EmptySeq, LenProperties
<1>2. IsFiniteSet(at) /\ IsFiniteSet(rest)
    BY <1>1, CountType
<1>3. f \in Bijection(rest, later)
    <2>1. f \in [rest -> later]
        BY <1>1
    <2>2. \A a, b \in rest : f[a] = f[b] => a = b
        BY <1>1
    <2>3. \A k \in later : \E a \in rest : f[a] = k
        <3> SUFFICES ASSUME NEW k \in later PROVE \E a \in rest : f[a] = k
            OBVIOUS
        <3>1. k \in 2 .. Len(q) /\ q[k] = t
            BY <1>1
        <3>2. k - 1 \in 1 .. Len(Tail(q)) /\ Tail(q)[k - 1] = q[k]
            BY <1>1, <3>1
        <3>3. k - 1 \in rest /\ f[k - 1] = k
            BY <1>1, <3>1, <3>2
        <3> QED
            BY <3>3
    <2> QED
        BY <2>1, <2>2, <2>3, Fun_IsBij
<1>4. Cardinality(rest) = Cardinality(later)
    BY <1>2, <1>3, FS_Bijection DEF ExistsBijection
<1>5. 1 \in DOMAIN q /\ Head(q) = q[1]
    BY <1>1
<1>6. IF t = Head(q) THEN 1 \in at ELSE at = later
    BY <1>5
<1>7. 1 \in at => Cardinality(later) = Cardinality(at) - 1
    BY <1>2, FS_RemoveElement
<1>8. Cardinality(at) \in Nat
    BY <1>2, FS_CardinalityType
<1> HIDE DEF at, rest, later, f
<1>9. Cardinality(at) = Cardinality(rest) + (IF t = Head(q) THEN 1 ELSE 0)
    BY <1>4, <1>6, <1>7, <1>8
<1> QED
    BY <1>9 DEF Count, at, rest

(***************************************************************************)
(* A step of one stream.                                                   *)
(***************************************************************************)
Live == {"forward", "shutdown", "untrack"}

\* A step that leaves one stream and its informers good keeps the invariant.
LEMMA OneStream ==
    ASSUME IInv, NEW s \in Streams, NEW st, NEW inf,
           stream' = [stream EXCEPT ![s] = st],
           informer' = [informer EXCEPT ![s] = inf],
           stops' = stops, Good(st, inf, stops),
           tracked' \in [Types -> Streams \cup {None}],
           \A t \in Types, q \in Streams : tracked'[t] = q => stream'[q].pc \in Live
    PROVE  IInv'
<1>1. stream \in [Streams -> StreamState] /\ informer \in [Streams -> [Types -> InformerState]]
    BY DEF IInv, TypeOK
<1>2. st \in StreamState /\ inf \in [Types -> InformerState]
    BY DEF Good, Typed
<1>3. /\ stream'[s] = st /\ informer'[s] = inf
      /\ \A q \in Streams \ {s} : stream'[q] = stream[q] /\ informer'[q] = informer[q]
      /\ stream' \in [Streams -> StreamState]
      /\ informer' \in [Streams -> [Types -> InformerState]]
    BY <1>1, <1>2
<1>4. TypeOK'
    BY <1>3 DEF TypeOK, IInv
<1>5. TrackedAreLive'
    BY DEF TrackedAreLive, Live
<1>6. ASSUME NEW q \in Streams PROVE Good(stream'[q], informer'[q], stops')
    BY <1>3 DEF IInv
<1> QED
    BY <1>4, <1>5, <1>6 DEF IInv

\* The same for a step that tracks and forgets nothing, and takes no stream
\* from the ones whose informers may be tracked.
LEMMA OneStreamKeeps ==
    ASSUME IInv, NEW s \in Streams, NEW st, NEW inf,
           stream' = [stream EXCEPT ![s] = st],
           informer' = [informer EXCEPT ![s] = inf],
           tracked' = tracked, stops' = stops, Good(st, inf, stops),
           stream[s].pc \in Live => st.pc \in Live
    PROVE  IInv'
<1>1. tracked \in [Types -> Streams \cup {None}] /\ stream \in [Streams -> StreamState]
    BY DEF IInv, TypeOK
<1>2. ASSUME NEW t \in Types, NEW q \in Streams, tracked'[t] = q
      PROVE  stream'[q].pc \in Live
    BY <1>1, <1>2 DEF IInv, TrackedAreLive, Live
<1> QED
    BY <1>1, <1>2, OneStream, Zenon

\* What the invariant says of a stream and its informers.
LEMMA Parts ==
    ASSUME IInv, NEW s \in Streams
    PROVE  /\ Good(stream[s], informer[s], stops)
           /\ stream[s] \in StreamState /\ informer[s] \in [Types -> InformerState]
           /\ stops \in Nat
           /\ stream = [stream EXCEPT ![s] = stream[s]]
           /\ informer = [informer EXCEPT ![s] = informer[s]]
BY DEF IInv, TypeOK

(***************************************************************************)
(* StreamInformers.                                                        *)
(***************************************************************************)
\* A stream may end with any of the results.
LEMMA ResultType ==
    ASSUME NEW st \in StreamState,
           NEW v \in {"none", "setup", "handlers", "send", "sync", "context", "stopped"}
    PROVE  [st EXCEPT !.pc = "returned", !.result = v] \in StreamState
BY DEF StreamState

\* What Return keeps of a stream.
LEMMA ReturnFields ==
    ASSUME NEW s, stream[s] \in StreamState,
           NEW result \in {"setup", "handlers", "send", "sync", "context", "stopped"}
    PROVE  LET st == Return(s, result)
           IN  /\ st \in StreamState
               /\ st.pc = "returned" /\ st.cacheStop = stream[s].cacheStop
               /\ st.stopper = stream[s].stopper /\ st.syncErr = Unread(s)
               /\ st.err = "none" /\ st.result = result
<1>1. IdleStream \in StreamState
    BY DEF IdleStream, StreamState
<1>2. Unread(s) \in {"waiting", "taken"}
    BY DEF Unread
<1> DEFINE st == Return(s, result)
<1>3. st = [IdleStream EXCEPT !.pc = "returned", !.result = result,
                              !.cacheStop = stream[s].cacheStop,
                              !.stopper = stream[s].stopper, !.syncErr = Unread(s)]
    BY Zenon DEF Return
<1> HIDE DEF st
<1>4. /\ stream[s].cacheStop \in Nat /\ stream[s].stopper \in {"select", "done"}
      /\ result \in {"none", "setup", "handlers", "send", "sync", "context", "stopped"}
    BY DEF StreamState
<1>5. st \in StreamState
    <2> DEFINE a == [IdleStream EXCEPT !.pc = "returned", !.result = result]
               b == [a EXCEPT !.cacheStop = stream[s].cacheStop]
               c == [b EXCEPT !.stopper = stream[s].stopper]
               d == [c EXCEPT !.syncErr = Unread(s)]
    <2>1. st = d
        BY <1>3, Zenon
    <2>2. a \in StreamState
        BY <1>1, <1>4, ResultType
    <2> HIDE DEF a
    <2>3. b \in StreamState
        BY <1>4, <2>2 DEF StreamState
    <2> HIDE DEF b
    <2>4. c \in StreamState
        BY <1>4, <2>3 DEF StreamState
    <2> HIDE DEF c
    <2>5. d \in StreamState
        BY <1>2, <2>4 DEF StreamState
    <2> QED
        BY <2>1, <2>5
<1>6. /\ st.pc = "returned" /\ st.cacheStop = stream[s].cacheStop
      /\ st.stopper = stream[s].stopper /\ st.syncErr = Unread(s)
      /\ st.err = "none" /\ st.result = result
    BY <1>1, <1>3 DEF IdleStream
<1> QED
    BY <1>5, <1>6 DEF st

\* A request is refused, or accepted with the stop channel of the moment.
LEMMA SetupInformersKeeps ==
    ASSUME IInv, NEW s \in Streams, NEW r \in Requests, SetupInformers(s, r)
    PROVE  IInv'
<1>1. /\ Good(stream[s], informer[s], stops)
      /\ stream[s] \in StreamState /\ informer[s] \in [Types -> InformerState] /\ stops \in Nat
    BY Parts
<1>2. stream[s].pc = "idle" /\ informer' = [informer EXCEPT ![s] = informer[s]]
      /\ tracked' = tracked /\ stops' = stops
    BY Parts DEF SetupInformers
<1>3. ASSUME NEW result \in {"setup", "handlers"},
             stream' = [stream EXCEPT ![s] = Return(s, result)]
      PROVE  IInv'
    <2> DEFINE st == Return(s, result)
    <2>1. stream[s].stopper = "done" /\ Unread(s) = "taken"
        BY <1>1, <1>2 DEF Good, NotStarted, Unread
    <2>2. /\ st \in StreamState /\ st.pc = "returned" /\ st.stopper = "done"
          /\ st.syncErr = "taken" /\ st.result = result
        BY <1>1, <2>1, ReturnFields
    <2> HIDE DEF st
    <2>3. Good(st, informer[s], stops)
        BY <1>1, <1>2, <2>2
        DEF Good, Typed, NotStarted, BusyWatches, OwnInformers, Conserved, Alive, EndedByStop,
            IdleInformer
    <2> QED
        BY <1>2, <1>3, <2>3, OneStreamKeeps DEF Live, st
<1>4. ASSUME r \subseteq Types,
             stream' = [stream EXCEPT ![s].pc = "track", ![s].request = r, ![s].cacheStop = stops]
      PROVE  IInv'
    <2> DEFINE st == [stream[s] EXCEPT !.pc = "track", !.request = r, !.cacheStop = stops]
    <2>1. stream' = [stream EXCEPT ![s] = st]
        BY <1>4, Parts DEF IInv, TypeOK
    <2>2. st \in StreamState
        BY <1>1, <1>4 DEF StreamState
    <2>3. Good(st, informer[s], stops)
        BY <1>1, <1>2, <1>4, <2>2
        DEF Good, Typed, NotStarted, BusyWatches, OwnInformers, Conserved, Alive, EndedByStop,
            StreamState
    <2> HIDE DEF st
    <2> QED
        BY <1>2, <2>1, <2>3, OneStreamKeeps DEF Live
<1> QED
    BY <1>3, <1>4 DEF SetupInformers

\* The informers start with nothing handled, and are the stream's in the map.
LEMMA StartInformersKeeps ==
    ASSUME IInv, NEW s \in Streams, StartInformers(s)
    PROVE  IInv'
<1> DEFINE st == [stream[s] EXCEPT !.pc = "forward", !.stopper = "select", !.syncErr = "waiting"]
           inf == [t \in Types |-> IF t \in Watched(s)
                                   THEN [informer[s][t] EXCEPT !.state = "list"]
                                   ELSE informer[s][t]]
<1>1. /\ Good(stream[s], informer[s], stops)
      /\ stream[s] \in StreamState /\ informer[s] \in [Types -> InformerState] /\ stops \in Nat
    BY Parts
<1>2. /\ stream[s].pc = "track" /\ stops' = stops
      /\ stream' = [stream EXCEPT ![s] = st] /\ informer' = [informer EXCEPT ![s] = inf]
      /\ tracked' = [t \in Types |-> IF t \in Watched(s) THEN s ELSE tracked[t]]
    BY DEF StartInformers, IInv, TypeOK
<1>3. st \in StreamState
    BY <1>1 DEF StreamState
<1>4. inf \in [Types -> InformerState]
    BY <1>1 DEF InformerState
<1>5. \A t \in Types : /\ inf[t].handled = 0 /\ ~ inf[t].busy
                       /\ t \notin stream[s].request => inf[t].state = "off"
    BY <1>1, <1>2 DEF Good, NotStarted, IdleInformer, Watched
<1>6. \A t \in Types : Count(st.eventChan, t) = 0 /\ st.passed[t] = 0
    <2>1. stream[s].eventChan = <<>> /\ stream[s].passed = NothingPassed
        BY <1>1, <1>2 DEF Good, NotStarted
    <2>2. st.eventChan = <<>> /\ st.passed = [t \in Types |-> 0]
        BY <1>1, <2>1 DEF StreamState, NothingPassed
    <2>3. \A t : Count(<<>>, t) = 0
        <3>1. <<>> \in Seq(Types)
            OBVIOUS
        <3> QED
            BY <3>1, CountType
    <2> QED
        BY <2>2, <2>3
<1>7. stream[s].request \subseteq Types /\ st.request = stream[s].request
    BY <1>1, <1>2 DEF Good, OwnInformers, StreamState
<1>8. /\ st.pc = "forward" /\ ~ st.cancelled /\ st.err = "none" /\ st.result = "none"
      /\ st.syncErr = "waiting"
    BY <1>1, <1>2 DEF Good, NotStarted, StreamState
<1> HIDE DEF st, inf
<1>9. Good(st, inf, stops)
    BY <1>1, <1>3, <1>4, <1>5, <1>6, <1>7, <1>8
    DEF Good, Typed, NotStarted, BusyWatches, OwnInformers, Conserved, Alive, EndedByStop
<1>10. tracked' \in [Types -> Streams \cup {None}]
    BY <1>2 DEF IInv, TypeOK
<1>11. ASSUME NEW t \in Types, NEW q \in Streams, tracked'[t] = q
       PROVE  stream'[q].pc \in Live
    BY <1>2, <1>8, <1>11 DEF IInv, TypeOK, TrackedAreLive, Live
<1> QED
    BY <1>2, <1>9, <1>10, <1>11, OneStream

\* The end of forwardEvents: after a failure, or when nobody receives any more.
LEMMA EndForwardGood ==
    ASSUME IInv, NEW s \in Streams, stream[s].pc = "forward",
           NEW err \in {"none", "send", "sync"}, err = "none" => Done(s)
    PROVE  LET st == EndForward(s, err)
           IN  st.pc = "shutdown" /\ Good(st, informer[s], stops)
<1> DEFINE st == EndForward(s, err)
<1>1. /\ Good(stream[s], informer[s], stops)
      /\ stream[s] \in StreamState /\ informer[s] \in [Types -> InformerState] /\ stops \in Nat
    BY Parts
<1>2. Unread(s) \in {"waiting", "taken"} /\ NothingPassed \in [Types -> Nat]
    BY DEF Unread, NothingPassed
<1>3. st = [stream[s] EXCEPT !.pc = "shutdown", !.err = err, !.passed = NothingPassed,
                             !.syncErr = Unread(s), !.cancelled = TRUE]
    BY Zenon DEF EndForward
<1> HIDE DEF st
<1>4. /\ st.pc = "shutdown" /\ st.err = err /\ st.over = stream[s].over
      /\ st.request = stream[s].request /\ st.result = stream[s].result
      /\ st.cacheStop = stream[s].cacheStop
    BY <1>1, <1>3 DEF StreamState
<1>5. st \in StreamState
    <2> DEFINE a == [stream[s] EXCEPT !.pc = "shutdown", !.err = err]
               b == [a EXCEPT !.passed = NothingPassed]
               c == [b EXCEPT !.syncErr = Unread(s)]
               d == [c EXCEPT !.cancelled = TRUE]
    <2>1. st = d
        BY <1>3, Zenon
    <2>2. a \in StreamState
        BY <1>1 DEF StreamState
    <2> HIDE DEF a
    <2>3. b \in StreamState
        BY <1>2, <2>2 DEF StreamState
    <2> HIDE DEF b
    <2>4. c \in StreamState
        BY <1>2, <2>3 DEF StreamState
    <2> HIDE DEF c
    <2>5. d \in StreamState
        BY <2>4 DEF StreamState
    <2> QED
        BY <2>1, <2>5
<1>6. EndedByStop(st, stops)
    BY <1>1, <1>4 DEF Good, EndedByStop, Done
<1>7. OwnInformers(st, informer[s])
    BY <1>1, <1>4 DEF Good, OwnInformers
<1>8. Good(st, informer[s], stops)
    BY <1>1, <1>4, <1>5, <1>6, <1>7 DEF Good, Typed, NotStarted, Conserved, Alive
<1> QED
    BY <1>4, <1>8 DEF st

\* forwardEvents passes an event on, takes the result of the sync or ends.
LEMMA ForwardEventsKeeps ==
    ASSUME IInv, NEW s \in Streams, ForwardEvents(s)
    PROVE  IInv'
<1>1. /\ Good(stream[s], informer[s], stops)
      /\ stream[s] \in StreamState /\ informer[s] \in [Types -> InformerState] /\ stops \in Nat
    BY Parts
<1>2. stream[s].pc = "forward" /\ informer' = [informer EXCEPT ![s] = informer[s]]
      /\ tracked' = tracked /\ stops' = stops
    BY Parts DEF ForwardEvents
<1>3. ASSUME stream[s].eventChan # <<>>,
             stream' = [stream EXCEPT ![s].eventChan = Tail(@),
                                      ![s].passed[Head(stream[s].eventChan)] = @ + 1]
      PROVE  IInv'
    <2> DEFINE q == stream[s].eventChan
               more == [stream[s].passed EXCEPT ![Head(q)] = @ + 1]
               st == [stream[s] EXCEPT !.eventChan = Tail(q), !.passed = more]
    <2>1. q \in Seq(Types) /\ stream[s].passed \in [Types -> Nat]
        BY <1>1 DEF StreamState
    <2>2. Tail(q) \in Seq(Types) /\ Head(q) \in Types
        BY <1>3, <2>1
    <2>3. more \in [Types -> Nat]
        BY <2>1, <2>2
    <2>4. \A t \in Types : more[t] = stream[s].passed[t] + (IF t = Head(q) THEN 1 ELSE 0)
        BY <2>1, <2>2
    <2>5. stream' = [stream EXCEPT ![s] = st]
        BY <1>3 DEF IInv, TypeOK, StreamState
    <2>6. ASSUME NEW t \in Types
          PROVE  stream[s].passed[t] + Count(q, t) = more[t] + Count(Tail(q), t)
        <3>1. Count(q, t) = Count(Tail(q), t) + (IF t = Head(q) THEN 1 ELSE 0)
            BY <1>3, <2>1, CountTail
        <3>2. Count(Tail(q), t) \in Nat /\ stream[s].passed[t] \in Nat
            BY <2>1, <2>2, CountType
        <3> HIDE DEF q, more
        <3> QED
            BY <2>4, <3>1, <3>2
    <2> HIDE DEF more
    <2>7. st \in StreamState
        BY <1>1, <2>2, <2>3 DEF StreamState
    <2>8. /\ st.pc = "forward" /\ st.over = stream[s].over /\ st.cancelled = stream[s].cancelled
          /\ st.request = stream[s].request /\ st.result = stream[s].result
          /\ st.cacheStop = stream[s].cacheStop /\ st.syncErr = stream[s].syncErr
          /\ st.err = stream[s].err /\ st.eventChan = Tail(q) /\ st.passed = more
        BY <1>1, <1>2 DEF StreamState
    <2> HIDE DEF st
    <2>9. Conserved(st, informer[s])
        BY <1>1, <1>2, <2>6, <2>8 DEF Good, Conserved, Alive
    <2>10. Good(st, informer[s], stops)
        BY <1>1, <1>2, <2>7, <2>8, <2>9
        DEF Good, Typed, NotStarted, OwnInformers, EndedByStop
    <2> QED
        BY <1>2, <2>5, <2>8, <2>10, OneStreamKeeps DEF Live
<1>4. ASSUME NEW err \in {"none", "send", "sync"}, err = "none" => Done(s),
             stream' = [stream EXCEPT ![s] = EndForward(s, err)]
      PROVE  IInv'
    <2>1. EndForward(s, err).pc = "shutdown" /\ Good(EndForward(s, err), informer[s], stops)
        BY <1>2, <1>4, EndForwardGood
    <2> QED
        BY <1>2, <1>4, <2>1, OneStreamKeeps DEF Live
<1>5. ASSUME stream[s].syncErr = "nil",
             stream' = [stream EXCEPT ![s].syncErr = "taken"]
      PROVE  IInv'
    <2> DEFINE st == [stream[s] EXCEPT !.syncErr = "taken"]
    <2>1. stream' = [stream EXCEPT ![s] = st]
        BY <1>5 DEF IInv, TypeOK
    <2>2. st \in StreamState
        BY <1>1 DEF StreamState
    <2>3. Good(st, informer[s], stops)
        BY <1>1, <1>2, <1>5, <2>2
        DEF Good, Typed, NotStarted, OwnInformers, Conserved, Alive, EndedByStop, StreamState
    <2>4. st.pc = "forward"
        BY <1>1, <1>2 DEF StreamState
    <2> HIDE DEF st
    <2> QED
        BY <1>2, <2>1, <2>3, <2>4, OneStreamKeeps DEF Live
<1> QED
    BY <1>3, <1>4, <1>5 DEF ForwardEvents, SendFailed

\* After factory.Shutdown every informer of the stream is stopped.
LEMMA ShutdownKeeps ==
    ASSUME IInv, NEW s \in Streams, Shutdown(s)
    PROVE  IInv'
<1> DEFINE st == [stream[s] EXCEPT !.pc = "untrack"]
<1>1. /\ Good(stream[s], informer[s], stops)
      /\ stream[s] \in StreamState /\ informer[s] \in [Types -> InformerState] /\ stops \in Nat
    BY Parts
<1>2. /\ stream[s].pc = "shutdown" /\ stream' = [stream EXCEPT ![s] = st]
      /\ informer' = [informer EXCEPT ![s] = informer[s]] /\ tracked' = tracked /\ stops' = stops
      /\ \A t \in stream[s].request : informer[s][t].state = "stopped"
    BY Parts DEF Shutdown, Watched, IInv, TypeOK
<1>3. st \in StreamState
    BY <1>1 DEF StreamState
<1>4. Good(st, informer[s], stops)
    BY <1>1, <1>2, <1>3
    DEF Good, Typed, NotStarted, OwnInformers, Conserved, Alive, EndedByStop, StreamState
<1>5. st.pc = "untrack"
    BY <1>1 DEF StreamState
<1> HIDE DEF st
<1> QED
    BY <1>2, <1>4, <1>5, OneStreamKeeps DEF Live

\* A stream forgets its own informers, so none of them is tracked after it.
LEMMA UntrackInformersKeeps ==
    ASSUME IInv, NEW s \in Streams, UntrackInformers(s)
    PROVE  IInv'
<1> DEFINE st == [stream[s] EXCEPT !.pc = "wait"]
<1>1. /\ Good(stream[s], informer[s], stops)
      /\ stream[s] \in StreamState /\ informer[s] \in [Types -> InformerState] /\ stops \in Nat
    BY Parts
<1>2. /\ stream[s].pc = "untrack" /\ stream' = [stream EXCEPT ![s] = st]
      /\ informer' = [informer EXCEPT ![s] = informer[s]] /\ stops' = stops
      /\ tracked' = [t \in Types |-> IF tracked[t] = s THEN None ELSE tracked[t]]
    BY Parts DEF UntrackInformers, Forget, IInv, TypeOK
<1>3. st \in StreamState
    BY <1>1 DEF StreamState
<1>4. Good(st, informer[s], stops)
    BY <1>1, <1>2, <1>3
    DEF Good, Typed, NotStarted, OwnInformers, Conserved, Alive, EndedByStop, StreamState
<1> HIDE DEF st
<1>5. tracked' \in [Types -> Streams \cup {None}]
    BY <1>2 DEF IInv, TypeOK
<1>6. ASSUME NEW t \in Types, NEW q \in Streams, tracked'[t] = q
      PROVE  stream'[q].pc \in Live
    <2>1. tracked[t] = q /\ q # s
        BY <1>2, <1>6, InformerAssumption DEF IInv, TypeOK
    <2>2. stream'[q] = stream[q]
        BY <1>2, <2>1 DEF IInv, TypeOK
    <2> QED
        BY <2>1, <2>2 DEF IInv, TrackedAreLive, Live
<1> QED
    BY <1>2, <1>4, <1>5, <1>6, OneStream

\* The result of a stream that has joined its goroutines.
LEMMA ReturnResultKeeps ==
    ASSUME IInv, NEW s \in Streams, ReturnResult(s)
    PROVE  IInv'
<1> DEFINE result == IF stream[s].err # "none" THEN stream[s].err
                     ELSE IF stream[s].over THEN "context" ELSE "stopped"
           st == Return(s, result)
<1>1. /\ Good(stream[s], informer[s], stops)
      /\ stream[s] \in StreamState /\ informer[s] \in [Types -> InformerState] /\ stops \in Nat
    BY Parts
<1>2. /\ stream[s].pc = "wait" /\ stream' = [stream EXCEPT ![s] = st]
      /\ stream[s].stopper = "done" /\ stream[s].syncErr # "waiting"
      /\ informer' = [informer EXCEPT ![s] = informer[s]] /\ tracked' = tracked /\ stops' = stops
    BY Parts DEF ReturnResult, Joined, IInv, TypeOK
<1>3. result \in {"setup", "handlers", "send", "sync", "context", "stopped"}
    BY <1>1 DEF StreamState
<1>4. result = "stopped" => stops > stream[s].cacheStop
    BY <1>1, <1>2 DEF StreamState, Good, EndedByStop
<1>5. Unread(s) = "taken"
    BY <1>2 DEF Unread
<1> HIDE DEF result
<1>6. /\ st \in StreamState /\ st.pc = "returned" /\ st.cacheStop = stream[s].cacheStop
      /\ st.stopper = stream[s].stopper /\ st.syncErr = "taken"
      /\ st.err = "none" /\ st.result = result
    BY <1>1, <1>3, <1>5, ReturnFields
<1>7. \A t \in Types : informer[s][t].state \in {"off", "stopped"}
    BY <1>1, <1>2 DEF Good, OwnInformers
<1> HIDE DEF st
<1>8. Good(st, informer[s], stops)
    BY <1>1, <1>2, <1>4, <1>6, <1>7
    DEF Good, Typed, NotStarted, OwnInformers, Conserved, Alive, EndedByStop
<1> QED
    BY <1>2, <1>8, OneStreamKeeps DEF Live

(***************************************************************************)
(* The other goroutines of a stream, the client and Stop.                  *)
(***************************************************************************)
\* The goroutine that listens for Stop cancels only once Stop was called.
LEMMA StopListenerKeeps ==
    ASSUME IInv, NEW s \in Streams, StopListener(s)
    PROVE  IInv'
<1>1. /\ Good(stream[s], informer[s], stops)
      /\ stream[s] \in StreamState /\ informer[s] \in [Types -> InformerState] /\ stops \in Nat
    BY Parts
<1>2. /\ stream[s].stopper = "select"
      /\ informer' = [informer EXCEPT ![s] = informer[s]] /\ tracked' = tracked /\ stops' = stops
    BY Parts DEF StopListener
<1>3. stream[s].pc \notin {"idle", "track", "returned"}
    BY <1>1, <1>2 DEF Good, NotStarted, OwnInformers
<1>4. CASE StopClosed(s) /\ stream' = [stream EXCEPT ![s].stopper = "done", ![s].cancelled = TRUE]
    <2> DEFINE st == [stream[s] EXCEPT !.stopper = "done", !.cancelled = TRUE]
    <2>1. stream' = [stream EXCEPT ![s] = st]
        BY <1>4 DEF IInv, TypeOK
    <2>2. st \in StreamState
        BY <1>1 DEF StreamState
    <2>3. Good(st, informer[s], stops)
        BY <1>1, <1>3, <1>4, <2>2
        DEF Good, Typed, NotStarted, OwnInformers, Conserved, Alive, EndedByStop, StreamState,
            StopClosed
    <2>4. st.pc = stream[s].pc
        BY <1>1 DEF StreamState
    <2> HIDE DEF st
    <2> QED
        BY <1>2, <2>1, <2>3, <2>4, OneStreamKeeps
<1>5. CASE Done(s) /\ stream' = [stream EXCEPT ![s].stopper = "done"]
    <2> DEFINE st == [stream[s] EXCEPT !.stopper = "done"]
    <2>1. stream' = [stream EXCEPT ![s] = st]
        BY <1>5 DEF IInv, TypeOK
    <2>2. st \in StreamState
        BY <1>1 DEF StreamState
    <2>3. Good(st, informer[s], stops)
        BY <1>1, <1>3, <2>2
        DEF Good, Typed, NotStarted, OwnInformers, Conserved, Alive, EndedByStop, StreamState
    <2>4. st.pc = stream[s].pc
        BY <1>1 DEF StreamState
    <2> HIDE DEF st
    <2> QED
        BY <1>2, <2>1, <2>3, <2>4, OneStreamKeeps
<1> QED
    BY <1>4, <1>5 DEF StopListener

\* waitForSync ends with nil only after the initial lists or a cancellation.
LEMMA WaitForSyncKeeps ==
    ASSUME IInv, NEW s \in Streams, WaitForSync(s)
    PROVE  IInv'
<1>1. /\ Good(stream[s], informer[s], stops)
      /\ stream[s] \in StreamState /\ informer[s] \in [Types -> InformerState] /\ stops \in Nat
    BY Parts
<1>2. /\ stream[s].syncErr = "waiting"
      /\ informer' = [informer EXCEPT ![s] = informer[s]] /\ tracked' = tracked /\ stops' = stops
    BY Parts DEF WaitForSync
<1>3. stream[s].pc \notin {"idle", "track", "returned"}
    BY <1>1, <1>2 DEF Good, NotStarted, OwnInformers
<1>4. PICK y \in {"nil", "taken", "error"} :
          /\ stream' = [stream EXCEPT ![s].syncErr = y]
          /\ y # "error" => Done(s) \/ \A t \in Watched(s) : HasSynced(s, t)
    BY DEF WaitForSync
<1> DEFINE st == [stream[s] EXCEPT !.syncErr = y]
<1>5. stream' = [stream EXCEPT ![s] = st]
    BY <1>4 DEF IInv, TypeOK
<1>6. st \in StreamState
    BY <1>1 DEF StreamState
<1>7. /\ st.pc = stream[s].pc /\ st.over = stream[s].over /\ st.cancelled = stream[s].cancelled
      /\ st.request = stream[s].request /\ st.result = stream[s].result
      /\ st.cacheStop = stream[s].cacheStop /\ st.syncErr = y /\ st.err = stream[s].err
      /\ st.eventChan = stream[s].eventChan /\ st.passed = stream[s].passed
    BY <1>1 DEF StreamState
<1> HIDE DEF st
<1>8. Conserved(st, informer[s])
    BY <1>1, <1>4, <1>7 DEF Good, Conserved, Alive, Done, Watched, HasSynced
<1>9. Good(st, informer[s], stops)
    BY <1>1, <1>3, <1>6, <1>7, <1>8 DEF Good, Typed, NotStarted, OwnInformers, EndedByStop
<1> QED
    BY <1>2, <1>5, <1>7, <1>9, OneStreamKeeps

\* An informer that runs belongs to a stream that forwards or shuts down.
LEMMA RunningInformer ==
    ASSUME IInv, NEW s \in Streams, NEW t \in Types, informer[s][t].state \in {"list", "watch"}
    PROVE  stream[s].pc \in {"forward", "shutdown"} /\ t \in stream[s].request
<1>1. Good(stream[s], informer[s], stops) /\ stream[s] \in StreamState
    BY Parts
<1>2. stream[s].pc \notin {"idle", "track"}
    BY <1>1 DEF Good, NotStarted, IdleInformer
<1>3. stream[s].pc # "returned"
    BY <1>1 DEF Good, OwnInformers
<1>4. t \in stream[s].request
    BY <1>1, <1>2, <1>3 DEF Good, OwnInformers, StreamState
<1>5. stream[s].pc \notin {"untrack", "wait"}
    BY <1>1, <1>4 DEF Good, OwnInformers
<1> QED
    BY <1>1, <1>2, <1>3, <1>4, <1>5 DEF StreamState

\* A step of an informer that runs, which leaves its count of handled
\* notifications alone while the stream lives.
LEMMA OneInformer ==
    ASSUME IInv, NEW s \in Streams, NEW t \in Types, informer[s][t].state \in {"list", "watch"},
           NEW i \in InformerState, i.state # "off", i.busy => i.state = "watch",
           i.handled = informer[s][t].handled \/ Done(s),
           informer' = [informer EXCEPT ![s] = [informer[s] EXCEPT ![t] = i]],
           stream' = stream, tracked' = tracked, stops' = stops
    PROVE  IInv'
<1> DEFINE inf == [informer[s] EXCEPT ![t] = i]
<1>1. /\ Good(stream[s], informer[s], stops) /\ stream' = [stream EXCEPT ![s] = stream[s]]
      /\ stream[s] \in StreamState /\ informer[s] \in [Types -> InformerState] /\ stops \in Nat
    BY Parts
<1>2. stream[s].pc \in {"forward", "shutdown"} /\ t \in stream[s].request
    BY RunningInformer
<1>3. /\ inf \in [Types -> InformerState] /\ inf[t] = i
      /\ \A u \in Types \ {t} : inf[u] = informer[s][u]
    BY <1>1
<1> HIDE DEF inf
<1>4. Conserved(stream[s], inf)
    <2> SUFFICES ASSUME Alive(stream[s]) PROVE Conserved(stream[s], inf)
        BY DEF Conserved
    <2>1. \A u \in Types : inf[u].handled = informer[s][u].handled
        BY <1>3 DEF Alive, Done
    <2>2. stream[s].request \subseteq Types
        BY <1>1, <1>2 DEF Good, OwnInformers
    <2> QED
        BY <1>1, <2>1, <2>2 DEF Good, Conserved
<1>5. Good(stream[s], inf, stops)
    BY <1>1, <1>2, <1>3, <1>4 DEF Good, Typed, NotStarted, BusyWatches, OwnInformers
<1>6. informer' = [informer EXCEPT ![s] = inf]
    BY DEF inf
<1> QED
    BY <1>1, <1>5, <1>6, OneStreamKeeps

\* An informer that lists or sees a change has handled nothing more.
LEMMA NotifyKeeps ==
    ASSUME IInv, NEW s \in Streams, NEW t \in Types, Notify(s, t)
    PROVE  IInv'
<1>1. informer \in [Streams -> [Types -> InformerState]] /\ informer[s][t] \in InformerState
    BY DEF IInv, TypeOK
<1>2. stream' = stream /\ tracked' = tracked /\ stops' = stops
    BY DEF Notify
<1>3. CASE /\ informer[s][t].state = "list"
           /\ informer' = [informer EXCEPT ![s][t].state = "watch", ![s][t].emitted = Initial]
    <2> DEFINE i == [informer[s][t] EXCEPT !.state = "watch", !.emitted = Initial]
    <2>1. informer' = [informer EXCEPT ![s] = [informer[s] EXCEPT ![t] = i]]
        BY <1>1, <1>3
    <2>2. /\ i \in InformerState /\ i.state = "watch" /\ i.handled = informer[s][t].handled
        BY <1>1, InformerAssumption DEF InformerState
    <2> HIDE DEF i
    <2> QED
        BY <1>2, <1>3, <2>1, <2>2, OneInformer
<1>4. CASE /\ informer[s][t].state = "watch"
           /\ informer' = [informer EXCEPT ![s][t].emitted = @ + 1]
    <2> DEFINE i == [informer[s][t] EXCEPT !.emitted = @ + 1]
    <2>1. informer' = [informer EXCEPT ![s] = [informer[s] EXCEPT ![t] = i]]
        BY <1>1, <1>4
    <2>2. /\ i \in InformerState /\ i.state = "watch" /\ i.handled = informer[s][t].handled
        BY <1>1, <1>4 DEF InformerState
    <2> HIDE DEF i
    <2> QED
        BY <1>2, <1>4, <2>1, <2>2, OneInformer
<1> QED
    BY <1>3, <1>4 DEF Notify

\* A handler that is called has not returned yet.
LEMMA CallHandlerKeeps ==
    ASSUME IInv, NEW s \in Streams, NEW t \in Types, CallHandler(s, t)
    PROVE  IInv'
<1> DEFINE i == [informer[s][t] EXCEPT !.busy = TRUE]
<1>1. informer \in [Streams -> [Types -> InformerState]] /\ informer[s][t] \in InformerState
    BY DEF IInv, TypeOK
<1>2. /\ stream' = stream /\ tracked' = tracked /\ stops' = stops
      /\ informer[s][t].state = "watch"
    BY DEF CallHandler
<1>3. informer' = [informer EXCEPT ![s] = [informer[s] EXCEPT ![t] = i]]
    BY <1>1 DEF CallHandler
<1>4. i \in InformerState /\ i.state = "watch" /\ i.handled = informer[s][t].handled
    BY <1>1, <1>2 DEF InformerState
<1> HIDE DEF i
<1> QED
    BY <1>2, <1>3, <1>4, OneInformer

\* An informer exits only once the context of its stream is done.
LEMMA InformerExitsKeeps ==
    ASSUME IInv, NEW s \in Streams, NEW t \in Types, InformerExits(s, t)
    PROVE  IInv'
<1> DEFINE i == [IdleInformer EXCEPT !.state = "stopped"]
<1>1. informer \in [Streams -> [Types -> InformerState]]
    BY DEF IInv, TypeOK
<1>2. /\ stream' = stream /\ tracked' = tracked /\ stops' = stops
      /\ informer[s][t].state \in {"list", "watch"} /\ Done(s)
    BY DEF InformerExits
<1>3. informer' = [informer EXCEPT ![s] = [informer[s] EXCEPT ![t] = i]]
    BY <1>1 DEF InformerExits
<1>4. i \in InformerState /\ i.state = "stopped" /\ ~ i.busy
    BY DEF InformerState, IdleInformer
<1> HIDE DEF i
<1> QED
    BY <1>2, <1>3, <1>4, OneInformer

\* handleEvent queues its event, or gives up when the context is done.
LEMMA HandleEventKeeps ==
    ASSUME IInv, NEW s \in Streams, NEW t \in Types, HandleEvent(s, t)
    PROVE  IInv'
<1> DEFINE i == [informer[s][t] EXCEPT !.busy = FALSE, !.handled = @ + 1]
           inf == [informer[s] EXCEPT ![t] = i]
<1>1. /\ Good(stream[s], informer[s], stops) /\ stream = [stream EXCEPT ![s] = stream[s]]
      /\ stream[s] \in StreamState /\ informer[s] \in [Types -> InformerState] /\ stops \in Nat
    BY Parts
<1>2. /\ tracked' = tracked /\ stops' = stops /\ informer[s][t].busy
      /\ informer' = [informer EXCEPT ![s] = inf]
    BY DEF HandleEvent, IInv, TypeOK
<1>3. informer[s][t].state = "watch"
    BY <1>1, <1>2 DEF Good, BusyWatches
<1>4. stream[s].pc \in {"forward", "shutdown"} /\ t \in stream[s].request
    BY <1>3, RunningInformer
<1>5. informer[s][t] \in InformerState
    BY <1>1
<1>6. /\ i \in InformerState /\ i.state = "watch" /\ ~ i.busy
      /\ i.handled = informer[s][t].handled + 1
    <2>1. informer[s][t].handled + 1 \in Nat
        BY <1>5 DEF InformerState
    <2>2. ASSUME NEW a \in InformerState, a.state = "watch", NEW h \in Nat
          PROVE  LET b == [a EXCEPT !.busy = FALSE, !.handled = h]
                 IN  b \in InformerState /\ b.state = "watch" /\ ~ b.busy /\ b.handled = h
        BY <2>2 DEF InformerState
    <2>3. i = [informer[s][t] EXCEPT !.busy = FALSE, !.handled = informer[s][t].handled + 1]
        BY <1>5 DEF InformerState
    <2> QED
        BY <1>3, <1>5, <2>1, <2>2, <2>3
<1> HIDE DEF i
<1>7. /\ inf \in [Types -> InformerState] /\ inf[t] = i
      /\ \A u \in Types \ {t} : inf[u] = informer[s][u]
    BY <1>1, <1>6
<1> HIDE DEF inf
<1>8. CASE stream' = [stream EXCEPT ![s].eventChan = Append(@, t)]
    <2> DEFINE q == stream[s].eventChan
               st == [stream[s] EXCEPT !.eventChan = Append(q, t)]
    <2>1. stream' = [stream EXCEPT ![s] = st]
        BY <1>8 DEF IInv, TypeOK
    <2>2. q \in Seq(Types) /\ Append(q, t) \in Seq(Types)
        BY <1>1 DEF StreamState
    <2>3. st \in StreamState
        BY <1>1, <2>2 DEF StreamState
    <2>4. /\ st.pc = stream[s].pc /\ st.over = stream[s].over /\ st.cancelled = stream[s].cancelled
          /\ st.request = stream[s].request /\ st.result = stream[s].result
          /\ st.cacheStop = stream[s].cacheStop /\ st.syncErr = stream[s].syncErr
          /\ st.err = stream[s].err /\ st.eventChan = Append(q, t)
          /\ st.passed = stream[s].passed /\ st.stopper = stream[s].stopper
        BY <1>1 DEF StreamState
    <2> HIDE DEF st
    <2>5. Conserved(st, inf)
        <3> SUFFICES ASSUME Alive(st) PROVE Conserved(st, inf)
            BY DEF Conserved
        <3>1. Alive(stream[s]) /\ stream[s].request \subseteq Types
            BY <1>1, <1>4, <2>4 DEF Alive, Good, OwnInformers
        <3>2. ASSUME NEW u \in Types
              PROVE  inf[u].handled = st.passed[u] + Count(st.eventChan, u)
            <4>1. Count(Append(q, t), u) = Count(q, u) + (IF u = t THEN 1 ELSE 0)
                BY <2>2, CountAppend
            <4>2. informer[s][u].handled = stream[s].passed[u] + Count(q, u)
                BY <1>1, <3>1 DEF Good, Conserved
            <4>3. Count(q, u) \in Nat /\ stream[s].passed[u] \in Nat
                BY <1>1, <2>2, CountType DEF StreamState
            <4>4. inf[u].handled = informer[s][u].handled + (IF u = t THEN 1 ELSE 0)
                <5>1. informer[s][u].handled \in Nat
                    BY <1>1 DEF InformerState
                <5> QED
                    BY <1>6, <1>7, <5>1
            <4> HIDE DEF q
            <4> QED
                BY <2>4, <4>1, <4>2, <4>3, <4>4
        <3>3. ASSUME st.syncErr \in {"nil", "taken"}, NEW u \in st.request
              PROVE  inf[u].handled >= Initial
            <4>1. u \in Types /\ informer[s][u].handled >= Initial
                BY <1>1, <2>4, <3>1, <3>3 DEF Good, Conserved
            <4>2. informer[s][u].handled \in Nat
                BY <1>1, <4>1 DEF InformerState
            <4> QED
                BY <1>6, <1>7, <4>1, <4>2, InformerAssumption
        <3> QED
            BY <3>2, <3>3 DEF Conserved
    <2>6. Good(st, inf, stops)
        BY <1>1, <1>4, <1>6, <1>7, <2>3, <2>4, <2>5
        DEF Good, Typed, NotStarted, BusyWatches, OwnInformers, EndedByStop
    <2> QED
        BY <1>2, <2>1, <2>4, <2>6, OneStreamKeeps
<1>9. CASE GivesUp(s) /\ stream' = stream
    <2>1. Conserved(stream[s], inf)
        BY <1>9 DEF GivesUp, Done, Conserved, Alive
    <2>2. Good(stream[s], inf, stops)
        BY <1>1, <1>4, <1>6, <1>7, <2>1
        DEF Good, Typed, NotStarted, BusyWatches, OwnInformers
    <2>3. stream' = [stream EXCEPT ![s] = stream[s]]
        BY <1>1, <1>9
    <2> QED
        BY <1>2, <2>2, <2>3, OneStreamKeeps
<1> QED
    BY <1>8, <1>9 DEF HandleEvent

\* A client may leave at any moment.
LEMMA ClientGoneKeeps ==
    ASSUME IInv, NEW s \in Streams, ClientGone(s)
    PROVE  IInv'
<1> DEFINE st == [stream[s] EXCEPT !.over = TRUE]
<1>1. /\ Good(stream[s], informer[s], stops)
      /\ stream[s] \in StreamState /\ informer[s] \in [Types -> InformerState] /\ stops \in Nat
    BY Parts
<1>2. /\ stream[s].pc \notin {"idle", "track", "returned"} /\ stream' = [stream EXCEPT ![s] = st]
      /\ informer' = [informer EXCEPT ![s] = informer[s]] /\ tracked' = tracked /\ stops' = stops
    BY Parts DEF ClientGone, IInv, TypeOK
<1>3. st \in StreamState
    BY <1>1 DEF StreamState
<1>4. Good(st, informer[s], stops)
    BY <1>1, <1>2, <1>3
    DEF Good, Typed, NotStarted, OwnInformers, Conserved, Alive, EndedByStop, StreamState
<1>5. st.pc = stream[s].pc
    BY <1>1 DEF StreamState
<1> HIDE DEF st
<1> QED
    BY <1>2, <1>4, <1>5, OneStreamKeeps

\* A call of Stop closes one channel more, for every stream.
LEMMA StopKeeps ==
    ASSUME IInv, Stop
    PROVE  IInv'
<1>1. stops' = stops + 1 /\ stream' = stream /\ informer' = informer /\ tracked' = tracked
    BY DEF Stop
<1>2. stops \in Nat /\ stops' \in Nat
    BY <1>1 DEF IInv, TypeOK
<1>3. ASSUME NEW s \in Streams PROVE Good(stream[s], informer[s], stops + 1)
    <2>1. Good(stream[s], informer[s], stops) /\ stream[s].cacheStop \in Nat
        BY Parts DEF StreamState
    <2> QED
        BY <1>2, <2>1 DEF Good, Typed, EndedByStop
<1> QED
    BY <1>1, <1>2, <1>3 DEF IInv, TypeOK, TrackedAreLive

\* The invariant holds before any stream.
LEMMA InitIInv == Init => IInv
<1> SUFFICES ASSUME Init PROVE IInv
    OBVIOUS
<1>1. IdleStream \in StreamState /\ IdleInformer \in InformerState
    BY DEF IdleStream, StreamState, IdleInformer, InformerState
<1>2. TypeOK
    BY <1>1 DEF Init, TypeOK
<1>3. TrackedAreLive
    BY InformerAssumption DEF Init, TrackedAreLive
<1>4. ASSUME NEW s \in Streams PROVE Good(stream[s], informer[s], stops)
    <2>1. /\ stream[s] = IdleStream /\ stops = 0
          /\ informer[s] = [t \in Types |-> IdleInformer]
        BY DEF Init
    <2>2. Typed(stream[s], informer[s], stops)
        BY <1>1, <2>1 DEF Typed
    <2>3. NotStarted(stream[s], informer[s])
        BY <2>1 DEF NotStarted, IdleStream, NothingPassed
    <2> QED
        BY <2>1, <2>2, <2>3
        DEF Good, BusyWatches, OwnInformers, Conserved, Alive, EndedByStop, IdleStream, IdleInformer
<1> QED
    BY <1>2, <1>3, <1>4 DEF IInv

\* Every step keeps the invariant.
LEMMA NextIInv == IInv /\ [Next]_vars => IInv'
<1> SUFFICES ASSUME IInv, [Next]_vars PROVE IInv'
    OBVIOUS
<1>1. CASE UNCHANGED vars
    BY <1>1 DEF vars, IInv, TypeOK, TrackedAreLive
<1>2. CASE Stop
    BY <1>2, StopKeeps
<1>3. ASSUME NEW s \in Streams, \E r \in Requests : SetupInformers(s, r) PROVE IInv'
    BY <1>3, SetupInformersKeeps
<1>4. ASSUME NEW s \in Streams, Handler(s) PROVE IInv'
    BY <1>4, StartInformersKeeps, ForwardEventsKeeps, ShutdownKeeps, UntrackInformersKeeps,
       ReturnResultKeeps DEF Handler
<1>5. ASSUME NEW s \in Streams, StopListener(s) \/ WaitForSync(s) \/ ClientGone(s) PROVE IInv'
    BY <1>5, StopListenerKeeps, WaitForSyncKeeps, ClientGoneKeeps
<1>6. ASSUME NEW s \in Streams, NEW t \in Types,
             Notify(s, t) \/ CallHandler(s, t) \/ HandleEvent(s, t) \/ InformerExits(s, t)
      PROVE  IInv'
    BY <1>6, NotifyKeeps, CallHandlerKeeps, HandleEventKeeps, InformerExitsKeeps
<1> QED
    BY <1>1, <1>2, <1>3, <1>4, <1>5, <1>6 DEF Next

(***************************************************************************)
(* The theorems.                                                           *)
(***************************************************************************)

\* The invariant holds in every state of the watch streams.
THEOREM Invariance == Spec => []IInv
BY InitIInv, NextIInv, PTL DEF Spec

\* Every variable has its type: the events queued are those of the types of
\* the provider, and every stream is at a step of StreamInformers.
THEOREM TypeCorrect == Spec => []TypeOK
<1>1. IInv => TypeOK
    BY DEF IInv
<1> QED
    BY <1>1, Invariance, PTL

\* While a stream lives, handleEvent and forwardEvents lose nothing between
\* them: what the handlers have returned from is queued or was sent.
THEOREM EventsAreConserved == Spec => []NothingLost
<1>1. IInv => NothingLost
    <2> SUFFICES ASSUME IInv, NEW s \in Streams, ~ Done(s), stream[s].pc = "forward",
                        NEW t \in Types
                 PROVE  informer[s][t].handled = stream[s].passed[t] + Queued(s, t)
        BY DEF NothingLost
    <2> QED
        BY Parts DEF Good, Conserved, Alive, Done, Queued
<1> QED
    BY <1>1, Invariance, PTL

\* A stream for which waitForSync has succeeded has had the whole initial list
\* of every type it watches.
THEOREM SyncIsDelivery == Spec => []SyncedMeansDelivered
<1>1. IInv => SyncedMeansDelivered
    <2> SUFFICES ASSUME IInv, NEW s \in Streams, stream[s].pc = "forward", ~ Done(s),
                        stream[s].syncErr \in {"nil", "taken"}, NEW t \in Watched(s)
                 PROVE  stream[s].passed[t] + Queued(s, t) >= Initial
        BY DEF SyncedMeansDelivered
    <2>1. Good(stream[s], informer[s], stops) /\ Alive(stream[s])
        BY Parts DEF Alive, Done
    <2>2. t \in Types /\ informer[s][t].handled >= Initial
        BY <2>1 DEF Good, OwnInformers, Conserved, Watched
    <2>3. informer[s][t].handled = stream[s].passed[t] + Queued(s, t)
        BY <2>1, <2>2 DEF Good, Conserved, Queued
    <2> QED
        BY <2>2, <2>3
<1> QED
    BY <1>1, Invariance, PTL

\* StreamInformers returns only when its goroutines and informers are gone and
\* none of its informers is tracked.
THEOREM ReturnIsClean == Spec => []NothingLeftBehind
<1>1. IInv => NothingLeftBehind
    <2> SUFFICES ASSUME IInv, NEW s \in Streams, stream[s].pc = "returned"
                 PROVE  /\ stream[s].stopper = "done" /\ stream[s].syncErr # "waiting"
                        /\ \A t \in Types : /\ informer[s][t].state \in {"off", "stopped"}
                                            /\ ~ informer[s][t].busy
                                            /\ tracked[t] # s
        BY DEF NothingLeftBehind
    <2>1. Good(stream[s], informer[s], stops)
        BY Parts
    <2>2. \A t \in Types : tracked[t] # s
        BY DEF IInv, TrackedAreLive
    <2> QED
        BY <2>1, <2>2 DEF Good, OwnInformers, BusyWatches
<1> QED
    BY <1>1, Invariance, PTL

\* "informer cache stopped" is returned by streams that Stop has ended.
THEOREM StoppedIsStopped == Spec => []StoppedMeansStopped
<1>1. IInv => StoppedMeansStopped
    <2> SUFFICES ASSUME IInv, NEW s \in Streams, stream[s].result = "stopped"
                 PROVE  StopClosed(s)
        BY DEF StoppedMeansStopped
    <2> QED
        BY Parts DEF Good, EndedByStop, StopClosed
<1> QED
    BY <1>1, Invariance, PTL

\* trackInformers(informers, false) forgets only the informers of the stream
\* that calls it.
THEOREM OwnersForget == Spec => OthersStayTracked
<1> DEFINE Kept == \A t \in Types : tracked[t] # None /\ tracked'[t] = None =>
                       stream[tracked[t]].pc = "untrack"
<1>1. IInv /\ [Next]_vars => [Kept]_vars
    <2> SUFFICES ASSUME IInv, Next, NEW t \in Types, tracked[t] # None, tracked'[t] = None
                 PROVE  stream[tracked[t]].pc = "untrack"
        OBVIOUS
    <2>1. tracked' # tracked
        OBVIOUS
    <2>2. PICK s \in Streams : StartInformers(s) \/ UntrackInformers(s)
        <3>1. ~ Stop
            BY <2>1 DEF Stop
        <3>2. ASSUME NEW s \in Streams, NEW r \in Requests PROVE ~ SetupInformers(s, r)
            BY <2>1 DEF SetupInformers
        <3>3. ASSUME NEW s \in Streams
              PROVE  ~ (ForwardEvents(s) \/ Shutdown(s) \/ ReturnResult(s))
            BY <2>1 DEF ForwardEvents, Shutdown, ReturnResult
        <3>4. ASSUME NEW s \in Streams
              PROVE  ~ (StopListener(s) \/ WaitForSync(s) \/ ClientGone(s))
            BY <2>1 DEF StopListener, WaitForSync, ClientGone
        <3>5. ASSUME NEW s \in Streams, NEW u \in Types
              PROVE  ~ (\/ Notify(s, u) \/ CallHandler(s, u) \/ HandleEvent(s, u)
                        \/ InformerExits(s, u))
            BY <2>1 DEF Notify, CallHandler, HandleEvent, InformerExits
        <3>6. \E s \in Streams : Handler(s)
            BY <3>1, <3>2, <3>4, <3>5, Zenon DEF Next
        <3> QED
            BY <3>3, <3>6, Zenon DEF Handler
    <2>3. CASE StartInformers(s)
        <3>1. tracked'[t] \in {s, tracked[t]}
            BY <2>3 DEF StartInformers
        <3> QED
            BY <3>1, InformerAssumption
    <2>4. CASE UntrackInformers(s)
        BY <2>4 DEF UntrackInformers, Forget
    <2> QED
        BY <2>2, <2>3, <2>4
<1> QED
    BY <1>1, Invariance, PTL DEF Spec, OthersStayTracked
=============================================================================
