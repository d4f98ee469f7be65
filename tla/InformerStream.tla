--------------------------- MODULE InformerStream ---------------------------
(***************************************************************************)
(* The watch streams of the Kubernetes provider (informer_cache.go): the   *)
(* StreamInformers of several clients, the goroutines each one starts (an  *)
(* informer with its handler per type, the wait for the first sync, the    *)
(* one that listens for Stop), and what they share: the map of tracked     *)
(* informers and the stop channel that Stop closes and replaces.           *)
(*                                                                         *)
(* client-go is external: an informer that runs may list its Initial       *)
(* objects (or never, when RBAC forbids it), may see further changes, and  *)
(* calls its handler for one notification after the other; it exits once   *)
(* its stop channel is closed and its handler has returned.  The i-th      *)
(* notification of a type is known by its type and position alone.         *)
(***************************************************************************)
EXTENDS Integers, FiniteSets, Sequences

CONSTANTS
    Streams,    \* bound: the streams of this provider process
    Types,      \* the resource types getResourceDefinition resolves
    Requests,   \* what may be asked: the sets of types to watch
    ChanSize,   \* watchEventBufferSize
    Initial,    \* bound: objects of a type at the first list
    MaxNotes,   \* bound: per stream, the notifications of an informer
    MaxStops,   \* bound: calls of Stop
    None

ASSUME InformerAssumption ==
    /\ None \notin Streams
    /\ ChanSize \in Nat \ {0} /\ Initial \in Nat \ {0}
    /\ MaxNotes \in [Streams -> Nat] /\ MaxStops \in Nat

VARIABLES
    stream,   \* per stream: the state of StreamInformers and of its goroutines
    informer, \* per stream and type: the informer and its handler
    tracked,  \* resourceInformers: the stream whose informer a type has, or None
    stops     \* how many stop channels Stop has closed

vars == <<stream, informer, tracked, stops>>

IdleStream ==
    [pc |-> "idle", request |-> None, cacheStop |-> 0, over |-> FALSE, cancelled |-> FALSE,
     eventChan |-> <<>>, stopper |-> "done", syncErr |-> "none",
     err |-> "none", result |-> "none",
     passed |-> [t \in Types |-> 0]] \* notifications handed to send, while it forwards

IdleInformer == [state |-> "off", emitted |-> 0, handled |-> 0, busy |-> FALSE]

Init ==
    /\ stream = [s \in Streams |-> IdleStream]
    /\ informer = [s \in Streams |-> [t \in Types |-> IdleInformer]]
    /\ tracked = [t \in Types |-> None]
    /\ stops = 0

Watched(s) == stream[s].request

\* ctx, derived from the context of the client's stream (parent).
Done(s) == stream[s].over \/ stream[s].cancelled

\* Whether the stop channel the stream has read is closed.
StopClosed(s) == stops > stream[s].cacheStop

\* The value waitForSync leaves once nobody will read it.
Unread(s) == IF stream[s].syncErr = "waiting" THEN "waiting" ELSE "taken"

\* What is left of a call: its result, and the goroutines it has not waited for.
Return(s, result) ==
    [IdleStream EXCEPT !.pc = "returned", !.result = result,
                       !.cacheStop = stream[s].cacheStop, !.stopper = stream[s].stopper,
                       !.syncErr = Unread(s)]

NothingPassed == [t \in Types |-> 0]

(***************************************************************************)
(* StreamInformers and its callers, on the goroutine of the gRPC handler.  *)
(***************************************************************************)

\* streamWithInformers: SetupInformers refuses a request when one of its types
\* is not known.  StreamInformers then reads the stop channel and registers the
\* handlers; a registration that fails undoes the ones before it, when nothing
\* has run yet.
SetupInformers(s, r) ==
    /\ stream[s].pc = "idle"
    /\ \/ /\ ~ r \subseteq Types
          /\ stream' = [stream EXCEPT ![s] = Return(s, "setup")]
       \/ /\ r \subseteq Types
          /\ \/ stream' = [stream EXCEPT ![s] = Return(s, "handlers")]
             \/ stream' = [stream EXCEPT ![s].pc = "track", ![s].request = r,
                                         ![s].cacheStop = stops]
    /\ UNCHANGED <<informer, tracked, stops>>

\* Bug variant: every key of the stream is deleted, whoever holds it.
ForgetAll(s) == [t \in Types |-> IF t \in Watched(s) THEN None ELSE tracked[t]]

\* trackInformers(informers, false)
Forget(s) == [t \in Types |-> IF tracked[t] = s THEN None ELSE tracked[t]]

\* trackInformers(informers, true), factory.Start and the two goroutines.
StartInformers(s) ==
    /\ stream[s].pc = "track"
    /\ tracked' = [t \in Types |-> IF t \in Watched(s) THEN s ELSE tracked[t]]
    /\ informer' = [informer EXCEPT ![s] = [t \in Types |-> IF t \in Watched(s)
                                                            THEN [@[t] EXCEPT !.state = "list"]
                                                            ELSE @[t]]]
    /\ stream' = [stream EXCEPT ![s].pc = "forward", ![s].stopper = "select",
                                ![s].syncErr = "waiting"]
    /\ UNCHANGED stops

\* Bug variant: Shutdown is called first, cancel only by the defer.
ShutdownFirst(s, err) ==
    [stream[s] EXCEPT !.pc = "shutdown", !.err = err, !.passed = NothingPassed,
                      !.syncErr = Unread(s)]

\* The return of forwardEvents, followed by cancel().
EndForward(s, err) ==
    [stream[s] EXCEPT !.pc = "shutdown", !.err = err, !.passed = NothingPassed,
                      !.syncErr = Unread(s), !.cancelled = TRUE]

\* Bug variant: the failure of a send only ends the loop.
SendFailedQuietly(s) == EndForward(s, "none")

SendFailed(s) == EndForward(s, "send")

\* forwardEvents: one of the ready cases of its select, and the send.
ForwardEvents(s) ==
    /\ stream[s].pc = "forward"
    /\ \/ /\ stream[s].eventChan # <<>>
          /\ \/ stream' = [stream EXCEPT ![s].eventChan = Tail(@),
                                         ![s].passed[Head(stream[s].eventChan)] = @ + 1]
             \/ stream' = [stream EXCEPT ![s] = SendFailed(s)]
       \/ /\ stream[s].syncErr = "nil"
          /\ stream' = [stream EXCEPT ![s].syncErr = "taken"]
       \/ /\ stream[s].syncErr = "error"
          /\ stream' = [stream EXCEPT ![s] = EndForward(s, "sync")]
       \/ /\ Done(s)
          /\ stream' = [stream EXCEPT ![s] = EndForward(s, "none")]
    /\ UNCHANGED <<informer, tracked, stops>>

\* factory.Shutdown waits for the informers; removeHandlers then finds them stopped.
Shutdown(s) ==
    /\ stream[s].pc = "shutdown"
    /\ \A t \in Watched(s) : informer[s][t].state = "stopped"
    /\ stream' = [stream EXCEPT ![s].pc = "untrack"]
    /\ UNCHANGED <<informer, tracked, stops>>

UntrackInformers(s) ==
    /\ stream[s].pc = "untrack"
    /\ tracked' = Forget(s)
    /\ stream' = [stream EXCEPT ![s].pc = "wait"]
    /\ UNCHANGED <<informer, stops>>

\* Bug variant: the return does not wait for the two goroutines.
NoWait(s) == TRUE

\* wg.Wait()
Joined(s) == stream[s].stopper = "done" /\ stream[s].syncErr # "waiting"

ReturnResult(s) ==
    /\ stream[s].pc = "wait" /\ Joined(s)
    /\ stream' = [stream EXCEPT ![s] = Return(s, IF @.err # "none" THEN @.err
                                                 ELSE IF @.over THEN "context"
                                                 ELSE "stopped")]
    /\ UNCHANGED <<informer, tracked, stops>>

Handler(s) ==
    \/ StartInformers(s) \/ ForwardEvents(s) \/ Shutdown(s)
    \/ UntrackInformers(s) \/ ReturnResult(s)

(***************************************************************************)
(* The other goroutines of a stream.                                       *)
(***************************************************************************)
\* select { case <-cacheStop: cancel() case <-ctx.Done(): }
StopListener(s) ==
    /\ stream[s].stopper = "select"
    /\ \/ StopClosed(s) /\ stream' = [stream EXCEPT ![s].stopper = "done", ![s].cancelled = TRUE]
       \/ Done(s) /\ stream' = [stream EXCEPT ![s].stopper = "done"]
    /\ UNCHANGED <<informer, tracked, stops>>

\* Bug variant: the wait is for the informer's store, not for the handler.
StoreSynced(s, t) == informer[s][t].emitted >= Initial

\* registration.HasSynced: the handler has returned from the initial list.
HasSynced(s, t) == informer[s][t].handled >= Initial

\* waitForSync: synced, over with the stream, or timed out.  The condition is
\* polled, so the timeout may come first even when the caches have synced.
WaitForSync(s) ==
    /\ stream[s].syncErr = "waiting"
    /\ \/ /\ Done(s) \/ \A t \in Watched(s) : HasSynced(s, t)
          /\ stream' = [stream EXCEPT ![s].syncErr = IF stream[s].pc = "forward" THEN "nil"
                                                     ELSE "taken"]
       \/ /\ ~ Done(s)
          /\ stream' = [stream EXCEPT ![s].syncErr = "error"]
    /\ UNCHANGED <<informer, tracked, stops>>

\* The informer lists its objects, or sees a change (external).
Notify(s, t) ==
    /\ \/ /\ informer[s][t].state = "list" /\ Initial <= MaxNotes[s]
          /\ informer' = [informer EXCEPT ![s][t].state = "watch", ![s][t].emitted = Initial]
       \/ /\ informer[s][t].state = "watch" /\ informer[s][t].emitted < MaxNotes[s]
          /\ informer' = [informer EXCEPT ![s][t].emitted = @ + 1]
    /\ UNCHANGED <<stream, tracked, stops>>

\* The informer's processor calls the handler with the next notification.
CallHandler(s, t) ==
    /\ informer[s][t].state = "watch" /\ ~ informer[s][t].busy
    /\ informer[s][t].handled < informer[s][t].emitted
    /\ informer' = [informer EXCEPT ![s][t].busy = TRUE]
    /\ UNCHANGED <<stream, tracked, stops>>

\* Bug variant: a full channel drops the notification (a default case).
DropsWhenFull(s) == Done(s) \/ Len(stream[s].eventChan) = ChanSize

\* case <-ctx.Done():
GivesUp(s) == Done(s)

\* handleEvent: select { case eventChan <- resource: case <-ctx.Done(): }
HandleEvent(s, t) ==
    /\ informer[s][t].busy
    /\ \/ /\ Len(stream[s].eventChan) < ChanSize
          /\ stream' = [stream EXCEPT ![s].eventChan = Append(@, t)]
       \/ GivesUp(s) /\ UNCHANGED stream
    /\ informer' = [informer EXCEPT ![s][t].busy = FALSE, ![s][t].handled = @ + 1]
    /\ UNCHANGED <<tracked, stops>>

\* The informer exits: its stop channel is ctx.Done() (external).
InformerExits(s, t) ==
    /\ informer[s][t].state \in {"list", "watch"} /\ ~ informer[s][t].busy
    /\ Done(s)
    /\ informer' = [informer EXCEPT ![s][t] = [IdleInformer EXCEPT !.state = "stopped"]]
    /\ UNCHANGED <<stream, tracked, stops>>

(***************************************************************************)
(* The environment.                                                        *)
(***************************************************************************)
\* The client disconnects, which ends parent.  (Nothing looks at it before the
\* informers have started.)
ClientGone(s) ==
    /\ stream[s].pc \notin {"idle", "track", "returned"} /\ ~ stream[s].over
    /\ stream' = [stream EXCEPT ![s].over = TRUE]
    /\ UNCHANGED <<informer, tracked, stops>>

\* InformerCache.Stop: closes the stop channel and makes a new one.
Stop ==
    /\ stops < MaxStops
    /\ stops' = stops + 1
    /\ UNCHANGED <<stream, informer, tracked>>

Next ==
    \/ \E s \in Streams :
          \/ \E r \in Requests : SetupInformers(s, r)
          \/ Handler(s) \/ StopListener(s) \/ WaitForSync(s) \/ ClientGone(s)
          \/ \E t \in Types : Notify(s, t) \/ CallHandler(s, t) \/ HandleEvent(s, t)
                              \/ InformerExits(s, t)
    \/ Stop

\* Every goroutine runs, a send returns, and informers exit; nobody promises
\* that a list succeeds, that a client leaves or that Stop is called.
Fairness ==
    \A s \in Streams :
        /\ WF_vars(Handler(s)) /\ WF_vars(StopListener(s)) /\ WF_vars(WaitForSync(s))
        /\ \A t \in Types : WF_vars(CallHandler(s, t)) /\ WF_vars(HandleEvent(s, t))
                            /\ WF_vars(InformerExits(s, t))

Spec == Init /\ [][Next]_vars /\ Fairness

(***************************************************************************)
(* Properties.                                                             *)
(***************************************************************************)

\* How often t occurs in a sequence, and in the channel of a stream.
Count(q, t) == Cardinality({k \in DOMAIN q : q[k] = t})

Queued(s, t) == Count(stream[s].eventChan, t)

\* While a stream lives, every notification a handler has returned from is in
\* the channel or was passed to send: a slow client slows the
\* informers down and loses nothing.
NothingLost ==
    \A s \in Streams : ~ Done(s) /\ stream[s].pc = "forward" =>
        \A t \in Types : informer[s][t].handled = stream[s].passed[t] + Queued(s, t)

\* A stream that counts as synced has had its whole initial list put before
\* the reader, not only stored (waitForSync waits on the registrations).
SyncedMeansDelivered ==
    \A s \in Streams :
        stream[s].pc = "forward" /\ ~ Done(s) /\ stream[s].syncErr \in {"nil", "taken"} =>
        \A t \in Watched(s) : stream[s].passed[t] + Queued(s, t) >= Initial

\* A stream returns only when every goroutine it started is gone, and leaves
\* no stopped informer for GetCachedResources to read.
NothingLeftBehind ==
    \A s \in Streams : stream[s].pc = "returned" =>
        /\ stream[s].stopper = "done" /\ stream[s].syncErr # "waiting"
        /\ \A t \in Types : /\ informer[s][t].state \in {"off", "stopped"}
                            /\ ~ informer[s][t].busy
                            /\ tracked[t] # s

\* "informer cache stopped" is the result of a stream that Stop has ended, and
\* of no other.
StoppedMeansStopped ==
    \A s \in Streams : stream[s].result = "stopped" => StopClosed(s)

\* The informer of a type is forgotten only by the stream it belongs to: two
\* clients that watch one type do not untrack each other.
OthersStayTracked ==
    [][\A t \in Types : tracked[t] # None /\ tracked'[t] = None =>
          stream[tracked[t]].pc = "untrack"]_vars

\* A stream whose client is gone, whose cache is stopped or that has failed
\* returns: Shutdown never waits for a handler that waits for the reader.
StreamReturns ==
    \A s \in Streams :
        (/\ stream[s].pc \notin {"idle", "returned"}
         /\ Done(s) \/ (StopClosed(s) /\ stream[s].pc = "forward") \/ stream[s].pc = "shutdown")
        ~> (stream[s].pc = "returned")
=============================================================================
