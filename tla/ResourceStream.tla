--------------------------- MODULE ResourceStream ---------------------------
(***************************************************************************)
(* One streamed scan, end to end: the producer that lists a cloud (the     *)
(* StreamScanResources of the Kubernetes, Azure and GCP providers), the    *)
(* streamResources that runs it and sends what it emits (stream.go, the    *)
(* same file in the three providers), the gRPC stream between the plugin   *)
(* and the host, and the host's forwardStream (internal/shared/plugin.go). *)
(*                                                                         *)
(* A cluster has Types x Pages resources, one to a page.  The types to     *)
(* stream are the ones the request names; for Kubernetes, when it names    *)
(* none, the ones that the discovery of a cluster lists, which may be      *)
(* fewer than there are.                                                   *)
(* gRPC is external: it delivers in order, its window holds WireSize       *)
(* messages, its end carries the status of the handler, and a stream whose *)
(* context is over may fail any call that is still made on it.             *)
(***************************************************************************)
EXTENDS Integers, Sequences

CONSTANTS
    Clusters,  \* bound: the clusters of the Kubernetes provider, visited in order
    Types,     \* bound: resource types (services) of a cluster
    Pages,     \* bound: pages of a type
    ChanSize,  \* streamBufferSize
    WireSize,  \* bound: the window of the gRPC stream
    Requests   \* the calls: by style and by the types they name

ASSUME StreamAssumption ==
    /\ Clusters \in Nat \ {0} /\ Types \in Nat \ {0} /\ Pages \in Nat \ {0}
    /\ ChanSize \in Nat \ {0} /\ WireSize \in Nat \ {0}
    /\ Requests \subseteq [style : {"pages", "group", "refs"}, names : Seq(1..Types)]

VARIABLES
    request,   \* "pages": StreamScan of Kubernetes; "group": its StreamScanService;
               \* "refs": StreamScan of Azure and GCP; and the types named
    over,      \* whether the context of the stream (parent) is over
    alive,     \* whether the plugin process is running
    cluster,   \* the cluster being streamed
    plan,      \* the types taken up so far, as <<cluster, type>>, in order
    skipped,   \* history: the types that discovery left out with a warning
    cancelled, \* whether streamResources called cancel()
    chan,      \* resourceChan
    closed,    \* whether resourceChan is closed
    prod,      \* the producer: pc, place in the plan, page, refs to send, failed, err
    cons,      \* streamResources: pc, the resource in hand, whether send failed
    wire,      \* messages sent by the plugin and not received by the host
    ended,     \* the status of the plugin's handler: "no", "nil" or "error"
    host,      \* forwardStream: pc, the resource in hand, its result
    got        \* what the host passed to its own caller

streamVars == <<request, over, alive, cluster, plan, skipped, cancelled, chan, closed, prod, cons,
                wire, ended, host, got>>

Resource(k, p) == [of |-> k, page |-> p]

\* The n-th resource of a list of types, and all that was to be streamed.
Nth(types, n) == Resource(types[((n - 1) \div Pages) + 1], ((n - 1) % Pages) + 1)

Inventory == [n \in 1..(Len(plan) * Pages) |-> Nth(plan, n)]

\* StreamScanService of an API group that getResourcesForAPIGroup does not list.
Unlisted == request.style = "group" /\ request.names = <<>>

\* Only the Kubernetes provider streams more than once, cluster by cluster.
Streams == IF Unlisted THEN 0 ELSE IF request.style = "refs" THEN 1 ELSE Clusters

TypesOf(list) == {list[i] : i \in 1..Len(list)}

\* What a request asks of each cluster.
Wanted == IF request.style = "pages" /\ request.names = <<>> THEN 1..Types
          ELSE TypesOf(request.names)

\* The context handed to the producer is over with its parent, or by cancel().
Done == over \/ cancelled

\* The producer starts after the types that are already through.
StartedProducer(at) ==
    [pc |-> "discover", at |-> at, page |-> 1, refs |-> <<>>, failed |-> FALSE, err |-> FALSE]

ForwardingConsumer == [pc |-> "forward", held |-> <<>>, sendErr |-> FALSE]

\* A group that is not listed is answered at once, without an error.
StreamInit ==
    /\ request \in Requests
    /\ over = FALSE /\ alive = TRUE
    /\ cluster = IF Unlisted THEN 0 ELSE 1
    /\ plan = <<>> /\ skipped = {}
    /\ cancelled = FALSE
    /\ chan = <<>> /\ closed = Unlisted
    /\ prod = [StartedProducer(0) EXCEPT !.pc = IF Unlisted THEN "done" ELSE @]
    /\ cons = [ForwardingConsumer EXCEPT !.pc = IF Unlisted THEN "returned" ELSE @]
    /\ wire = <<>> /\ ended = IF Unlisted THEN "nil" ELSE "no"
    /\ host = [pc |-> "recv", held |-> <<>>, result |-> "none"]
    /\ got = <<>>

(***************************************************************************)
(* The producer.  It owns the channel, closes it as it returns, and hands  *)
(* its error over after that.                                              *)
(***************************************************************************)
ProducerOnly == UNCHANGED <<request, over, alive, cluster, cancelled, cons, wire, ended, host, got>>

\* The producer returns: with the context's error, or with the joined errors.
ReturnCtxErr(p) == [p EXCEPT !.pc = "close", !.err = TRUE]

\* After a type is through: the next of the list, or the return of what failed.
AfterType(p, types) ==
    IF p.at < Len(types) THEN [p EXCEPT !.pc = "list", !.at = @ + 1, !.page = 1]
    ELSE [p EXCEPT !.pc = "close", !.err = p.failed]

\* The cluster's types of a list, for the plan.
OfCluster(names) == [i \in 1..Len(names) |-> <<cluster, names[i]>>]

\* The types as the loop of StreamScanResources takes them up.
TakeUp(names) ==
    /\ plan' = plan \o OfCluster(names)
    /\ prod' = AfterType(prod, plan \o OfCluster(names))

\* The lists DiscoverAllResources may come to: groups are read in order, and
\* one that cannot be read, or the CRDs, is left out with a printed warning.
Listings ==
    UNION {{s \in [1..n -> 1..Types] : \A i, j \in 1..n : i < j => s[i] < s[j]} : n \in 0..Types}

LeftOut(names) == {cluster} \X ((1..Types) \ TypesOf(names))

\* The types of the request, or, for Kubernetes when it names none, the ones
\* discovered; without the list of API groups discovery fails.
TakeTypes ==
    /\ alive /\ prod.pc = "discover"
    /\ \/ /\ request.names # <<>> \/ request.style = "refs"
          /\ TakeUp(request.names)
          /\ UNCHANGED skipped
       \/ /\ request.names = <<>> /\ request.style = "pages"
          /\ \E names \in Listings :
                /\ TakeUp(names)
                /\ skipped' = skipped \cup LeftOut(names)
       \/ /\ request.names = <<>> /\ request.style = "pages"
          /\ prod' = [prod EXCEPT !.pc = "close", !.err = TRUE]
          /\ UNCHANGED <<plan, skipped>>
    /\ UNCHANGED <<chan, closed>>
    /\ ProducerOnly

\* Kubernetes: one page of a type is listed.  A failure ends the type, and
\* the whole stream when the context is over.
ListPage ==
    /\ alive /\ prod.pc = "list" /\ request.style # "refs"
    /\ \/ prod' = [prod EXCEPT !.pc = "send",
                               !.refs = <<Resource(plan[prod.at], prod.page)>>]
       \/ prod' = IF Done THEN ReturnCtxErr(prod)
                  ELSE AfterType([prod EXCEPT !.failed = TRUE], plan)
    /\ UNCHANGED <<plan, skipped, chan, closed>>
    /\ ProducerOnly

\* Azure and GCP: a service is scanned whole.  It may yield fewer resources
\* with an error, or, once the context is over, without one.
ScanService ==
    /\ alive /\ prod.pc = "list" /\ request.style = "refs"
    /\ \E n \in 0..Pages, failed \in BOOLEAN :
          /\ n < Pages => failed \/ Done
          /\ prod' = [prod EXCEPT !.pc = "send", !.page = Pages,
                                  !.refs = [i \in 1..n |-> Resource(plan[prod.at], i)],
                                  !.failed = @ \/ failed]
    /\ UNCHANGED <<plan, skipped, chan, closed>>
    /\ ProducerOnly

\* select { case resourceChan <- resource: ... case <-ctx.Done(): return }
Emit ==
    /\ alive /\ prod.pc = "send"
    /\ \/ /\ prod.refs # <<>>
          /\ Len(chan) < ChanSize
          /\ chan' = Append(chan, Head(prod.refs))
          /\ prod' = [prod EXCEPT !.refs = Tail(@)]
       \/ /\ prod.refs # <<>>
          /\ Done
          /\ prod' = ReturnCtxErr(prod)
          /\ UNCHANGED chan
       \/ /\ prod.refs = <<>>
          /\ prod' = IF prod.page < Pages THEN [prod EXCEPT !.pc = "list", !.page = @ + 1]
                     ELSE AfterType(prod, plan)
          /\ UNCHANGED chan
    /\ UNCHANGED <<plan, skipped, closed>>
    /\ ProducerOnly

CloseChan ==
    /\ alive /\ prod.pc = "close"
    /\ closed' = TRUE
    /\ prod' = [prod EXCEPT !.pc = "report"]
    /\ UNCHANGED <<plan, skipped, chan>>
    /\ ProducerOnly

\* scanErr <- streamer.StreamScanResources(...)
ReportScanErr ==
    /\ alive /\ prod.pc = "report"
    /\ prod' = [prod EXCEPT !.pc = "done"]
    /\ UNCHANGED <<plan, skipped, chan, closed>>
    /\ ProducerOnly

Producer == TakeTypes \/ ListPage \/ ScanService \/ Emit \/ CloseChan \/ ReportScanErr

(***************************************************************************)
(* streamResources and forwardResources.                                   *)
(***************************************************************************)
\* for resource := range resourceChan
Receive ==
    /\ alive /\ cons.pc = "forward" /\ cons.held = <<>>
    /\ \/ /\ chan # <<>>
          /\ cons' = [cons EXCEPT !.held = <<Head(chan)>>]
          /\ chan' = Tail(chan)
       \/ /\ chan = <<>> /\ closed
          /\ cons' = [cons EXCEPT !.pc = "wait"]
          /\ UNCHANGED chan
    /\ UNCHANGED <<request, over, alive, cluster, plan, skipped, cancelled, closed, prod, wire,
                   ended, host, got>>

\* Bug variant: the failed send returns to the wait without cancel and drain.
WaitOnly ==
    /\ cons' = [cons EXCEPT !.pc = "wait", !.held = <<>>, !.sendErr = TRUE]
    /\ UNCHANGED cancelled

\* What streamResources does when send fails: it stops the producer and drains.
CancelAndDrain ==
    /\ cons' = [cons EXCEPT !.pc = "drain", !.held = <<>>, !.sendErr = TRUE]
    /\ cancelled' = TRUE

\* send(resource): the stream takes it, or fails, with its context over or
\* (a message the transport refuses) without.
Send ==
    /\ alive /\ cons.pc = "forward" /\ cons.held # <<>>
    /\ \/ /\ Len(wire) < WireSize
          /\ wire' = wire \o cons.held
          /\ cons' = [cons EXCEPT !.held = <<>>]
          /\ UNCHANGED cancelled
       \/ CancelAndDrain /\ UNCHANGED wire
    /\ UNCHANGED <<request, over, alive, cluster, plan, skipped, chan, closed, prod, ended,
                   host, got>>

\* for range resourceChan {}
Drain ==
    /\ alive /\ cons.pc = "drain"
    /\ \/ chan # <<>> /\ chan' = Tail(chan) /\ UNCHANGED cons
       \/ chan = <<>> /\ closed /\ cons' = [cons EXCEPT !.pc = "wait"] /\ UNCHANGED chan
    /\ UNCHANGED <<request, over, alive, cluster, plan, skipped, cancelled, closed, prod, wire,
                   ended, host, got>>

\* Bug variant: a cancelled caller is told what the producer says.
FailedByProducer == cons.sendErr \/ prod.err

\* err := <-scanErr: the producer has returned.
ProducerReturned == prod.pc = "done"

\* The error streamResources returns once the producer has reported.
StreamFailed == cons.sendErr \/ prod.err \/ over

\* err := <-scanErr and the returns.  A clean stream of one cluster is
\* followed by the next (StreamScan, StreamScanService).
Return ==
    /\ alive /\ cons.pc = "wait" /\ ProducerReturned
    /\ IF StreamFailed \/ cluster = Streams
       THEN /\ cons' = [cons EXCEPT !.pc = "returned"]
            /\ ended' = IF StreamFailed THEN "error" ELSE "nil"
            /\ UNCHANGED <<cluster, cancelled, chan, closed, prod>>
       ELSE /\ cluster' = cluster + 1
            /\ cancelled' = FALSE
            /\ chan' = <<>> /\ closed' = FALSE
            /\ prod' = StartedProducer(Len(plan))
            /\ cons' = ForwardingConsumer
            /\ UNCHANGED ended
    /\ UNCHANGED <<request, over, alive, plan, skipped, wire, host, got>>

Consumer == Receive \/ Send \/ Drain \/ Return

(***************************************************************************)
(* The host: forwardStream.  Its return ends the context of the stream.    *)
(***************************************************************************)
HostOnly == UNCHANGED <<request, alive, cluster, plan, skipped, cancelled, chan, closed, prod, cons,
                        ended>>

HostReturn(result) ==
    /\ host' = [host EXCEPT !.pc = "returned", !.held = <<>>, !.result = result]
    /\ over' = TRUE
    /\ UNCHANGED got

Recv ==
    /\ host.pc = "recv"
    /\ \/ /\ wire # <<>>
          /\ host' = [host EXCEPT !.pc = "send", !.held = <<Head(wire)>>]
          /\ wire' = Tail(wire)
          /\ UNCHANGED <<over, got>>
       \/ wire = <<>> /\ ended = "nil" /\ HostReturn("nil") /\ UNCHANGED wire
       \/ wire = <<>> /\ ended = "error" /\ HostReturn("error") /\ UNCHANGED wire
       \/ (over \/ ~alive) /\ HostReturn("error") /\ UNCHANGED wire
    /\ HostOnly

SinkSend ==
    /\ host.pc = "send"
    /\ \/ /\ got' = got \o host.held
          /\ host' = [host EXCEPT !.pc = "recv", !.held = <<>>]
          /\ UNCHANGED over
       \/ HostReturn("error")
    /\ UNCHANGED wire
    /\ HostOnly

Host == Recv \/ SinkSend

(***************************************************************************)
(* The environment: the caller gives up, the plugin process dies.          *)
(***************************************************************************)
CallerCancels ==
    /\ ~over
    /\ over' = TRUE
    /\ UNCHANGED <<request, alive, cluster, plan, skipped, cancelled, chan, closed, prod, cons,
                   wire, ended, host, got>>

PluginDies ==
    /\ alive /\ ended = "no"
    /\ alive' = FALSE
    /\ UNCHANGED <<request, over, cluster, plan, skipped, cancelled, chan, closed, prod, cons,
                   wire, ended, host, got>>

StreamNext == Producer \/ Consumer \/ Host \/ CallerCancels \/ PluginDies

StreamFairness == WF_streamVars(Producer) /\ WF_streamVars(Consumer) /\ WF_streamVars(Host)

StreamSpec == StreamInit /\ [][StreamNext]_streamVars /\ StreamFairness

(***************************************************************************)
(* Properties.                                                             *)
(***************************************************************************)

\* A stream that the host sees end cleanly delivered every page of every type
\* it took up, in order, and took up, in every cluster, every type that was
\* asked for: all that may be missing are the types that discovery left out
\* with a warning.  No failed page, no send that failed, no cancellation, no
\* crash and no race between the close of the channel and the error is lost
\* (ADR 0023).
CleanEndIsComplete ==
    host.result = "nil" =>
        /\ got = Inventory
        /\ TypesOf(plan) = ((1..Streams) \X Wanted) \ skipped

\* The stream always ends, at both ends: a failed send cannot leave the
\* producer blocked on a full channel and the handler waiting for it.  Nor does
\* the handler return before its producer, which would go on sending.
StreamEnds ==
    /\ <>(host.pc = "returned")
    /\ <>(ended # "no" \/ ~alive)
    /\ [](ended # "no" => prod.pc = "done" /\ closed)
=============================================================================
