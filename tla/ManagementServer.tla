-------------------------- MODULE ManagementServer --------------------------
(***************************************************************************)
(* The management server with a client of its streaming call,              *)
(* WatchClusters (pkg/management/clusters.go): the client names the        *)
(* clusters it knows and gets an event for every cluster that a poll of    *)
(* the store, once a second, finds added or deleted. It calls over gRPC, or *)
(* over HTTP, where the server's own gRPC client forwards the call.         *)
(*                                                                         *)
(* The known clusters are looked up one by one, a poll is one read, and    *)
(* every event is recorded, then sent, and received later; clusters come   *)
(* and go in between, and the server may be told to stop. The client       *)
(* applies events as they arrive, and calls again when the stream has ended. *)
(***************************************************************************)
EXTENDS ManagementExtensions, SequencesExt

CONSTANTS Clusters,
          MaxChanges,  \* bound on changes of the store
          MaxWatches   \* bound on calls of WatchClusters

ASSUME ManagementServerAssumption == MaxChanges \in Nat /\ MaxWatches \in Nat

VARIABLES
    store, changes,  \* the clusters that exist; changes so far
    wpc, watches,    \* where the handler is; calls so far
    unchecked,       \* KnownClusters that were not looked up yet
    known,           \* what the handler believes the client knows
    updatedIds,      \* what the poll listed
    sending,         \* the event that is recorded in known and not sent yet, if any
    stream,          \* events sent and not received yet
    view             \* clusters the client knows

client == <<stream, view>>
handler == <<wpc, watches, unchecked, known, updatedIds, sending>>
watch == <<store, changes, handler, client>>
allVars == <<vars, watch>>

\* The call that is WatchClusters, if there is one, and its protocol.
Watchers == {c \in Calls : want[c] = Core}
WatchVia == {via[c] : c \in Watchers}
Watching == wpc \in {"check", "tick", "events"}

\* The client knows nothing, or has listed the clusters.
WatchInit ==
    /\ Init /\ Cardinality(Watchers) <= 1
    /\ store \in SUBSET Clusters /\ changes = 0 /\ (Watchers = {} => store = {})
    /\ view \in {{}, store} /\ sending = <<>> /\ stream = <<>>
    /\ wpc = "idle" /\ watches = 0 /\ unchecked = {} /\ known = {} /\ updatedIds = {}

-----------------------------------------------------------------------------
\* A cluster is created or deleted. Changes that no handler would see, before the
\* server serves or without a watcher, are left out.
Change(c) ==
    /\ changes < MaxChanges /\ changes' = changes + 1
    /\ Watchers # {} /\ srv \in {"serving", "draining"}
    /\ store' = IF c \in store THEN store \ {c} ELSE store \cup {c}
    /\ UNCHANGED <<vars, handler, client>>

\* The client can call WatchClusters. A server that stops takes no new call.
MayWatch ==
    /\ Watchers # {} /\ ~Watching /\ watches < MaxWatches
    /\ srv = "serving" /\ ("http" \in WatchVia => http = "serving" /\ ~done)
    /\ watches' = watches + 1

\* The client calls, with the clusters it knows. What it has not received of an
\* earlier stream is lost.
Watch ==
    /\ MayWatch
    /\ wpc' = "check" /\ unchecked' = view /\ known' = {} /\ updatedIds' = {}
    /\ stream' = <<>>
    /\ UNCHANGED <<vars, store, changes, sending, view>>

\* A request without the message KnownClusters passes validation, and the handler
\* reads a field of it.
WatchWithoutKnown ==
    /\ MayWatch /\ Panic
    /\ UNCHANGED <<store, changes, wpc, unchecked, known, updatedIds, sending, client>>

\* A known cluster that does not exist fails the call.
CheckKnown(c) ==
    /\ wpc = "check" /\ c \in unchecked
    /\ unchecked' = unchecked \ {c}
    /\ IF c \in store THEN known' = known \cup {c} /\ UNCHANGED wpc
                      ELSE wpc' = "ended" /\ UNCHANGED known
    /\ UNCHANGED <<vars, store, changes, watches, updatedIds, sending, client>>

Checked ==
    /\ wpc = "check" /\ unchecked = {}
    /\ wpc' = "tick"
    /\ UNCHANGED <<vars, store, changes, watches, unchecked, known, updatedIds, sending, client>>

\* Mutant: what a poll lists is added to what was listed before.
KeepsUpdatedIds == known \cup store

\* ListClusters, with a set of IDs of its own.
Listed == store

Tick ==
    /\ wpc = "tick"
    /\ updatedIds' = Listed
    /\ wpc' = "events"
    /\ UNCHANGED <<vars, store, changes, watches, unchecked, known, sending, client>>

Event(type, c) == [type |-> type, cluster |-> c]

\* The first loop: every listed cluster that is not known. It is recorded as
\* known before the event is sent.
RecordAdded(c) ==
    /\ wpc = "events" /\ sending = <<>> /\ c \in updatedIds \ known
    /\ known' = known \cup {c} /\ sending' = <<Event("added", c)>>
    /\ UNCHANGED <<vars, store, changes, wpc, watches, unchecked, updatedIds, client>>

\* The second loop: every known cluster that was not listed.
RecordDeleted(c) ==
    /\ wpc = "events" /\ sending = <<>> /\ updatedIds \subseteq known /\ c \in known \ updatedIds
    /\ known' = known \ {c} /\ sending' = <<Event("deleted", c)>>
    /\ UNCHANGED <<vars, store, changes, wpc, watches, unchecked, updatedIds, client>>

\* stream.Send hands the event to the transport.
SendEvent ==
    /\ sending # <<>>
    /\ sending' = <<>> /\ stream' = stream \o sending
    /\ UNCHANGED <<vars, store, changes, wpc, watches, unchecked, known, updatedIds, view>>

\* Mutant: the loop goes on when an event cannot be sent.
GoesOn == sending # <<>> /\ UNCHANGED wpc

\* stream.Send fails, and the handler returns.
Returns == sending # <<>> /\ wpc' = "ended"

SendFails ==
    /\ Returns /\ sending' = <<>>
    /\ UNCHANGED <<vars, store, changes, watches, unchecked, known, updatedIds, client>>

Polled ==
    /\ wpc = "events" /\ sending = <<>> /\ known = updatedIds
    /\ wpc' = "tick" /\ updatedIds' = {}
    /\ UNCHANGED <<vars, store, changes, watches, unchecked, known, sending, client>>

\* What the client knows after some events.
Apply(S, events) ==
    FoldLeft(LAMBDA T, e : IF e.type = "added" THEN T \cup {e.cluster} ELSE T \ {e.cluster}, S, events)

\* An event reaches the client, which may still be reading when the handler has
\* returned.
Receive ==
    /\ stream # <<>>
    /\ view' = Apply(view, <<Head(stream)>>) /\ stream' = Tail(stream)
    /\ UNCHANGED <<vars, store, changes, handler>>

\* A read of the store fails, or the client goes.
WatchFails ==
    /\ Watching /\ sending = <<>> /\ wpc' = "ended"
    /\ UNCHANGED <<vars, store, changes, watches, unchecked, known, updatedIds, sending, client>>

\* The gateway's connection to its own server is closed with the context, and
\* with it the stream of a client over HTTP; the handler sees it between polls
\* or when it sends. A client over gRPC has a connection of its own.
StreamDone ==
    /\ Watching /\ WatchVia = {"http"} /\ done
    /\ wpc' = "ended" /\ sending' = <<>>
    /\ UNCHANGED <<vars, store, changes, watches, unchecked, known, updatedIds, client>>

\* GracefulStop waits for the handlers that run, WatchClusters included.
Drained == Stopped /\ ~Watching /\ UNCHANGED watch

-----------------------------------------------------------------------------
Handler ==
    \/ Checked \/ Tick \/ SendEvent \/ Polled
    \/ \E c \in Clusters : CheckKnown(c) \/ RecordAdded(c) \/ RecordDeleted(c)

\* The server of module ManagementExtensions, except for how it stops.
Serve ==
    /\ \/ LoadExtension \/ ServeGrpc \/ ConfigureRoute \/ ServeHttp \/ GracefulStop \/ CloseHttp
       \/ ContextDone
       \/ \E c \in Calls \ Watchers : Send(c) \/ Handle(c)
       \/ \E p \in Members : Exit(p)
    /\ UNCHANGED watch

ServerNext ==
    \/ Serve \/ Drained
    \/ Watch \/ WatchWithoutKnown \/ Handler \/ SendFails \/ WatchFails \/ StreamDone \/ Receive
    \/ \E c \in Clusters : Change(c)

\* The server's goroutines run, a plugin answers a call or dies, the ticker
\* ticks, the stream takes the events, and the client reads them.
ServerSpec ==
    /\ WatchInit /\ [][ServerNext]_allVars
    /\ WF_allVars(LoadExtension /\ UNCHANGED watch) /\ WF_allVars(ServeGrpc /\ UNCHANGED watch)
    /\ WF_allVars(ConfigureRoute /\ UNCHANGED watch) /\ WF_allVars(ServeHttp /\ UNCHANGED watch)
    /\ WF_allVars(GracefulStop /\ UNCHANGED watch) /\ WF_allVars(CloseHttp /\ UNCHANGED watch)
    /\ WF_allVars(Drained) /\ \A c \in Calls : WF_allVars(Handle(c) /\ UNCHANGED watch)
    /\ WF_allVars(Handler) /\ WF_allVars(StreamDone) /\ WF_allVars(Receive)

-----------------------------------------------------------------------------
(* Properties *)

\* The handler of WatchClusters never loses track of its client, although it records
\* before it sends and the client reads later: between clusters that come and go,
\* events that cannot be sent or are lost, and calls made again, what it has recorded
\* is what the client will know once it has all that was recorded, and no event
\* tells the client what it knows by then.
WatchInStep ==
    LET underway == stream \o sending
    IN  /\ wpc \in {"tick", "events"} => known = Apply(view, underway)
        /\ \A i \in DOMAIN underway :
               Apply(view, SubSeq(underway, 1, i)) # Apply(view, SubSeq(underway, 1, i - 1))

\* When clusters stop changing and the call goes on, the client learns the truth.
ViewCatchesUp ==
    \A S \in SUBSET Clusters : <>[](store = S /\ Watching) => <>[](view = S)

\* Whenever the context ends, even while the server starts, the HTTP server
\* closes, and the gRPC server stops unless a client over gRPC keeps watching.
BothStop == done ~> (http = "closed" /\ (srv = "stopped" \/ (Watching /\ WatchVia = {"grpc"})))

\* The gRPC server stops when the context ends. Does not hold: GracefulStop waits
\* for WatchClusters, which ends only when its client does.
GrpcStops == done ~> srv = "stopped"
=============================================================================
