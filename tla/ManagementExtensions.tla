------------------------ MODULE ManagementExtensions ------------------------
(***************************************************************************)
(* The management server (pkg/management/server.go) and the API extensions *)
(* that plugins add to it (extensions.go): it asks every plugin for its    *)
(* service, builds a table of methods, serves it over gRPC and, from a     *)
(* goroutine, over HTTP, and stops both when its context is done. A        *)
(* service has one method; its HTTP rules are one path or none.            *)
(***************************************************************************)
EXTENDS Naturals, Sequences

CONSTANTS Plugins,   \* a sequence: the order in which they were loaded
          Package, Name,  \* per plugin: its service's package and name in it
          HasRules,  \* plugins whose service has HTTP rules
          Parses,    \* plugins whose path is a pattern the mux understands
          Calls

Members == {Plugins[i] : i \in 1 .. Len(Plugins)}
None == "none"
Service(p) == <<Package[p], Name[p]>>

\* The service of the management server itself.
Core == <<"management", "Management">>

VARIABLES next,     \* configureApiExtensionDirector: index of the next plugin
          table,    \* methodTable: from services to plugins
          exts,     \* m.apiExtensions
          healthy,  \* plugins whose Descriptor and reflection agree
          srv,      \* the gRPC server
          stopper,  \* the goroutine that calls GracefulStop
          http,     \* listenAndServeHttp
          configured,  \* of the extensions with rules, those configured on the mux
          closer,   \* the goroutine that calls server.Close
          done,     \* the context is done
          cut,      \* history: it was done before all plugins were asked
          alive,    \* plugins that run
          via, want,       \* per call: "grpc" or "http", and the service it is for
          pc, by, answer   \* per call: state, plugin, result

servers == <<srv, stopper, http, configured, closer, done, cut>>
tables == <<next, table, exts, healthy>>
calls == <<via, want, pc, by, answer>>
vars == <<servers, tables, alive, calls>>

Init ==
    /\ next = 1 /\ table = <<>> /\ exts = <<>> /\ healthy \in SUBSET Members
    /\ srv = "none" /\ stopper = "none" /\ http = "none" /\ configured = 0 /\ closer = "none"
    /\ done = FALSE /\ cut = FALSE /\ alive = Members
    /\ via \in [Calls -> {"grpc", "http"}] /\ pc = [c \in Calls |-> "idle"]
    /\ want \in [Calls -> {Core} \cup {Service(p) : p \in Members}]
    /\ by = [c \in Calls |-> None] /\ answer = [c \in Calls |-> None]

-----------------------------------------------------------------------------
(* Starting *)

\* One plugin: Descriptor, with the full name of its service, ResolveService,
\* the methods. The calls fail when the plugin does not run, or the context, which
\* is that of the server, is done.
LoadExtension ==
    /\ srv = "none" /\ next <= Len(Plugins)
    /\ LET p == Plugins[next] IN
        IF p \in healthy \cap alive /\ ~done
        THEN /\ table' = [k \in DOMAIN table \cup {Service(p)} |-> IF k = Service(p) THEN p ELSE table[k]]
             /\ exts' = Append(exts, p)
             /\ next' = next + 1
        ELSE next' = next + 1 /\ UNCHANGED <<table, exts>>
    /\ UNCHANGED <<healthy, servers, alive, calls>>

\* Mutant: the goroutine looks at the context once.
LooksOnce == IF done THEN "ended" ELSE "wait"
StopperStarts == "wait"

\* grpc.NewServer, the goroutines, Serve.
ServeGrpc ==
    /\ srv = "none" /\ next > Len(Plugins)
    /\ srv' = "serving" /\ stopper' = StopperStarts /\ http' = "configure"
    /\ UNCHANGED <<configured, closer, done, cut, tables, alive, calls>>

\* Mutant: the server is started before its extensions are configured.
ServesFirst == TRUE
Served == SelectSeq(exts, LAMBDA p : p \in HasRules)
Configured == configured = Len(Served)

\* configureHttpApiExtensions, one extension. A path that HandlePath refuses is
\* logged, and has no route.
ConfigureRoute ==
    /\ http \in {"configure", "serving"} /\ configured < Len(Served)
    /\ configured' = configured + 1
    /\ UNCHANGED <<srv, stopper, http, closer, done, cut, tables, alive, calls>>

\* The routes of the mux, in the order in which they were configured.
routes == SelectSeq(SubSeq(Served, 1, configured), LAMBDA p : p \in Parses)

\* The rest of listenAndServeHttp; a server that was closed does not listen.
ServeHttp ==
    /\ http = "configure" /\ Configured
    /\ http' = "serving" /\ closer' = "wait"
    /\ UNCHANGED <<srv, stopper, configured, done, cut, tables, alive, calls>>

-----------------------------------------------------------------------------
(* Stopping *)

ContextDone ==
    /\ ~done /\ done' = TRUE
    /\ cut' = (next <= Len(Plugins))
    /\ UNCHANGED <<srv, stopper, http, configured, closer, tables, alive, calls>>

\* GracefulStop takes no more calls and waits for those in progress.
GracefulStop ==
    /\ stopper = "wait" /\ done
    /\ stopper' = "stopping" /\ srv' = "draining"
    /\ UNCHANGED <<http, configured, closer, done, cut, tables, alive, calls>>

Stopped ==
    /\ srv = "draining" /\ \A c \in Calls : via[c] = "grpc" => pc[c] # "forward"
    /\ srv' = "stopped" /\ stopper' = "ended"
    /\ UNCHANGED <<http, configured, closer, done, cut, tables, alive, calls>>

\* Calls that are being forwarded over one of the protocols end with them.
Closed(protocols) ==
    /\ pc' = [c \in Calls |-> IF via[c] \in protocols /\ pc[c] = "forward" THEN "done" ELSE pc[c]]
    /\ answer' = [c \in Calls |-> IF pc[c] # pc'[c] THEN "closed" ELSE answer[c]]

\* server.Close ends the connections that are open.
CloseHttp ==
    /\ closer = "wait" /\ done
    /\ closer' = "ended" /\ http' = "closed"
    /\ Closed({"http"})
    /\ UNCHANGED <<srv, stopper, configured, done, cut, tables, alive, via, want, by>>

-----------------------------------------------------------------------------
(* Calls *)

\* A call over gRPC may wait in the listener from the start on.
Send(c) ==
    /\ pc[c] = "idle" /\ (via[c] = "http" => http = "serving")
    /\ pc' = [pc EXCEPT ![c] = "sent"]
    /\ UNCHANGED <<servers, tables, alive, via, want, by, answer>>

Finish(c, p, a) ==
    /\ pc' = [pc EXCEPT ![c] = "done"]
    /\ by' = [by EXCEPT ![c] = p] /\ answer' = [answer EXCEPT ![c] = a]

Conn(service) == table[service]

\* The director in unknownServiceHandler.
Direct(c) ==
    /\ via[c] = "grpc" /\ pc[c] = "sent" /\ srv = "serving"
    /\ IF want[c] \in DOMAIN table
       THEN pc' = [pc EXCEPT ![c] = "forward"] /\ by' = [by EXCEPT ![c] = Conn(want[c])] /\ UNCHANGED answer
       ELSE Finish(c, None, "unimplemented")
    /\ UNCHANGED <<servers, tables, alive, via, want>>

\* The mux: the path holds the service's name without its package, and the
\* route that was configured last is tried first.
Route(c) ==
    LET fits == SelectSeq(routes, LAMBDA p : Name[p] = want[c][2])
    IN  /\ via[c] = "http" /\ pc[c] = "sent" /\ http = "serving"
        /\ IF fits # <<>>
           THEN pc' = [pc EXCEPT ![c] = "forward"] /\ by' = [by EXCEPT ![c] = fits[Len(fits)]] /\ UNCHANGED answer
           ELSE Finish(c, None, "not found")
        /\ UNCHANGED <<servers, tables, alive, via, want>>

\* The plugin answers, or its connection fails.
Forward(c) ==
    /\ pc[c] = "forward"
    /\ Finish(c, by[c], IF by[c] \in alive THEN "ok" ELSE "error")
    /\ UNCHANGED <<servers, tables, alive, via, want>>

\* Nobody takes the call any more.
Refused(c) ==
    /\ pc[c] = "sent"
    /\ (IF via[c] = "grpc" THEN srv \in {"draining", "stopped"} ELSE http = "closed")
    /\ Finish(c, None, "refused")
    /\ UNCHANGED <<servers, tables, alive, via, want>>

\* A handler panics, and nothing recovers it: the process ends.
Panic ==
    /\ srv' = "stopped" /\ stopper' = "ended" /\ http' = "closed" /\ closer' = "ended"
    /\ Closed({"grpc", "http"})
    /\ UNCHANGED <<configured, done, cut, tables, alive, via, want, by>>

\* A plugin ends. An exit that no later step would notice is left out: that of
\* a plugin that has nothing to load any more and no call to answer, or that no
\* call is for.
Exit(p) ==
    /\ p \in alive \cap healthy /\ alive' = alive \ {p}
    /\ \E c \in Calls : Name[p] = want[c][2]
    /\ \/ \E i \in next .. Len(Plugins) : Plugins[i] = p
       \/ \E c \in Calls : pc[c] = "forward" /\ by[c] = p
    /\ UNCHANGED <<servers, tables, calls>>

-----------------------------------------------------------------------------
Handle(c) == Direct(c) \/ Route(c) \/ Forward(c) \/ Refused(c)

-----------------------------------------------------------------------------
(* Properties *)

\* The service called is that of a plugin that works, over a protocol it has.
Offered(c, p) ==
    /\ p \in healthy \cap alive /\ Service(p) = want[c]
    /\ via[c] = "http" => p \in HasRules \cap Parses
Missed(c) == answer[c] \in {"unimplemented", "not found"}

\* No call over either protocol misses the extension of a working plugin: one
\* plugin's failure hides no other, and nothing is served half configured. The
\* context must outlast the loading of the extensions.
WorkingIsServed == ~cut => \A c \in Calls, p \in Members : Offered(c, p) => ~Missed(c)

\* It is so in any case. Does not hold: plugins that are asked when the context is
\* done are skipped, and a call that waited in the listener meets the server, which
\* does not know them, before it stops.
AlwaysServed == \A c \in Calls, p \in Members : Offered(c, p) => ~Missed(c)

\* extensions_test.go: "should forward HTTP calls to the plugin" -- the one whose
\* service is called. Does not hold: of two services with one name, in different
\* packages, one answers for both, because the path has no package.
HttpReachesOwner ==
    \A c \in Calls : via[c] = "http" /\ answer[c] = "ok" => Service(by[c]) = want[c]
=============================================================================
