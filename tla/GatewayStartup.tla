---------------------------- MODULE GatewayStartup ----------------------------
(***************************************************************************)
(* The start of a gateway and of the plugins that extend its API: run() of *)
(* pkg/opnim/commands/gateway.go, the goroutine of NewAPIServer that asks  *)
(* each plugin for its routes, and in the plugins' processes Configure and *)
(* UseManagementAPI, which meet in Futures (pkg/util/generic.go).          *)
(*                                                                         *)
(* Configure waits for Futures that UseManagementAPI sets, which the       *)
(* management server calls, which starts after the goroutine. Two timers   *)
(* end the process when that takes long.                                   *)
(*                                                                         *)
(* A path is a sequence of characters, of which few suffice.               *)
(***************************************************************************)
EXTENDS Naturals, FiniteSets, SequencesExt

CONSTANTS Order,     \* the plugins, in the order they are loaded
          Routes,    \* per plugin: the paths of its fiber app
          Cortex,    \* the plugins that start as the cortex plugin does
          Logging,   \* those that start as the logging plugin does
          Reserved,  \* reservedPrefixRoutes, in order
          Bootstrap  \* the path under which bootstrap requests are served

Plugins == Range(Order)

ASSUME GatewayStartupAssumption ==
    /\ Cortex \cup Logging \subseteq Plugins /\ Cortex \cap Logging = {}
    /\ \A p \in Plugins : IsFiniteSet(Routes[p])

VARIABLES
    main,        \* where run() is
    asked,       \* number of plugins the goroutine has asked
    prefixes,    \* what is left of the prefixes of the last one
    reserved,    \* reservedPrefixRoutes
    routes,      \* the app's routes, in order: prefix and handler
    configure,   \* per plugin: its Configure call
    use,         \* per plugin: its UseManagementAPI call
    auth, backend, config, mgmtApi, \* plugins with auth providers and Futures set
    exited       \* why the process ended, or "no"

gateway == <<main, asked, prefixes, reserved, routes>>
futures == <<auth, backend, config, mgmtApi>>
vars == <<gateway, configure, use, futures, exited>>

Init ==
    /\ main = "new" /\ asked = 0 /\ prefixes = <<>> /\ reserved = Reserved
    /\ routes = <<>>
    /\ configure = [p \in Plugins |-> "none"] /\ use = [p \in Plugins |-> "none"]
    /\ auth = {} /\ backend = {} /\ config = {} /\ mgmtApi = {}
    /\ exited = "no"

-----------------------------------------------------------------------------
(* run() *)

ConfigureBootstrapRoutes ==
    /\ main = "new"
    /\ routes' = Append(routes, [prefix |-> Append(Bootstrap, "/"), to |-> "bootstrap"])
    /\ main' = "gateway"
    /\ UNCHANGED <<asked, prefixes, reserved, configure, use, futures, exited>>

\* The goroutine of the management server is started, and run() goes on.
StartManagement ==
    /\ main = "gateway"
    /\ main' = "listen"
    /\ UNCHANGED <<asked, prefixes, reserved, routes, configure, use, futures, exited>>

\* The goroutine has closed s.wait.
ListenAndServe ==
    /\ main = "listen" /\ asked = Len(Order) + 1
    /\ main' = "serving"
    /\ UNCHANGED <<asked, prefixes, reserved, routes, configure, use, futures, exited>>

ListenTimeout ==
    /\ main = "listen" /\ asked <= Len(Order)
    /\ exited' = "timer"
    /\ UNCHANGED <<gateway, configure, use, futures>>

-----------------------------------------------------------------------------
(* The goroutine of NewAPIServer *)

Asking == asked > 0 /\ asked <= Len(Order)

\* The next plugin is asked, or s.wait closed, when the last one's routes are set up.
Ask ==
    /\ asked <= Len(Order) /\ prefixes = <<>>
    /\ asked > 0 => configure[Order[asked]] = "handled"
    /\ asked' = asked + 1
    /\ configure' = IF asked < Len(Order) THEN [configure EXCEPT ![Order[asked + 1]] = "called"]
                    ELSE configure
    /\ UNCHANGED <<main, prefixes, reserved, routes, use, futures, exited>>

ConfigureTimeout ==
    /\ Asking /\ configure[Order[asked]] \in {"called", "certs", "middleware"}
    /\ exited' = "timer"
    /\ UNCHANGED <<gateway, configure, use, futures>>

\* setupPluginRoutes, one prefix at a time: the app is shared with run().
SetupPluginRoute ==
    /\ prefixes # <<>>
    /\ LET prefix == Head(prefixes)
       IN  IF \E i \in DOMAIN reserved : IsPrefix(reserved[i], prefix)
           THEN UNCHANGED <<reserved, routes>>
           ELSE /\ reserved' = Append(reserved, prefix)
                /\ routes' = Append(routes, [prefix |-> prefix, to |-> Order[asked]])
    /\ prefixes' = Tail(prefixes)
    /\ UNCHANGED <<main, asked, configure, use, futures, exited>>

-----------------------------------------------------------------------------
(* Plugin p: Configure *)

\* The trie is walked parents first and siblings in any order; "/" is a sibling
\* of every path.
Parent(q, r) == q # <<"/">> /\ IsStrictPrefix(q, r) /\ r[Len(q) + 1] = "/"
WalkOrders(paths) ==
    {s \in [1 .. Cardinality(paths) -> paths] :
        IsInjective(s) /\ \A i, j \in DOMAIN s : Parent(s[i], s[j]) => i < j}

\* Mutant: the test for a prefix is the wrong way round.
CoversOther(q, r) == IsPrefix(r, q)
Covers(q, r) == IsPrefix(q, r)

\* A path is kept unless one that was kept before covers it; then one of the
\* paths before it that cover it was kept.
findPathPrefixes(walk) ==
    LET kept == {i \in DOMAIN walk : \A j \in 1 .. i - 1 : ~Covers(walk[j], walk[i])}
    IN  [k \in 1 .. Cardinality(kept) |->
            walk[CHOOSE i \in kept : Cardinality({j \in kept : j <= i}) = k]]

\* The plugin of p exits, and the gateway's call of Configure fails, which ends the
\* gateway.
Exit(why) == exited' = why /\ UNCHANGED <<gateway, configure, use, futures>>

\* The cortex plugin waits for the config first.
AwaitConfig(p) ==
    /\ configure[p] = "called"
    /\ IF p \in Cortex
       THEN p \in config /\ configure' = [configure EXCEPT ![p] = "certs"]
       ELSE configure' = [configure EXCEPT ![p] = "middleware"]
    /\ UNCHANGED <<gateway, use, futures, exited>>

\* Its certificates can be loaded, or not.
loadCortexCerts(p) ==
    /\ configure[p] = "certs"
    /\ \/ /\ configure' = [configure EXCEPT ![p] = "middleware"]
          /\ UNCHANGED <<gateway, use, futures, exited>>
       \/ Exit("certs")

\* The cluster middleware needs the storage backend, and cannot be made where the
\* keyring store fails.
AwaitBackend(p) == p \in Cortex \cup Logging => p \in backend
MiddlewareFails(p) ==
    /\ configure[p] = "middleware" /\ p \in Cortex \cup Logging /\ AwaitBackend(p)
    /\ Exit("middleware")

\* The cortex plugin also reads the management client, and exits without its auth
\* provider.
ConfigureRoutes(p) ==
    /\ configure[p] = "middleware" /\ AwaitBackend(p)
    /\ p \in Cortex => p \in mgmtApi
    /\ IF p \in Cortex /\ p \notin auth
       THEN exited' = "auth" /\ UNCHANGED <<prefixes, configure>>
       ELSE /\ \E walk \in WalkOrders(Routes[p]) : prefixes' = findPathPrefixes(walk)
            /\ configure' = [configure EXCEPT ![p] = "handled"]
            /\ UNCHANGED exited
    /\ UNCHANGED <<main, asked, reserved, routes, use, futures>>

-----------------------------------------------------------------------------
(* Plugin p: UseManagementAPI *)

\* Mutant: the plugins are only given the management API by a serving gateway.
ServesWhenServing == main = "serving"
ManagementStarted == main \in {"listen", "serving"}

UseManagementAPI(p) ==
    /\ use[p] = "none" /\ p \in Cortex \cup Logging /\ ManagementStarted
    /\ mgmtApi' = mgmtApi \cup {p}
    /\ use' = [use EXCEPT ![p] = "getConfig"]
    /\ UNCHANGED <<gateway, configure, auth, backend, config, exited>>

LoadAuthProviders(p) ==
    /\ use[p] = "getConfig"
    /\ auth' = auth \cup {p}
    /\ use' = [use EXCEPT ![p] = "loaded"]
    /\ UNCHANGED <<gateway, configure, backend, config, mgmtApi, exited>>

\* GetConfig, the config or the storage backend fails: the plugin exits, while its
\* Configure is still to come or waits for what would be set here.
UseFails(p) == use[p] \in {"getConfig", "loaded"} /\ Exit("use")

\* This is all the logging plugin sets.
SetBackend(p) ==
    /\ use[p] = "loaded"
    /\ backend' = backend \cup {p}
    /\ use' = [use EXCEPT ![p] = IF p \in Cortex THEN "backend" ELSE "blocked"]
    /\ UNCHANGED <<gateway, configure, auth, config, mgmtApi, exited>>

SetConfig(p) ==
    /\ use[p] = "backend"
    /\ config' = config \cup {p}
    /\ use' = [use EXCEPT ![p] = "admin"]
    /\ UNCHANGED <<gateway, configure, auth, backend, mgmtApi, exited>>

\* The certificates are loaded here too, and the clients of the admin API made.
configureAdminClients(p) ==
    /\ use[p] = "admin"
    /\ use' = [use EXCEPT ![p] = "blocked"]
    /\ UNCHANGED <<gateway, configure, futures, exited>>

\* Otherwise the plugin exits; its Configure may have been answered by now, and then
\* the gateway keeps the routes of a plugin that does not run.
AdminClientsFail(p) ==
    /\ use[p] = "admin"
    /\ IF configure[p] = "handled"
       THEN use' = [use EXCEPT ![p] = "exited"] /\ UNCHANGED <<gateway, configure, futures, exited>>
       ELSE Exit("use")

-----------------------------------------------------------------------------
Run == ConfigureBootstrapRoutes \/ StartManagement \/ ListenAndServe
Goroutine == Ask \/ SetupPluginRoute
Configure(p) == AwaitConfig(p) \/ loadCortexCerts(p) \/ ConfigureRoutes(p)
Use(p) == UseManagementAPI(p) \/ LoadAuthProviders(p) \/ SetBackend(p) \/ SetConfig(p)
          \/ configureAdminClients(p)

Next ==
    /\ exited = "no"
    /\ \/ Run \/ Goroutine \/ ListenTimeout \/ ConfigureTimeout
       \/ \E p \in Plugins : Configure(p) \/ MiddlewareFails(p) \/ Use(p) \/ UseFails(p)
                            \/ AdminClientsFail(p)

Spec == Init /\ [][Next]_vars

\* Every goroutine and every plugin process runs; the timers need not fire.
FairSpec ==
    /\ Spec
    /\ WF_vars(exited = "no" /\ Run) /\ WF_vars(exited = "no" /\ Goroutine)
    /\ \A p \in Plugins : /\ WF_vars(exited = "no" /\ Configure(p))
                          /\ WF_vars(exited = "no" /\ Use(p))

-----------------------------------------------------------------------------
(* Properties *)

\* The handler of a request: that of the first route whose prefix it has.
Dispatch(path) ==
    LET hits == {i \in DOMAIN routes : IsPrefix(routes[i].prefix, path)}
    IN  IF hits = {} THEN "none" ELSE routes[CHOOSE i \in hits : \A j \in hits : i <= j].to

\* Once the gateway serves, a plugin's route reaches the plugin, unless a
\* reserved route or a route of a plugin that was loaded before it covers it.
RoutesReachPlugins ==
    main = "serving" => \A i \in DOMAIN Order : \A r \in Routes[Order[i]] :
        \/ Dispatch(r) = Order[i]
        \/ \E e \in Range(Reserved) : IsPrefix(e, r)
        \/ \E j \in 1 .. i - 1 : \E q \in Routes[Order[j]] : IsPrefix(q, r)

\* The parts of the start do not wait for one another in a circle: unless a
\* timer fires or a plugin exits, the gateway comes to serve.
StartupCompletes == <>(main = "serving" \/ exited # "no")
=============================================================================
