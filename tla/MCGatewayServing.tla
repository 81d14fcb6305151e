-------------------------- MODULE MCGatewayServing --------------------------
(***************************************************************************)
(* Instances of GatewayServing: two plugins that wait for their Futures    *)
(* (cortex, logging) and one that does not (example). Their paths nest,    *)
(* overlap without nesting ("/r", "/rz"), and touch reserved ones.         *)
(***************************************************************************)
EXTENDS GatewayServing

P == INSTANCE Plugins

MCReserved == << <<"/", "h">>, <<"/", "b">>, <<"/", "m">> >>
MCBootstrap == <<"/", "b">>

MCOrder == <<"cortex", "example", "logging">>
MCCortex == {"cortex"}
MCLogging == {"logging"}
MCRoutes ==
    [cortex |-> {<<"/", "a">>, <<"/", "a", "/", "v">>, <<"/", "r">>, <<"/", "r", "z">>},
     example |-> {<<"/", "e">>, <<"/", "m", "e">>, <<"/", "a", "/", "v">>},
     logging |-> {<<"/", "l", "/", "v">>, <<"/", "e">>, <<"/", "l", "/", "v", "/", "c">>}]
MCRulesPath == <<"/", "r">>

-----------------------------------------------------------------------------
Paths == {r.path : r \in Range(CortexRoutes)}
Forwards == {"QueryFrontend", "Alertmanager", "Ruler", "Distributor", "json", "yaml"}
Before(chain, a, b) == \E i, j \in DOMAIN chain : i < j /\ chain[i] = a /\ chain[j] = b

\* Whatever path of the plugin is asked for, the request is forwarded only
\* after the handlers that the forwarding depends on: a user's after Auth and
\* RBAC, which choose the tenants, an agent's after Cluster, which names its
\* own. /ready is for everyone.
ASSUME ForwardedAfterAuth ==
    \A method \in Methods, path \in Paths \ {<<"ready">>} :
        LET chain == Handlers(method, path)
        IN  \A f \in Forwards \cap Range(chain) :
                IF IsPrefix(<<"api", "agent">>, path) THEN Before(chain, "Cluster", f)
                ELSE Before(chain, "Auth", "RBAC") /\ Before(chain, "RBAC", f)

\* The ruler's alerts are reached under /prometheus; under /api/prom the route
\* of the alertmanager comes first, and the ruler's is never used.
ASSUME AlertsByPrefix ==
    /\ Last(Handlers("Get", <<"prometheus", "api", "v1", "alerts">>)) = "Ruler"
    /\ Last(Handlers("Get", <<"api", "prom", "api", "v1", "alerts">>)) = "Alertmanager"

\* Rules are aggregated as JSON where Prometheus serves them and as YAML where
\* the ruler does.
ASSUME RulesByPrefix ==
    /\ \A g \in Range(V1Groups) : Last(Handlers("Get", g \o <<"rules">>)) = "json"
    /\ Last(Handlers("Get", <<"api", "prom", "rules">>)) = "yaml"
    /\ Last(Handlers("Post", <<"api", "v1", "rules", "ns">>)) = "yaml"

-----------------------------------------------------------------------------
(* The facts about plugins that hold for all small sets of them.           *)

Binaries ==
    [meta : BOOLEAN, starts : BOOLEAN,
     scheme : {P!Schemes[p] : p \in DOMAIN P!Schemes} \cup {{}}]
IDOrders == {<<"GatewayAPIExtension", "ManagementAPIExtension", "System", "Capability", "Metrics">>,
             <<"Metrics", "Capability", "System", "ManagementAPIExtension", "GatewayAPIExtension">>}

\* A plugin is handed out for the interfaces in its scheme and for no other, in
\* the order in which the binaries were found and whatever the order of the
\* interfaces; a binary that does not start, or says nothing of itself, is
\* handed out for none.
ASSUME DispensedAsImplemented ==
    \A b1, b2 \in Binaries, order \in IDOrders, id \in P!ClientScheme :
        LET Dir(readable, binary) == [readable |-> readable, binaries |-> <<binary>>]
            loader == P!LoadPlugins(<<Dir(TRUE, b1), Dir(FALSE, b1), Dir(TRUE, b2)>>, order)
        IN  P!DispenseAll(loader, id)
                = SelectSeq(<<b1, b2>>, LAMBDA b : b.meta /\ b.starts /\ id \in b.scheme)

Backends == [info : BOOLEAN, name : {"metrics", "logs"}, template : {1, 2}]

\* Of two backends for a capability the first that answers is kept.
ASSUME FirstBackendKept ==
    \A b1, b2 \in Backends :
        LET store == P!AddBackends(<<b1, b2>>)
        IN  /\ P!List(store) = {b.name : b \in {x \in {b1, b2} : x.info}}
            /\ b1.info => store[b1.name] = b1

Arguments == [plus : BOOLEAN, name : {"required", "default", "other"}, colon : BOOLEAN, value : {"v"}]

\* Options may stand anywhere among the arguments of a control; a control is
\* refused if one of them is wrong, or too few other arguments are left.
ASSUME OptionsAnywhere ==
    \A control \in {"input", "select", "toggle", "other"}, a, b, c \in Arguments :
        P!Arg(control, <<a, b, c>>).ok <=>
            /\ \A x \in {a, b, c} : x.plus => P!OptionOk(x)
            /\ Len(SelectSeq(<<c, b, a>>, LAMBDA x : ~x.plus))
                  >= [input |-> 1, toggle |-> 1, select |-> 2, other |-> 0][control]

Spec1 == [Token |-> "t1", Pin |-> "p", Address |-> "a"]
Spec2 == [Token |-> "t2", Pin |-> "p", Address |-> "a"]
Logs == P!LogsTemplate("opensearch")

\* The templates of the repository's plugins all render. A command is the one of
\* the asked capability, with the token that was asked for, as long as the calls
\* do not overlap. They share one template: if another call parses its own in
\* between, the command is that of the other capability, with this call's token.
ASSUME InstallCommandAlone ==
    /\ \A t \in {P!MetricsTemplate, Logs, P!ExampleTemplate} : P!Execute(t, Spec1).ok
    /\ \A order \in P!RenderOrders, c \in 1 .. 2 :
          LET own == P!Execute(<<P!MetricsTemplate, Logs>>[c], <<Spec1, Spec2>>[c])
              rendered == P!RenderInstallerCommand(<<P!MetricsTemplate, Logs>>,
                                                   <<Spec1, Spec2>>, order, c)
          IN  rendered = own <=> order \in {<<1, 1, 2, 2>>, <<2, 2, 1, 1>>} \/ order[2] = c
    /\ \A b1, b2 \in [info : {TRUE}, name : {"metrics", "logs"}, template : {P!MetricsTemplate, Logs}] :
          LET store == P!AddBackends(<<b1, b2>>)
          IN  /\ P!RenderInstaller(store, b1.name, Spec1) = P!Execute(b1.template, Spec1)
              /\ b1.name = b2.name => ~P!RenderInstaller(store, "other", Spec1).ok

\* The schemes of the repository's plugins name no interface the gateway does not
\* know: each is dispensed for all that it implements.
ASSUME SchemesKnown == \A p \in DOMAIN P!Schemes : P!Schemes[p] \subseteq P!ClientScheme
-----------------------------------------------------------------------------
(* The facts about the Cortex administration API.                          *)

Admin == INSTANCE CortexAdmin

TenantNames == [name : {"x", "y"}, pad : SUBSET {"left", "right"}]
TenantLists == UNION {[1 .. n -> {<<t>> : t \in TenantNames} \cup {Admin!EmptyString}] : n \in 0 .. 3}
Names(tenantIDs) ==
    LET named == SelectSeq(tenantIDs, LAMBDA id : id # Admin!EmptyString)
    IN  [i \in DOMAIN named |-> named[i][1].name]

\* The tenants a query is sent for are read back from its header, in order and
\* without spaces or empty names; a query for no tenant is read as one for a
\* tenant whose name is empty.
ASSUME TenantsReadBack ==
    \A tenantIDs \in TenantLists :
        LET header == Admin!DecodeIDs(Admin!Query([query |-> "q", tenants |-> tenantIDs]).tenants)
        IN  [i \in DOMAIN header |-> header[i].name]
                = IF Names(tenantIDs) = <<>> THEN <<"">> ELSE Names(tenantIDs)

\* A write is for one cluster, named by the request, and carries every series
\* and sample of it in order.
ASSUME WritesForOneCluster ==
    \A id \in {"", "x"}, n \in 0 .. 2, k \in 0 .. 2, pushed \in BOOLEAN :
        LET sample(j) == [timestampMs |-> j, value |-> "v"]
            one(i) == [labels |-> <<[name |-> "n", value |-> i]>>,
                       samples |-> [j \in 1 .. k |-> sample(j)], exemplars |-> <<>>]
            in == [clusterID |-> id, timeseries |-> [i \in 1 .. n |-> one(i)], metadata |-> <<>>]
            push == Admin!Pushes(in)
        IN  /\ push = <<>> <=> id = ""
            /\ Admin!WriteMetrics(in, pushed) = "OK" => push # <<>> /\ pushed
            /\ push # <<>> =>
                   /\ push[1].context.orgid = id /\ Len(push[1].Timeseries) = n
                   /\ \A i \in 1 .. n :
                          LET t == push[1].Timeseries[i]
                          IN  t.Labels[1].Value = i
                              /\ [j \in DOMAIN t.Samples |-> t.Samples[j].TimestampMs] = [j \in 1 .. k |-> j]

\* A query is answered with the whole body of a reply, and only with one of
\* status 200.
ASSUME AnswersWhole ==
    \A reply \in [sent : BOOLEAN, status : {200, 503}, read : BOOLEAN, body : {"", "b"}] :
        LET answer == Admin!QueryResponse(reply)
        IN  /\ answer # <<>> => answer[1].Data = reply.body /\ reply.status = 200
            /\ reply.sent /\ reply.read /\ reply.status = 200 => answer # <<>>

\* Once the clients are configured no call waits for one; otherwise the process
\* has ended.
ASSUME ClientsOrExit ==
    \A dials \in [{"distributor", "ingester"} -> BOOLEAN] :
        LET made == Admin!configureAdminClients(dials)
        IN  made.exit
            \/ \A rpc \in {"WriteMetrics", "Query", "QueryRange", "AllUserStats"} :
                   Admin!Awaits(rpc) \ {"config"} \subseteq made.set
=============================================================================
