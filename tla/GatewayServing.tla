---------------------------- MODULE GatewayServing ----------------------------
(***************************************************************************)
(* A gateway from its start to what it serves with the cortex plugin. The  *)
(* routes of the plugin (plugins/cortex/pkg/cortex/api.go) are reached     *)
(* through the gateway's forwarder (pkg/util/fwd) once GatewayStartup has  *)
(* set them up: a request for rules goes to the aggregator of module       *)
(* RuleAggregator, and scrapes of the metrics endpoint ask the plugin's    *)
(* collectors as in module RemoteCollector. The two share nothing, so one  *)
(* behaviour has requests of one kind; and neither shares anything with    *)
(* the start, so that they begin when it is over.                          *)
(***************************************************************************)
EXTENDS GatewayStartup

CONSTANTS RulesPath,                         \* a path of the cortex plugin for rules
          Tenants, MaxGroups,                \* see RuleAggregator
          Calls, Collectors, PerCollector, Cap  \* see RemoteCollector

ASSUME GatewayServingAssumption ==
    /\ \E p \in Cortex : RulesPath \in Routes[p]
    /\ MaxGroups \in Nat /\ PerCollector \in Nat /\ Cap \in Nat \ {0}

VARIABLES
    kind,                                                   \* "rules" or "scrape"
    pc, format, ids, at, buf, count, resp, replies,         \* RuleAggregator
    collectors, register, handler, sent, done, channel, list, gathers, client \* RemoteCollector

Rules == INSTANCE RuleAggregator
Scrape == INSTANCE RemoteCollector

rulesVars == <<pc, format, ids, at, buf, count, resp, replies>>
scrapeVars == <<collectors, register, handler, sent, done, channel, list, gathers, client>>
servingVars == <<vars, kind, rulesVars, scrapeVars>>

ServingInit ==
    /\ Init
    /\ kind \in {"rules", "scrape"}
    /\ Rules!Init
    /\ Scrape!Init

Serving == main = "serving" /\ exited = "no" /\ \A p \in Plugins : use[p] # "admin"

\* The gateway forwards the request to the plugin whose prefix it has, and the
\* plugin's route, as long as it runs, hands it to an aggregator.
HandleRules ==
    /\ Serving /\ kind = "rules"
    /\ Dispatch(RulesPath) \in {p \in Cortex : use[p] # "exited"}
    /\ Rules!Next
    /\ UNCHANGED <<vars, kind, scrapeVars>>

HandleScrape ==
    /\ Serving /\ kind = "scrape"
    /\ Scrape!Next
    /\ UNCHANGED <<vars, kind, rulesVars>>

Starting == Next /\ UNCHANGED <<kind, rulesVars, scrapeVars>>

ServingNext == Starting \/ HandleRules \/ HandleScrape

\* The start is fair as in GatewayStartup; requests may come or not.
ServingSpec ==
    /\ ServingInit /\ [][ServingNext]_servingVars
    /\ WF_servingVars(exited = "no" /\ Run /\ Starting)
    /\ WF_servingVars(exited = "no" /\ Goroutine /\ Starting)
    /\ \A p \in Plugins : /\ WF_servingVars(exited = "no" /\ Configure(p) /\ Starting)
                          /\ WF_servingVars(exited = "no" /\ Use(p) /\ Starting)

\* See RuleAggregator: whatever the tenants' rulers reply, in whatever order the
\* tenants come, and however many requests were served before.
RulesAnswer == Rules!RulesAnswer

\* See RemoteCollector: a scrape that overlaps others and registrations.
AnswerIsPrefix == Scrape!AnswerIsPrefix

-----------------------------------------------------------------------------
(* ConfigureRoutes of the cortex plugin. A route is the methods it is for, *)
(* its path, whether it is for every path below, and its handlers.         *)

Route(methods, path, below, chain) ==
    [methods |-> methods, path |-> path, below |-> below, chain |-> chain]
Methods == {"Get", "Post", "Delete"}
User == <<"Auth", "RBAC">>

configureAgentAPI == <<
    Route(Methods, <<"api", "agent">>, TRUE, <<"limiter", "Cluster", "Next">>),
    Route({"Post"}, <<"api", "agent", "push">>, FALSE, <<"ingest", "Distributor">>),
    Route({"Post"}, <<"api", "agent", "sync_rules">>, FALSE, <<"preprocessRules", "Ruler">>)>>

\* The first of several tenants is asked; the third path is rewritten to the
\* second.
configureAlertmanager ==
    [i \in 1 .. 4 |->
        Route(Methods, << <<"api", "prom", "alertmanager">>, <<"api", "v1", "alerts">>,
                          <<"api", "prom", "api", "v1", "alerts">>,
                          <<"multitenant_alertmanager">> >>[i],
              TRUE, (IF i = 3 THEN <<"Path">> ELSE <<>>)
                    \o User \o <<"orgIdLimiter", "Alertmanager">>)]

V1Groups == << <<"prometheus", "api", "v1">>, <<"api", "prom", "api", "v1">> >>

configureRuler ==
    [i \in 1 .. 2 |-> Route({"Get"}, V1Groups[i] \o <<"rules">>, FALSE, User \o <<"json">>)]
    \o [i \in 1 .. 2 |-> Route({"Get"}, V1Groups[i] \o <<"alerts">>, FALSE, User \o <<"Ruler">>)]
    \o [i \in 1 .. 2 |-> Route(Methods, << <<"api", "v1", "rules">>, <<"api", "prom", "rules">> >>[i],
                               TRUE, User \o <<"yaml">>)]

Queries ==
    << [name |-> "read", methods |-> {"Post"}], [name |-> "query", methods |-> {"Get", "Post"}],
       [name |-> "query_range", methods |-> {"Get", "Post"}],
       [name |-> "query_exemplars", methods |-> {"Get", "Post"}],
       [name |-> "labels", methods |-> {"Get", "Post"}], [name |-> "label", methods |-> {"Get"}],
       [name |-> "series", methods |-> {"Get", "Post", "Delete"}],
       [name |-> "metadata", methods |-> {"Get"}] >>

configureQueryFrontend ==
    FlattenSeq([g \in 1 .. 2 |->
        <<Route(Methods, V1Groups[g], TRUE, User \o <<"Next">>)>>
        \o [q \in DOMAIN Queries |->
               Route(Queries[q].methods, V1Groups[g] \o <<Queries[q].name>>, FALSE,
                     <<"QueryFrontend">>)]])

CortexRoutes ==
    <<Route({"Get"}, <<"ready">>, FALSE, <<"QueryFrontend">>)>>
    \o configureAgentAPI \o configureAlertmanager \o configureRuler \o configureQueryFrontend

\* The handlers a request passes: fiber tries the routes in their order, and
\* goes on to the next one only if the last handler of a route says so.
Matches(r, method, path) ==
    /\ method \in r.methods
    /\ IF r.below THEN IsPrefix(r.path, path) ELSE r.path = path

Handlers(method, path) ==
    LET hits == SelectSeq(CortexRoutes, LAMBDA r : Matches(r, method, path))
        last == {i \in DOMAIN hits : Last(hits[i].chain) # "Next"}
        stop == IF last = {} THEN Len(hits) ELSE CHOOSE i \in last : \A j \in last : i <= j
    IN  FlattenSeq([i \in 1 .. stop |-> hits[i].chain])
=============================================================================
