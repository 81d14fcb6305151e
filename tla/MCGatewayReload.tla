--------------------------- MODULE MCGatewayReload ---------------------------
(* Three updates of a gateway with three generations, and the facts about  *)
(* its configuration that hold for all small inputs.                       *)
EXTENDS GatewayReload, Sequences, SequencesExt

C == INSTANCE Configuration

Providers == [type : {"openid", "noauth", "test", "other"}, name : {"a", "noauth"}]
Documents ==
    [blank : {FALSE}, apiVersion : {"v1beta1", ""}, kind : {"GatewayConfig", "AgentConfig", ""},
     fields : BOOLEAN, object : {1, 2}]
    \cup [blank : {TRUE}, apiVersion : {""}, kind : {""}, fields : {TRUE}, object : {1}]

\* A file is read leniently and an update strictly, with the same result when
\* the update is accepted. Whatever a file has besides, the gateway's configuration
\* is the first that loads and the agent's is the last.
ASSUME LoadsSame ==
    \A d1, d2, d3 \in Documents :
        LET docs == <<d1, d2, d3>>
            file == C!LoadObjectsFromFile(docs)
            update == C!LoadDocuments(docs)
            sound == {i \in 1 .. 3 : C!Loads(docs[i])}
            Of(kind) == {i \in sound : docs[i].kind = kind}
        IN  /\ update # <<>> => update = <<file>> /\ sound = 1 .. 3
            /\ Of("GatewayConfig") # {} =>
                  C!PickGateway(file) = <<docs[CHOOSE i \in Of("GatewayConfig") :
                                                  \A j \in Of("GatewayConfig") : i <= j]>>
            /\ Of("AgentConfig") # {} =>
                  C!PickAgent(file) = <<docs[CHOOSE i \in Of("AgentConfig") :
                                                \A j \in Of("AgentConfig") : i >= j]>>

\* A file of the working directory is preferred, and the gateway's to the agent's.
ASSUME NearestFile ==
    \A files \in SUBSET ({".", "/etc/opni-monitoring"} \X {"gateway.yaml", "agent.json"}) :
        /\ (C!ConfigLocation(<<>>, files) = <<>>) = (files = {})
        /\ (\E f \in files : f[1] = ".") => C!ConfigLocation(<<>>, files)[1][1] = "."
        /\ <<".", "gateway.yaml">> \in files =>
              C!ConfigLocation(<<>>, files) = << <<".", "gateway.yaml">> >>

\* The noauth server is started for a provider that is called noauth. One of
\* type noauth with another name is registered and has no server.
ASSUME NoauthByName ==
    \A p1, p2 \in Providers :
        LET list == [i \in 1 .. 2 |-> [kind |-> "AuthProvider", object |-> <<p1, p2>>[i]]]
            names == C!AuthProviders(list)
            started == C!NoauthServers(list)
        IN  /\ names # <<>> => \A p \in {p1, p2} : p.type # "other" /\ (p.type # "test" => p.name \in names[1])
            /\ (\E i \in DOMAIN started : started[i] = "started")
                  <=> \E p \in {p1, p2} : p.type = "noauth" /\ p.name = "noauth"

Pairs == [HTTPAddress : {"", "h"}, GRPCAddress : {"", "g"}]
Specs == [ListenAddress : {"", "l"}, Hostname : {"", "n"}, MetricsPort : {0, 1}, Distributor : Pairs,
          Ingester : Pairs, Alertmanager : {"", "a"}, Ruler : {"", "r"}, QueryFrontend : Pairs]

\* Defaults are set once and for all, no HTTP address stays blank and none that
\* was set is changed. A gRPC address goes with the HTTP address of its component:
\* it is replaced, or stays blank, as that was blank or not.
ASSUME DefaultsStable ==
    \A s \in Specs :
        LET d == C!SetDefaults(s)
        IN  /\ C!SetDefaults(d) = d
            /\ \A c \in {"Distributor", "Ingester", "QueryFrontend"} :
                  /\ d[c].HTTPAddress # ""
                  /\ s[c].HTTPAddress # "" => d[c] = s[c]
                  /\ s[c].HTTPAddress = "" => d[c].GRPCAddress \notin {"", "g"}
            /\ \A c \in {"ListenAddress", "Hostname", "Alertmanager", "Ruler"} :
                  d[c] # "" /\ (s[c] # "" => d[c] = s[c])

\* Either backend has every store but one: custom resources have no key-value
\* store, and a gateway with a system plugin then panics. On etcd a keyring of
\* the agent is not where the gateway keeps one of the same ID; among custom
\* resources of one namespace it is.
ASSUME StorageBackends ==
    /\ \A type \in {"etcd", "customResources", "other"}, etcd \in {<<>>, <<"endpoints">>} :
          LET backend == C!ConfigureStorageBackend([type |-> type, etcd |-> etcd])
          IN  backend # <<>> =>
                /\ C!IsValid(backend[1]) <=> type = "etcd"
                /\ (C!KeyValueStores(backend[1], {"plugin"}) = "panic") = (type = "customResources")
    /\ \A id \in {"a", "b"} :
          /\ C!KeyringPlace("etcd", "", id) # C!KeyringPlace("etcd", "agent", id)
          /\ C!KeyringPlace("customResources", "", id) = C!KeyringPlace("customResources", "agent", id)

Contents == [is : {"ca", "chain", "key"}, certs : {<<"root">>, <<"leaf">>, <<"leaf", "root">>}]
Sources == [path : {<<>>, <<"f">>}, data : {<<>>} \cup {<<c>> : c \in Contents}]

\* A serving chain ends in the configured CA, which then is what agents pin; a
\* plugin loads what the gateway loads, because no path is blank.
ASSUME ChainEndsInCA ==
    \A ca, cert \in Sources, file \in Contents :
        LET key == [path |-> <<>>, data |-> <<[is |-> "key", certs |-> <<"leaf">>]>>]
            certs == [ca |-> ca, cert |-> cert, key |-> key]
            bundle == C!LoadServingCertBundle(certs, [f |-> file])
        IN  /\ bundle # <<>> => /\ bundle[1].pool = {Last(bundle[1].chain)}
                                /\ Head(bundle[1].chain) = "leaf"
            /\ C!PluginTLSConfig(C!NewCertConfig(certs), [f |-> file]) = bundle

\* A client configuration needs the certificate and its own key; a CA that is not
\* named is one that nothing is trusted by, and one that is named must be there.
ASSUME ClientNeedsOwnKey ==
    \A ca \in {"", "ca", "gone"}, cert \in {"leaf", "ca"}, key \in {"key", "otherKey"} :
        LET files == [ca |-> [is |-> "ca", certs |-> <<"root">>],
                      leaf |-> [is |-> "chain", certs |-> <<"leaf", "root">>],
                      key |-> [is |-> "key", certs |-> <<"leaf">>],
                      otherKey |-> [is |-> "key", certs |-> <<"root">>]]
            config == C!LoadClientMTLSConfig(
                          [ClientCert |-> cert, ClientKey |-> key, ClientCA |-> "", ServerCA |-> ca], files)
        IN  /\ config # <<>> <=> cert = "leaf" /\ key = "key" /\ ca # "gone"
            /\ config # <<>> => config[1].RootCAs = IF ca = "" THEN {} ELSE {"root"}

\* An agent without an interval searches for rules every 15 minutes; with one that
\* is no duration it does not search at all.
ASSUME SearchesAsConfigured ==
    \A interval \in {"", "1m", "often"}, prometheusRules \in BOOLEAN :
        LET every == C!SearchInterval(<<[prometheusRules |-> prometheusRules, interval |-> interval]>>, {"1m"})
        IN  /\ every # <<>> <=> prometheusRules /\ interval # "often"
            /\ every # <<>> => every[1] = IF interval = "" THEN "15m" ELSE interval

\* The defaults of an agent's configuration would change nothing that is set.
ASSUME AgentDefaultsStable ==
    \A s \in [IdentityProvider : {"", "i"}, ListenAddress : {"", "l"}] :
        LET d == C!SetAgentDefaults(s)
        IN  C!SetAgentDefaults(d) = d /\ \A c \in DOMAIN s : d[c] # "" /\ (s[c] # "" => d[c] = s[c])
=============================================================================
