---------------------------- MODULE Configuration ----------------------------
(***************************************************************************)
(* How the gateway and the agent come by their configuration: the file     *)
(* and its documents (pkg/config), defaults (pkg/config/v1beta1), the      *)
(* objects that are picked from the list, the authentication providers and *)
(* the storage backend that are made from them (pkg/machinery,             *)
(* pkg/storage/composite.go) and the certificates (pkg/util).              *)
(*                                                                         *)
(* A document is [blank, apiVersion, kind, fields, object]: whether it is  *)
(* blank, its TypeMeta with "" for a field that is missing, whether it has *)
(* only fields that the kind has, and the object it stands for. A pointer  *)
(* is Nil or Some(what it points to).                                      *)
(***************************************************************************)
EXTENDS Naturals, SequencesExt

Nil == <<>>
Some(x) == <<x>>

-----------------------------------------------------------------------------
(* Documents and objects.                                                  *)

Kinds == {"GatewayConfig", "AuthProvider", "AgentConfig"}

\* DecodeObject decodes strictly: an unknown field is an error.
Loads(doc) ==
    /\ doc.apiVersion # "" /\ doc.kind # ""
    /\ doc.apiVersion = "v1beta1"
    /\ doc.kind \in Kinds /\ doc.fields

\* From a file: documents that do not load are logged and left out.
LoadObjectsFromFile(docs) ==
    SelectSeq(docs, LAMBDA d : ~d.blank /\ Loads(d))

\* From an UpdateConfig request: the first that does not load ends the call.
LoadDocuments(docs) ==
    IF \A i \in DOMAIN docs : Loads(docs[i]) THEN Some(docs) ELSE Nil

Names == <<"gateway.yaml", "gateway.yml", "gateway.json", "agent.yaml", "agent.yml", "agent.json",
           "config.yaml", "config.yml", "config.json">>
FindConfig(files) ==
    LET candidates == FlattenSeq([d \in 1 .. 2 |->
                          [n \in DOMAIN Names |-> << <<".", "/etc/opni-monitoring">>[d], Names[n]>>]])
        there == SelectSeq(candidates, LAMBDA p : p \in files)
    IN  IF there = <<>> THEN Nil ELSE Some(Head(there))

\* LoadConfigObjectsOrDie: --config if it is given, else the file that is found.
ConfigLocation(flag, files) == IF flag # Nil THEN flag ELSE FindConfig(files)

\* A visitor for one kind is called for the objects of the kind, in their order.
Visit(objects, kind) == SelectSeq(objects, LAMBDA o : o.kind = kind)

\* The gateway takes the first GatewayConfig, the agent the last AgentConfig;
\* without one, both go on with a nil pointer.
PickGateway(objects) ==
    LET all == Visit(objects, "GatewayConfig") IN IF all = <<>> THEN Nil ELSE Some(Head(all))
PickAgent(objects) ==
    LET all == Visit(objects, "AgentConfig") IN IF all = <<>> THEN Nil ELSE Some(Last(all))

\* LoadAuthProviders: the names under which middlewares are registered, in
\* order; an unknown type, or a name that is taken, is a panic. For the type
\* "test" the name is "test", and that it is taken goes unnoticed.
AuthProviders(objects) ==
    LET all == Visit(objects, "AuthProvider")
        Step(names, p) ==
            CASE names # Nil /\ p.object.type = "test" -> Some(names[1] \cup {"test"})
              [] names # Nil /\ p.object.type \in {"openid", "noauth"} ->
                     IF p.object.name \in names[1] THEN Nil ELSE Some(names[1] \cup {p.object.name})
              [] OTHER -> Nil
    IN  FoldLeft(Step, Some({}), all)

\* SetupNoauthServer goes by the name, not by the type: it panics if the
\* middleware of that name is not a noauth one.
NoauthServers(objects) ==
    LET named == SelectSeq(Visit(objects, "AuthProvider"), LAMBDA p : p.object.name = "noauth")
    IN  [i \in DOMAIN named |-> IF named[i].object.type = "noauth" THEN "started" ELSE "panic"]

-----------------------------------------------------------------------------
(* Defaults. An address that is not set is "".                             *)

Default(value, default) == IF value = "" THEN default ELSE value

\* The gRPC address goes with the HTTP address.
DefaultPair(spec, http, grpc) ==
    IF spec.HTTPAddress = "" THEN [HTTPAddress |-> http, GRPCAddress |-> grpc] ELSE spec

SetDefaults(s) ==
    [s EXCEPT !.ListenAddress = Default(@, ":8080"), !.Hostname = Default(@, "localhost"),
              !.MetricsPort = IF @ = 0 THEN 8086 ELSE @,
              !.Distributor = DefaultPair(@, "cortex-distributor:8080", "cortex-distributor-headless:9095"),
              !.Ingester = DefaultPair(@, "cortex-ingester:8080", "cortex-ingester-headless:9095"),
              !.Alertmanager = Default(@, "cortex-alertmanager:8080"),
              !.Ruler = Default(@, "cortex-ruler:8080"),
              !.QueryFrontend = DefaultPair(@, "cortex-query-frontend:8080", "cortex-query-frontend-headless:9095")]

\* Not called by the agent command.
SetAgentDefaults(s) ==
    [s EXCEPT !.IdentityProvider = Default(@, "kubernetes"), !.ListenAddress = Default(@, ":8080")]

-----------------------------------------------------------------------------
(* Storage backends: the interfaces a store has, and the backend composed  *)
(* of them.                                                                *)

Interfaces == {"TokenStore", "ClusterStore", "RBACStore", "KeyringStoreBroker", "KeyValueStoreBroker"}
StoreInterfaces ==
    [etcd |-> Interfaces, customResources |-> Interfaces \ {"KeyValueStoreBroker"}]

Use(backend, store) ==
    [i \in Interfaces |-> IF i \in StoreInterfaces[store] THEN store ELSE backend[i]]
IsValid(backend) == \A i \in Interfaces : backend[i] # "nil"

ConfigureStorageBackend(storage) ==
    IF \/ storage.type = "etcd" /\ storage.etcd = Nil
       \/ storage.type \notin DOMAIN StoreInterfaces
    THEN Nil
    ELSE Some(Use([i \in Interfaces |-> "nil"], storage.type))

\* Where a keyring is kept, as the part after the backend's address. Custom
\* resources have no prefix; the namespace falls back to "default".
KeyringPlace(type, prefix, id) ==
    IF type = "etcd" THEN << (IF prefix = "" THEN "gateway" ELSE prefix), "keyrings", id>>
    ELSE <<"keyring", id>>
Namespace(option, env) == Default(IF option = Nil THEN env ELSE option[1], "default")

\* Gateway.ListenAndServe asks the backend for a store of every system plugin.
KeyValueStores(backend, plugins) ==
    IF backend["KeyValueStoreBroker"] = "nil" /\ plugins # {} THEN "panic" ELSE "ok"

-----------------------------------------------------------------------------
(* Certificates. A source is [path, data], both pointers. Content is       *)
(* [is, certs]: a CA, a chain, or a key with the certificate it is for.    *)

Source(spec, files) ==
    IF spec.path = Nil THEN spec.data
    ELSE IF spec.path[1] \in DOMAIN files THEN Some(files[spec.path[1]]) ELSE Nil

LoadServingCertBundle(certs, files) ==
    LET ca == Source(certs.ca, files)
        chain == Source(certs.cert, files)
        key == Source(certs.key, files)
    IN  IF \/ Nil \in {ca, chain, key}
           \/ ca[1].is # "ca" \/ chain[1].is # "chain"
           \/ key[1].is # "key" \/ Head(key[1].certs) # Head(chain[1].certs)
        THEN Nil
        ELSE LET root == Head(ca[1].certs) IN
             Some([chain |-> IF Last(chain[1].certs) = root THEN chain[1].certs
                             ELSE Append(chain[1].certs, root),
                   pool |-> {root}])

\* The same on the other side of the call to a plugin: there "" stands for nil.
Blank == [path |-> Some(""), data |-> Some([is |-> "", certs |-> <<>>])]
NewCertConfig(certs) ==
    [part \in DOMAIN certs |-> [field \in {"path", "data"} |->
        IF certs[part][field] = Nil THEN Blank[field] ELSE certs[part][field]]]
PluginTLSConfig(tc, files) ==
    LoadServingCertBundle([part \in DOMAIN tc |-> [field \in {"path", "data"} |->
        IF tc[part][field] = Blank[field] THEN Nil ELSE tc[part][field]]], files)

\* A client may do without either CA; its certificate and key it must have.
LoadClientMTLSConfig(certs, files) ==
    LET Reads(path, is) == path \in DOMAIN files /\ files[path].is = is
        Pool(path) == IF path = "" THEN {} ELSE {Head(files[path].certs)}
    IN  IF /\ Reads(certs.ClientCert, "chain") /\ Reads(certs.ClientKey, "key")
           /\ Head(files[certs.ClientKey].certs) = Head(files[certs.ClientCert].certs)
           /\ \A path \in {certs.ClientCA, certs.ServerCA} : path = "" \/ Reads(path, "ca")
        THEN Some([ClientCAs |-> Pool(certs.ClientCA), RootCAs |-> Pool(certs.ServerCA)])
        ELSE Nil

\* configureRuleFinder and streamRuleGroupUpdates of the agent: the interval of
\* the search for rules, Nil if there is no discovery.
SearchInterval(rules, parses) ==
    IF rules = Nil \/ ~rules[1].prometheusRules THEN Nil
    ELSE LET interval == rules[1].interval
         IN  IF interval = "" THEN Some("15m")
             ELSE IF interval \in parses THEN Some(interval) ELSE Nil
=============================================================================
