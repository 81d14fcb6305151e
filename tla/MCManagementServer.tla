------------------------- MODULE MCManagementServer -------------------------
(* Instances of ManagementServer, and what the routes of the management API  *)
(* promise for every path of up to four segments and every small message.    *)
EXTENDS ManagementServer, ManagementAPI

CONSTANTS p1, p2

\* Two services of one name in two packages.
MCPlugins == <<p1, p2>>
MCPackage == [p \in {p1, p2} |-> IF p = p2 THEN "b" ELSE "a"]
MCName == [p \in {p1, p2} |-> "ext"]

-----------------------------------------------------------------------------
Words == {"management", "tokens", "clusters", "watch", "certs", "roles", "rolebindings",
          "subjectaccess", "apiextensions", "config", "capabilities", "installer", "x", Bad}
Verbs == {"GET", "POST", "PUT", "DELETE", "PATCH"}
Paths == UNION {[1 .. n -> Words] : n \in 1 .. 4}
Rows == Range(Routes)

\* Every method has one route, and every route a method.
ASSUME EveryMethodRouted ==
    /\ {row.rpc : row \in Rows} = Methods \cup Streams
    /\ DOMAIN Sources = Methods \cup Streams
    /\ Len(Routes) = Cardinality(Methods \cup Streams)

\* No request fits two routes, so the order of registration decides nothing.
ASSUME RoutesDisjoint ==
    \A verb \in Verbs, path \in Paths : path[1] = "management" => Len(Matching(verb, path)) <= 1

\* No extension, whose paths begin with the name of its service, hides a route.
ASSUME ExtensionsHideNothing ==
    \A verb \in Verbs, path \in Paths : path[1] # "management" => Matching(verb, path) = <<>>

\* A call that names an object in its path acts on that object, whatever its body
\* says, and never without a valid name.
Given(rpc) == [Fields(rpc) -> {Unset, Bad, "y"}]
ASSUME PathNamesObject ==
    \A row \in Rows, n \in {"x", Bad} :
        "path" \in Sources[row.rpc] =>
            LET path == [i \in 1 .. Len(row.path) |-> IF row.path[i] = "*" THEN n ELSE row.path[i]]
            IN  \A given \in Given(row.rpc) :
                    LET msg == Decode(row, path, given)
                    IN  /\ msg["id"] = n
                        /\ Accepts(row.rpc, msg) /\ row.rpc # "CapabilityInstaller" => n # Bad

\* Nothing can be created over HTTP with an empty body, and nothing that is
\* created lacks the name it is stored under.
ASSUME CreatesAreNamed ==
    \A row \in Rows :
        row.rpc \in {"CreateBootstrapToken", "CreateRole", "CreateRoleBinding"} =>
            \A given \in Given(row.rpc) :
                LET msg == Decode(row, row.path, given)
                IN  Accepts(row.rpc, msg) =>
                        /\ \E f \in Fields(row.rpc) : given[f] # Unset
                        /\ "id" \in Fields(row.rpc) => msg["id"] \notin {Unset, Bad}
-----------------------------------------------------------------------------
(* The commands that drive the API: labels over two keys, up to two pairs.   *)

Cmd == INSTANCE Opnim WITH Minus <- "-"

LabelMaps == UNION {[K -> {"v", "w"}] : K \in SUBSET {"k", "l"}}
Pairs ==
    [form : {"pair"}, key : {"k", "l"}, value : {"v", "w", "-"}]
        \cup [form : {"minus", "bare"}, key : {"k", "l"}, value : {""}]
PairLists == UNION {[1 .. n -> Pairs] : n \in 0 .. 2}
Deletes(pair) == pair.form = "minus" \/ pair.value = "-"

\* What a label command sends keeps every label it does not name; it replaces a
\* value only with --overwrite, and removes a label only where one argument says so.
ASSUME LabelsKept ==
    \A old \in LabelMaps, pairs \in PairLists, overwrite \in BOOLEAN :
        LET sent == Cmd!LabelCluster(<<old>>, pairs, overwrite, <<old>>).edits
        IN  sent # <<>> =>
                \A k \in DOMAIN old :
                    /\ k \in DOMAIN sent[1] /\ ~overwrite => sent[1][k] = old[k]
                    /\ k \notin DOMAIN sent[1] =>
                           \E p \in Range(pairs) : p.key = k /\ Deletes(p)
                    /\ (\A p \in Range(pairs) : p.key = k => p.form = "bare") =>
                           k \in DOMAIN sent[1] /\ sent[1][k] = old[k]

\* The report "Updating cluster labels failed" is made exactly when the cluster
\* already had the labels that were asked for: the edit itself went through.
ASSUME FailedMeansUnchanged ==
    \A old \in LabelMaps, pairs \in PairLists, overwrite \in BOOLEAN :
        LET sent == Cmd!LabelCluster(<<old>>, pairs, overwrite, <<old>>).edits
        IN  sent # <<>> =>
                (Cmd!LabelCluster(<<old>>, pairs, overwrite, sent).report = "failed" <=> sent[1] = old)

\* The edit carries all labels, so of two commands that both read before either
\* edits the second takes back what the first did.
ASSUME LabelsLost ==
    LET Sent(key) ==
            Cmd!LabelCluster(<< <<>> >>, <<[form |-> "pair", key |-> key, value |-> "v"]>>, FALSE, <<>>).edits
    IN  "k" \in DOMAIN Sent("k")[1] /\ "k" \notin DOMAIN Sent("l")[1]

\* A command over several objects stops at the first that fails: what came
\* before is done, what comes after is not tried.
ASSUME StopsAtFirst ==
    \A args \in UNION {[1 .. n -> {"x", "y"}] : n \in 1 .. 3}, ok \in [{"x", "y"} -> BOOLEAN] :
        \A result \in {Cmd!DeleteClusters(args, ok), Cmd!RevokeTokens(args, ok)} :
            /\ IsPrefix(result.calls, args)
            /\ \A i \in DOMAIN result.calls : ok[result.calls[i]] \/ (i = Len(result.calls) /\ result.fatal)
            /\ ~result.fatal => result.calls = args

\* "roles delete" takes one role, although its usage offers several, and does
\* nothing without one; a binding is deleted by exactly one ID.
ASSUME OneRoleAtATime ==
    /\ ~Cmd!Takes(Cmd!BuildRolesCmd, "delete", <<"x", "y">>)
    /\ Cmd!Takes(Cmd!BuildRolesCmd, "delete", <<>>) /\ Cmd!DeleteRoles(<<>>, <<>>).calls = <<>>
    /\ Cmd!Takes(Cmd!BuildClustersCmd, "delete", <<"x", "y">>)
    /\ \A args \in UNION {[1 .. n -> {"x", "y"}] : n \in 0 .. 2} :
           Cmd!Takes(Cmd!BuildRoleBindingsCmd, "delete", args) =>
               Cmd!DeleteRoleBinding(args, [a \in {"x", "y"} |-> TRUE]).calls = args

\* No two commands of a group have one name, and a query always has its text.
ASSUME CommandsDistinct ==
    /\ \A group \in {Cmd!BuildClustersCmd, Cmd!BuildRolesCmd, Cmd!BuildRoleBindingsCmd, Cmd!BuildTokensCmd,
                     Cmd!BuildCertsCmd, Cmd!BuildAdminCmd, Cmd!BuildDebugCmd} :
           \A i, j \in DOMAIN group : group[i].name = group[j].name => i = j
    /\ \A name \in {"query", "query-range"} :
           Cmd!Takes(Cmd!BuildAdminCmd, name, <<"up">>) /\ ~Cmd!Takes(Cmd!BuildAdminCmd, name, <<>>)

\* What the create commands send is refused by the API only for what it says:
\* a role, a binding or a token whose fields pass their rules is accepted.
ASSUME CommandsAccepted ==
    /\ \A pairs \in PairLists :
           LET role == Cmd!CreateRole(<<"x">>, {}, pairs, TRUE).sent
           IN  Accepts("CreateRole", [f \in Fields("CreateRole") |-> IF f = "id" THEN role.id ELSE "y"])
    /\ \A args \in UNION {[1 .. n -> {"x", "y"}] : n \in 0 .. 4} :
           Cmd!Takes(Cmd!BuildRoleBindingsCmd, "create", args) =>
               LET binding == Cmd!CreateRoleBinding(args, TRUE, <<>>).sent
               IN  /\ binding.subjects # <<>>
                   /\ Accepts("CreateRoleBinding",
                              [f \in Fields("CreateRoleBinding") |->
                                  CASE f = "id" -> binding.id [] f = "roleId" -> binding.roleId
                                    [] f = "taints" -> Unset [] OTHER -> "y"])

\* The access matrix shows a user on a cluster if SubjectAccess says so, whether
\* or not the cluster was there when the clusters were listed.
ASSUME MatrixShowsAccess ==
    \A bs \in SUBSET SUBSET {"u", "v"}, cs \in SUBSET {"x", "y"},
       access \in [{"u", "v"} -> {<<>>} \cup {<<S>> : S \in SUBSET {"x", "y"}}] :
        LET matrix == Cmd!AccessMatrix(<<bs>>, <<cs>>, access)
        IN  matrix # <<>> =>
                /\ cs \subseteq DOMAIN matrix[1].usersOf
                /\ \A c \in {"x", "y"}, u \in UNION bs :
                       (c \in access[u][1]) <=>
                           (c \in DOMAIN matrix[1].usersOf /\ u \in matrix[1].usersOf[c])

\* The bootstrap command never creates a second configuration, and leaves an
\* agent alone that runs. A deployment that its controller has not seen yet, all
\* counts zero, passes for one that runs.
ASSUME BootstrapsOnce ==
    \A dep \in [replicas : 0 .. 2, unavailable : 0 .. 2, available : 0 .. 2],
       secret \in {"found", "absent", "error"}, created \in BOOLEAN :
        /\ Cmd!BootstrapAgent(<<dep>>, secret, created) = "created" => secret = "absent" /\ created
        /\ dep.available > 0 /\ dep.available + dep.unavailable = dep.replicas =>
               Cmd!BootstrapAgent(<<dep>>, secret, created) = "already"
        /\ dep.replicas > 0 /\ dep.unavailable = 0 =>
               Cmd!BootstrapAgent(<<dep>>, secret, created) = "already"

\* The command waits for all replicas of an agent it gave its configuration to,
\* and a lookup that fails does not pass for an agent that is ready.
ASSUME WaitsForAll ==
    /\ ~Cmd!Ready(<<>>)
    /\ \A dep \in [replicas : 1 .. 2, unavailable : 0 .. 2, available : 0 .. 2] :
           Cmd!Ready(<<dep>>) /\ dep.available + dep.unavailable = dep.replicas => dep.unavailable = 0

\* A query that names no cluster is for all there are, and none is made for
\* clusters that could not be listed. A time that is a date is that date.
ASSUME QueryForAll ==
    /\ \A flag \in {<<>>, <<"x">>}, there \in {<<>>, << <<>> >>, << <<"x", "y">> >>} :
           LET tenants == Cmd!QueryTenants(flag, there)
           IN  /\ flag = <<>> => tenants = there
               /\ flag # <<>> => tenants = <<flag>>
    /\ \A phrase \in {<<>>, <<"later">>} : Cmd!parseTimeOrDie(<<"date">>, phrase) = <<"date">>

\* etcdctl runs only with the certificates of the first gateway configuration,
\* and panics where that one says etcd and has no section for it.
ASSUME EtcdctlNeedsCerts ==
    \A gateways \in UNION {[1 .. n -> [type : {"etcd", "customResources"},
                                     etcd : {<<>>} \cup {<<[certs |-> c]>> : c \in {<<>>, <<"c">>}}]] :
                              n \in 0 .. 2} :
        LET first == Head(gateways)
        IN  /\ Cmd!Etcdctl(gateways) = "run" <=>
                   gateways # <<>> /\ first.type = "etcd" /\ first.etcd = <<[certs |-> <<"c">>]>>
            /\ Cmd!Etcdctl(gateways) = "panic" <=>
                   gateways # <<>> /\ first.type = "etcd" /\ first.etcd = <<>>

\* A reload changes nothing.
ASSUME ReloadKeeps ==
    \A docs \in UNION {[1 .. n -> [json : {"x", "y"}, schema : {"s"}]] : n \in 0 .. 2} :
        LET sent == Cmd!Reload(<<docs>>)[1]
        IN  Len(sent) = Len(docs) /\ \A i \in DOMAIN docs : sent[i].json = docs[i].json
=============================================================================
