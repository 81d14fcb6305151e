-------------------------------- MODULE Opnim --------------------------------
(***************************************************************************)
(* The commands of opnim (pkg/opnim/commands): which calls a command makes, *)
(* in which order, what ends it early, and what it reports. A command is one *)
(* client of the management API; between two of its calls anything may       *)
(* happen at the server, so the answers it gets are parameters. A call that  *)
(* fails is answered with <<>>, any other with <<x>>. lg.Fatal ends the      *)
(* process.                                                                 *)
(***************************************************************************)
EXTENDS Naturals, Sequences, SequencesExt, FiniteSets

CONSTANT Minus  \* the value "-"

-----------------------------------------------------------------------------
(* The command tree, with the number of arguments each command takes.        *)

Many == 9  \* more arguments than any command line of the instances has

Sub(name, min, max) == [name |-> name, min |-> min, max |-> max]

BuildClustersCmd == << Sub("list", 0, Many), Sub("delete", 1, Many), Sub("label", 2, Many) >>
BuildRolesCmd == << Sub("create", 1, 1), Sub("delete", 0, 1), Sub("show", 1, 1), Sub("list", 0, Many) >>
BuildRoleBindingsCmd ==
    << Sub("create", 3, Many), Sub("delete", 1, 1), Sub("show", 1, 1), Sub("list", 0, Many) >>
BuildTokensCmd == << Sub("create", 0, Many), Sub("revoke", 1, Many), Sub("list", 0, Many) >>
BuildCertsCmd == << Sub("info", 0, Many) >>
BuildAdminCmd == << Sub("query", 1, 1), Sub("query-range", 1, 1) >>
BuildDebugCmd == << Sub("reload", 0, Many), Sub("get-config", 0, Many), Sub("etcdctl", 0, Many) >>

Takes(group, name, args) ==
    \E i \in DOMAIN group : group[i].name = name /\ group[i].min <= Len(args) /\ Len(args) <= group[i].max

\* ConfigureManagementCommand: where the command finds the management API. An
\* address is a record; the scheme tcp:// is cut off, any other stays. Of
\* several gateway configurations in the file the last one counts.
TrimTcp(a) == IF a.scheme = "tcp" THEN [a EXCEPT !.scheme = ""] ELSE a

DefaultSocket == [scheme |-> "", host |-> "default"]
NoAddress == [scheme |-> "", host |-> ""]

Address(flag, file, gateways) ==
    LET found == IF file = <<>> \/ gateways = <<>> THEN NoAddress ELSE TrimTcp(Last(gateways))
    IN  IF flag # NoAddress THEN flag ELSE IF found # NoAddress THEN found ELSE DefaultSocket

-----------------------------------------------------------------------------
(* Labels. An argument is key=value ("pair"), key- ("minus"), or a key alone *)
(* ("bare"), which is dropped: the parser has no case that fails.            *)

ParseKeyValuePairs(pairs) ==
    LET kept == SelectSeq(pairs, LAMBDA p : p.form # "bare")
        LastOf(k) == Last(SelectSeq(kept, LAMBDA p : p.key = k))
    IN  [k \in {kept[i].key : i \in DOMAIN kept} |->
            IF LastOf(k).form = "minus" THEN Minus ELSE LastOf(k).value]

\* The labels an edit sends: <<>> where the command ends because a label exists.
\* The keys differ, so the order in which they are visited decides nothing.
EditedLabels(current, labels, overwrite) ==
    LET removed == {k \in DOMAIN labels : labels[k] = Minus}
        put == DOMAIN labels \ removed
    IN  IF ~overwrite /\ put \cap DOMAIN current # {} THEN <<>>
        ELSE << [k \in (DOMAIN current \ removed) \cup put |->
                    IF k \in put THEN labels[k] ELSE current[k]] >>

\* clusters label: GetCluster, then EditCluster, and a report that compares the
\* labels it read with those of the edited cluster.
LabelCluster(got, pairs, overwrite, edit) ==
    IF got = <<>> THEN [edits |-> <<>>, report |-> "fatal"]
    ELSE LET edited == EditedLabels(got[1], ParseKeyValuePairs(pairs), overwrite)
         IN  [edits |-> edited,
              report |-> IF edited = <<>> \/ edit = <<>> THEN "fatal"
                         ELSE IF edit[1] = got[1] THEN "failed" ELSE "updated"]

-----------------------------------------------------------------------------
(* Commands that make one call per argument stop at the first that fails.    *)

Each(args, ok) ==
    LET bad == {i \in DOMAIN args : ~ok[args[i]]}
        upto == IF bad = {} THEN Len(args) ELSE CHOOSE i \in bad : \A j \in bad : i <= j
    IN  [calls |-> SubSeq(args, 1, upto), fatal |-> bad # {}]

DeleteClusters(args, ok) == Each(args, ok)
DeleteRoles(args, ok) == Each(args, ok)
RevokeTokens(args, ok) == Each(args, ok)
DeleteRoleBinding(args, ok) == Each(<<args[1]>>, ok)

\* roles create: the role that is shown is the one that was sent.
CreateRole(args, clusterIDs, pairs, created) ==
    LET role == [id |-> args[1], clusterIDs |-> clusterIDs, matchLabels |-> ParseKeyValuePairs(pairs)]
    IN  [sent |-> role, shown |-> IF created THEN <<role>> ELSE <<>>]

\* rolebindings create: the binding that is shown is read back by a second call.
CreateRoleBinding(args, created, got) ==
    [sent |-> [id |-> args[1], roleId |-> args[2], subjects |-> SubSeq(args, 3, Len(args))],
     shown |-> IF created THEN got ELSE <<>>]

\* tokens create: nothing is sent for a duration that does not parse.
CreateToken(duration, pairs) ==
    IF duration = <<>> THEN <<>> ELSE << [ttl |-> duration[1], labels |-> ParseKeyValuePairs(pairs)] >>

\* clusters list -v adds the statistics of a second call.
ListClusters(clusters, verbose, stats) ==
    IF clusters = <<>> \/ (verbose /\ stats = <<>>) THEN <<>>
    ELSE << [clusters |-> clusters[1], stats |-> IF verbose THEN stats ELSE <<>>] >>

\* A query without tenants is for every cluster there is.
QueryTenants(flag, clusters) ==
    IF flag # <<>> THEN <<flag>> ELSE clusters

\* A time is read as a date, or else as a phrase.
parseTimeOrDie(date, phrase) == IF date # <<>> THEN date ELSE phrase

-----------------------------------------------------------------------------
(* access-matrix: the bindings, then the clusters, then the access of every   *)
(* user that a binding names. access[u] is <<>> or the clusters of u.         *)

AccessMatrix(bindings, clusters, access) ==
    LET users == IF bindings = <<>> THEN {} ELSE UNION bindings[1]
    IN  IF bindings = <<>> \/ clusters = <<>> \/ (\E u \in users : access[u] = <<>>) THEN <<>>
        ELSE << [users |-> users,
                 known |-> clusters[1],
                 usersOf |-> [c \in clusters[1] \cup UNION {access[u][1] : u \in users} |->
                                 {u \in users : c \in access[u][1]}]] >>

-----------------------------------------------------------------------------
(* debug *)

\* get-config prints document by document; the format is looked at with each.
GetConfig(docs, format) ==
    IF docs = <<>> THEN [printed |-> 0, error |-> TRUE]
    ELSE IF docs[1] = <<>> THEN [printed |-> 0, error |-> FALSE]
    ELSE IF format \notin {"json", "yaml"} THEN [printed |-> 0, error |-> TRUE]
    ELSE LET bad == {i \in DOMAIN docs[1] : ~docs[1][i].valid}
         IN  [printed |-> IF bad = {} THEN Len(docs[1])
                          ELSE (CHOOSE i \in bad : \A j \in bad : i <= j) - 1,
              error |-> bad # {}]

\* reload sends back the configuration it was given, without the schemas.
Reload(docs) == IF docs = <<>> THEN <<>> ELSE << [i \in DOMAIN docs[1] |-> [json |-> docs[1][i].json]] >>

\* etcdctl takes the first gateway configuration. A configuration for etcd
\* without its section is dereferenced all the same.
Etcdctl(gateways) ==
    IF gateways = <<>> \/ gateways[1].type # "etcd" THEN "error"
    ELSE IF gateways[1].etcd = <<>> THEN "panic"
    ELSE IF gateways[1].etcd[1].certs = <<>> THEN "error" ELSE "run"

-----------------------------------------------------------------------------
(* bootstrap: creates the configuration an agent waits for, unless the agent *)
(* has it. A deployment's status counts replicas; before its controller has   *)
(* seen it, all counts are zero.                                             *)

Bootstrapped(dep) == dep.unavailable < dep.replicas

\* secret: "found", "absent" or "error"; created: the answer of Create.
BootstrapAgent(dep, secret, created) ==
    IF dep = <<>> THEN "fatal"
    ELSE IF Bootstrapped(dep[1]) \/ secret = "found" THEN "already"
    ELSE IF secret = "error" \/ ~created THEN "fatal"
    ELSE "created"

\* The loop that follows ends; a lookup that fails leaves an empty deployment,
\* whose replicas count as one.
Ready(dep) == dep # <<>> /\ dep[1].available = dep[1].replicas
=============================================================================
