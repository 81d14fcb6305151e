---------------------------- MODULE ManagementAPI ----------------------------
(***************************************************************************)
(* The calls of the management API (pkg/management): the HTTP routes and    *)
(* the gRPC methods that lead to them, how a request becomes a message, and *)
(* what the handlers refuse before they act.                               *)
(*                                                                         *)
(* A message is a function from the fields a handler looks at to values. A *)
(* value that the field's own rule (a regular expression, a positive        *)
(* duration, known options, well-formed JSON) rejects is Bad; a field that  *)
(* was not given is Unset.                                                  *)
(***************************************************************************)
EXTENDS Naturals, Sequences, SequencesExt

CONSTANTS Unset, Bad

-----------------------------------------------------------------------------
(* Routes. A segment that is a parameter is "*". *)

Row(rpc, verb, path) == [rpc |-> rpc, verb |-> verb, path |-> <<"management">> \o path]

TokenRoutes == <<
    Row("CreateBootstrapToken", "POST", <<"tokens">>),
    Row("RevokeBootstrapToken", "DELETE", <<"tokens", "*">>),
    Row("ListBootstrapTokens", "GET", <<"tokens">>),
    Row("GetBootstrapToken", "GET", <<"tokens", "*">>)>>

ClusterRoutes == <<
    Row("ListClusters", "GET", <<"clusters">>),
    Row("WatchClusters", "POST", <<"clusters", "watch">>),
    Row("DeleteCluster", "DELETE", <<"clusters", "*">>),
    Row("CertsInfo", "GET", <<"certs">>),
    Row("GetCluster", "GET", <<"clusters", "*">>),
    Row("EditCluster", "PUT", <<"clusters", "*">>)>>

RoleRoutes == <<
    Row("CreateRole", "POST", <<"roles">>),
    Row("DeleteRole", "DELETE", <<"roles", "*">>),
    Row("GetRole", "GET", <<"roles", "*">>)>>

RoleBindingRoutes == <<
    Row("CreateRoleBinding", "POST", <<"rolebindings">>),
    Row("DeleteRoleBinding", "DELETE", <<"rolebindings", "*">>),
    Row("GetRoleBinding", "GET", <<"rolebindings", "*">>)>>

AccessRoutes == <<
    Row("ListRoles", "GET", <<"roles">>),
    Row("ListRoleBindings", "GET", <<"rolebindings">>),
    Row("SubjectAccess", "GET", <<"subjectaccess">>)>>

ServerRoutes == <<
    Row("APIExtensions", "GET", <<"apiextensions">>),
    Row("GetConfig", "GET", <<"config">>),
    Row("UpdateConfig", "PUT", <<"config">>),
    Row("ListCapabilities", "GET", <<"capabilities">>),
    Row("CapabilityInstaller", "POST", <<"capabilities", "*", "installer">>)>>

\* RegisterManagementHandlerClient, in its order.
Routes == TokenRoutes \o ClusterRoutes \o RoleRoutes \o RoleBindingRoutes
              \o AccessRoutes \o ServerRoutes

\* The service's methods and its one stream.
Methods == {
    "CreateBootstrapToken", "RevokeBootstrapToken", "ListBootstrapTokens", "GetBootstrapToken",
    "ListClusters", "DeleteCluster", "CertsInfo", "GetCluster", "EditCluster",
    "CreateRole", "DeleteRole", "GetRole",
    "CreateRoleBinding", "DeleteRoleBinding", "GetRoleBinding",
    "ListRoles", "ListRoleBindings", "SubjectAccess",
    "APIExtensions", "GetConfig", "UpdateConfig", "ListCapabilities", "CapabilityInstaller"}
Streams == {"WatchClusters"}

\* The mux tries the route that was registered last first.
Fits(row, verb, path) ==
    /\ row.verb = verb /\ Len(row.path) = Len(path)
    /\ \A i \in 1 .. Len(path) : row.path[i] \in {"*", path[i]}
Matching(verb, path) == SelectSeq(Routes, LAMBDA row : Fits(row, verb, path))
Param(row, path) == path[CHOOSE i \in 1 .. Len(path) : row.path[i] = "*"]

-----------------------------------------------------------------------------
(* What the message of a call is made of over HTTP: the body or the query,   *)
(* and then the path.                                                       *)

TokenSources ==
    [CreateBootstrapToken |-> {"body"},
     RevokeBootstrapToken |-> {"path"},
     ListBootstrapTokens |-> {},
     GetBootstrapToken |-> {"path"}]

ClusterSources ==
    [ListClusters |-> {"query"},
     WatchClusters |-> {"body"},
     DeleteCluster |-> {"path"},
     CertsInfo |-> {},
     GetCluster |-> {"path"},
     EditCluster |-> {"body", "path"}]

RoleSources ==
    [CreateRole |-> {"body"},
     DeleteRole |-> {"path"},
     GetRole |-> {"path"}]

RoleBindingSources ==
    [CreateRoleBinding |-> {"body"},
     DeleteRoleBinding |-> {"path"},
     GetRoleBinding |-> {"path"}]

AccessSources ==
    [ListRoles |-> {},
     ListRoleBindings |-> {},
     SubjectAccess |-> {"query"}]

ServerSources ==
    [APIExtensions |-> {},
     GetConfig |-> {},
     UpdateConfig |-> {"body"},
     ListCapabilities |-> {},
     CapabilityInstaller |-> {"body", "path"}]

Sources == TokenSources @@ ClusterSources @@ RoleSources @@ RoleBindingSources
               @@ AccessSources @@ ServerSources

-----------------------------------------------------------------------------
(* Messages *)

\* The fields each handler looks at: those that must be there, and those that
\* are validated if they are.
Reference == [required |-> {"id"}, checked |-> {}]
Empty == [required |-> {}, checked |-> {}]
ValidateToken == [required |-> {"ttl"}, checked |-> {"labels", "capabilities"}]
ValidateListClusters == [required |-> {}, checked |-> {"labels", "options"}]
ValidateWatchClusters == [required |-> {}, checked |-> {"known"}]
ValidateEditCluster == [required |-> {"id"}, checked |-> {"labels"}]
ValidateRole == [required |-> {"id"}, checked |-> {"clusterIDs", "labels"}]
ValidateRoleBinding == [required |-> {"id", "roleId"}, checked |-> {"subjects"}]
ValidateSubjectAccess == [required |-> {"subject"}, checked |-> {}]
ValidateConfig == [required |-> {"documents"}, checked |-> {}]

Rule(rpc) ==
    CASE rpc \in {"RevokeBootstrapToken", "GetBootstrapToken", "DeleteCluster", "GetCluster",
                  "DeleteRole", "GetRole", "DeleteRoleBinding", "GetRoleBinding"} -> Reference
      [] rpc = "CreateBootstrapToken" -> ValidateToken
      [] rpc = "ListClusters" -> ValidateListClusters
      [] rpc = "WatchClusters" -> ValidateWatchClusters
      [] rpc = "EditCluster" -> ValidateEditCluster
      [] rpc = "CreateRole" -> ValidateRole
      [] rpc = "CreateRoleBinding" -> ValidateRoleBinding
      [] rpc = "SubjectAccess" -> ValidateSubjectAccess
      [] rpc = "UpdateConfig" -> ValidateConfig
      [] OTHER -> Empty

Fields(rpc) ==
    Rule(rpc).required \cup Rule(rpc).checked
        \cup (CASE rpc = "CreateRoleBinding" -> {"taints"}
                [] rpc = "CapabilityInstaller" -> {"id"}
                [] OTHER -> {})

Validate(rpc, msg) ==
    /\ \A f \in Rule(rpc).required : msg[f] \notin {Unset, Bad}
    /\ \A f \in Rule(rpc).checked : msg[f] # Bad

\* The handler goes on to the store. A role binding with taints is refused: they
\* are computed, never given.
Accepts(rpc, msg) ==
    /\ Validate(rpc, msg)
    /\ rpc = "CreateRoleBinding" => msg["taints"] = Unset

\* What a request over HTTP becomes: the fields given in the body or the query,
\* all of them unset if it is empty, and then the one in the path.
Decode(row, path, given) ==
    [f \in Fields(row.rpc) |->
        IF "path" \in Sources[row.rpc] /\ f = "id" THEN Param(row, path)
        ELSE IF Sources[row.rpc] \cap {"body", "query"} # {} THEN given[f] ELSE Unset]
=============================================================================
