---------------------------- MODULE SubjectAccess ----------------------------
(***************************************************************************)
(* Which clusters a user may see: rbacProvider.SubjectAccess               *)
(* (pkg/storage/rbac_provider.go) as the RBAC middleware of the gateway    *)
(* uses it (pkg/rbac/middleware.go), while the management API creates and  *)
(* deletes roles, role bindings and clusters in the same store.            *)
(*                                                                         *)
(* SubjectAccess reads the store piece by piece: the role bindings, with   *)
(* one role lookup each for the taints on etcd, then the role of every     *)
(* binding and the clusters it selects. Each read is one step.             *)
(***************************************************************************)
EXTENDS Selection, FiniteSets

CONSTANTS Clusters, Roles, Bindings,
          User,         \* the subject of the request
          SubjectSets,  \* subjects a binding may have
          RoleSet,      \* roles that may be stored: [ids, selector]
          LabelSet,     \* labels a cluster may have
          None,
          MaxEdits,     \* bound on what the management API does
          MaxFaults     \* bound on failing reads

ASSUME SubjectAccessAssumption ==
    /\ MaxEdits \in Nat /\ MaxFaults \in Nat
    /\ None \notin RoleSet /\ None \notin LabelSet
    /\ LabelSet \subseteq Labels

VARIABLES
    backend,   \* the storage type: "etcd" or "crds"
    clusters,  \* labels of every cluster, or None
    roles,     \* every stored role, or None
    bindings,  \* every stored binding [role, subjects], or None
    edits, faults,
    pc,        \* "start", "taints", "roles", "clusters", "200", "401"
    listed,    \* what ListRoleBindings read
    todo,      \* bindings the current loop has yet to visit
    taints,    \* bindings with a taint
    role,      \* the role whose clusters are listed
    allowed,   \* allowedClusters
    steady,    \* history: <<binding, role ID, role, cluster>> grants that hold since the call began
    seen,      \* history: all that was stored at some time since then
    failed     \* history: a role lookup failed and its binding was skipped

store == <<backend, clusters, roles, bindings>>
call == <<pc, listed, todo, taints, role, allowed, failed, faults>>
vars == <<store, edits, call, steady, seen>>

BindingSet == [role : Roles, subjects : SubjectSets]

-----------------------------------------------------------------------------
(* What the stored rules mean. *)

Selects(r, c, labels) ==
    \/ c \in r.ids
    \/ labels # None /\ ~IsEmpty(r.selector) /\ KubernetesMatch(r.selector, labels)

Grants(b, c) ==
    /\ bindings[b] # None /\ User \in bindings[b].subjects
    /\ roles[bindings[b].role] # None
    /\ Selects(roles[bindings[b].role], c, clusters[c])

Access == {c \in Clusters : \E b \in Bindings : Grants(b, c)}

AllGrants ==
    {<<g[1], bindings[g[1]].role, roles[bindings[g[1]].role], g[2]>> :
        g \in {h \in Bindings \X Clusters : Grants(h[1], h[2])}}

\* Everything a read could return now, and what it all means.
Stored ==
    [bindings |-> {bindings[b] : b \in Bindings} \ {None},
     roles    |-> {<<r, roles[r]>> : r \in {q \in Roles : roles[q] # None}},
     clusters |-> {<<c, clusters[c]>> : c \in {d \in Clusters : clusters[d] # None}},
     access   |-> Access]

-----------------------------------------------------------------------------
Init ==
    /\ backend \in {"etcd", "crds"}
    /\ clusters \in [Clusters -> LabelSet \cup {None}]
    /\ roles \in [Roles -> RoleSet \cup {None}]
    /\ bindings \in [Bindings -> BindingSet \cup {None}]
    /\ edits = 0 /\ faults = 0
    /\ pc = "start" /\ listed = {} /\ todo = {} /\ taints = {}
    /\ role = None /\ allowed = {}
    /\ steady = AllGrants /\ seen = Stored
    /\ failed = FALSE

\* The history of the call, which begins in the initial state.
Watch ==
    /\ steady' = steady \cap AllGrants'
    /\ seen' = [x \in DOMAIN seen |-> seen[x] \cup Stored'[x]]

-----------------------------------------------------------------------------
(* The management API. The CRD store refuses to create what exists. *)

Edit == edits < MaxEdits /\ edits' = edits + 1 /\ pc \notin {"200", "401"} /\ UNCHANGED <<backend, call>>

CreateRole(r, x) ==
    /\ backend = "crds" => roles[r] = None
    /\ roles' = [roles EXCEPT ![r] = x]
    /\ Edit /\ UNCHANGED <<clusters, bindings>> /\ Watch

DeleteRole(r) ==
    /\ roles[r] # None
    /\ roles' = [roles EXCEPT ![r] = None]
    /\ Edit /\ UNCHANGED <<clusters, bindings>> /\ Watch

CreateRoleBinding(b, x) ==
    /\ backend = "crds" => bindings[b] = None
    /\ bindings' = [bindings EXCEPT ![b] = x]
    /\ Edit /\ UNCHANGED <<clusters, roles>> /\ Watch

DeleteRoleBinding(b) ==
    /\ bindings[b] # None
    /\ bindings' = [bindings EXCEPT ![b] = None]
    /\ Edit /\ UNCHANGED <<clusters, roles>> /\ Watch

\* A cluster bootstraps, is relabelled or is deleted.
ChangeCluster(c, x) ==
    /\ x # clusters[c]
    /\ clusters' = [clusters EXCEPT ![c] = x]
    /\ Edit /\ UNCHANGED <<roles, bindings>> /\ Watch

-----------------------------------------------------------------------------
(* SubjectAccess *)

Quiet == UNCHANGED <<store, edits, steady, seen>>

StoredBindings ==
    {[id |-> b, role |-> bindings[b].role, subjects |-> bindings[b].subjects] :
        b \in {d \in Bindings : bindings[d] # None}}

\* etcd looks up the role of every binding as well, to taint those without one.
ListRoleBindings ==
    /\ pc = "start"
    /\ listed' = StoredBindings
    /\ todo' = listed'
    /\ pc' = IF backend = "etcd" THEN "taints" ELSE "roles"
    /\ UNCHANGED <<taints, role, allowed, failed, faults>> /\ Quiet

\* The role of a binding is found, by whatever is stored now.
RoleFound(b) == roles[b.role] # None

\* Mutant: a binding whose role does not exist taints all of them.
TaintsAll(b) ==
    /\ pc = "taints" /\ b \in todo
    /\ todo' = todo \ {b}
    /\ taints' = IF roles[b.role] = None THEN listed ELSE taints
    /\ UNCHANGED <<pc, listed, role, allowed, failed, faults>> /\ Quiet

ApplyRoleBindingTaints(b) ==
    /\ pc = "taints" /\ b \in todo
    /\ todo' = todo \ {b}
    /\ taints' = IF ~RoleFound(b) \/ b.subjects = {} THEN taints \cup {b} ELSE taints
    /\ UNCHANGED <<pc, listed, role, allowed, failed, faults>> /\ Quiet

TaintsApplied ==
    /\ pc = "taints" /\ todo = {}
    /\ pc' = "roles" /\ todo' = listed
    /\ UNCHANGED <<listed, taints, role, allowed, failed, faults>> /\ Quiet

\* Mutant: a binding applies to everybody.
AnyUser(b) == b \in listed

AppliesToUser(b) == User \in b.subjects

Skip(b) ==
    /\ pc = "roles" /\ b \in todo
    /\ ~AppliesToUser(b) \/ b \in taints
    /\ todo' = todo \ {b}
    /\ UNCHANGED <<pc, listed, taints, role, allowed, failed, faults>> /\ Quiet

\* Mutant: a role that does not exist ends the evaluation.
StopsAtMissingRole(b) ==
    /\ pc = "roles" /\ b \in todo /\ AppliesToUser(b) /\ b \notin taints
    /\ IF roles[b.role] = None
       THEN todo' = {} /\ UNCHANGED <<pc, role, allowed>>
       ELSE /\ todo' = todo \ {b}
            /\ pc' = "clusters" /\ role' = roles[b.role]
            /\ allowed' = allowed \cup roles[b.role].ids
    /\ UNCHANGED <<listed, taints, failed, faults>> /\ Quiet

\* The role's explicit cluster IDs are added; a role that is not found is skipped.
GetRole(b) ==
    /\ pc = "roles" /\ b \in todo /\ AppliesToUser(b) /\ b \notin taints
    /\ todo' = todo \ {b}
    /\ IF RoleFound(b)
       THEN /\ pc' = "clusters" /\ role' = roles[b.role]
            /\ allowed' = allowed \cup roles[b.role].ids
       ELSE UNCHANGED <<pc, role, allowed>>
    /\ UNCHANGED <<listed, taints, failed, faults>> /\ Quiet

\* Any other error of the lookup is logged, and the binding is skipped too.
GetRoleFails(b) ==
    /\ pc = "roles" /\ b \in todo /\ AppliesToUser(b) /\ b \notin taints
    /\ faults < MaxFaults /\ faults' = faults + 1
    /\ todo' = todo \ {b} /\ failed' = TRUE
    /\ UNCHANGED <<pc, listed, taints, role, allowed>> /\ Quiet

\* The stored clusters that the selector of the role matches.
Matching ==
    {c \in Clusters : clusters[c] # None /\ Predicate({}, role.selector, TRUE, c, clusters[c])}

ListClusters ==
    /\ pc = "clusters"
    /\ allowed' = allowed \cup Matching
    /\ pc' = "roles" /\ role' = None
    /\ UNCHANGED <<listed, todo, taints, failed, faults>> /\ Quiet

\* An error of one of the other reads fails the call: the request is refused.
ReadFails ==
    /\ \/ pc \in {"start", "clusters"}
       \/ pc = "taints" /\ todo # {}
    /\ faults < MaxFaults /\ faults' = faults + 1
    /\ pc' = "401"
    /\ UNCHANGED <<listed, todo, taints, role, allowed, failed>> /\ Quiet

\* The middleware refuses a user without clusters, and passes the IDs on.
Respond ==
    /\ pc = "roles" /\ todo = {}
    /\ pc' = IF allowed = {} THEN "401" ELSE "200"
    /\ UNCHANGED <<listed, todo, taints, role, allowed, failed, faults>> /\ Quiet

-----------------------------------------------------------------------------
Management ==
    \/ \E r \in Roles : DeleteRole(r) \/ \E x \in RoleSet : CreateRole(r, x)
    \/ \E b \in Bindings : DeleteRoleBinding(b) \/ \E x \in BindingSet : CreateRoleBinding(b, x)
    \/ \E c \in Clusters, x \in LabelSet \cup {None} : ChangeCluster(c, x)

Evaluate ==
    \/ ListRoleBindings \/ TaintsApplied \/ ListClusters \/ Respond
    \/ \E b \in listed : ApplyRoleBindingTaints(b) \/ Skip(b) \/ GetRole(b)

\* The request is over.
Answered == pc \in {"200", "401"} /\ UNCHANGED vars

Next == Management \/ Evaluate \/ ReadFails \/ (\E b \in listed : GetRoleFails(b)) \/ Answered

Spec == Init /\ [][Next]_vars

-----------------------------------------------------------------------------
(* Properties *)

\* Undisturbed, a call computes the union of the roles bound to the user, on
\* both backends: the taints of the etcd store and the missing taints of the
\* CRD store make no difference.
UndisturbedExact ==
    pc \in {"200", "401"} /\ edits = 0 /\ faults = 0
        => allowed = Access /\ (pc = "200" <=> Access # {})

\* No phantom access: a cluster is passed on only if a binding of the user, the
\* role of that name and the cluster's labels were each stored at some time of
\* the call and together allow it.
NoPhantomAccess ==
    \A c \in allowed :
        \E x \in seen.bindings, r \in seen.roles :
            /\ User \in x.subjects /\ r[1] = x.role
            /\ \/ c \in r[2].ids
               \/ \E k \in seen.clusters : k[1] = c /\ Selects(r[2], c, k[2])

\* Edits of other objects never cost a user a cluster: a grant that holds
\* throughout the call, by the same role and binding, is honoured, unless a role
\* lookup failed.
SteadyAccessKept ==
    (pc = "200" /\ ~failed) \/ (pc = "401" /\ faults = 0)
        => \A g \in steady : g[4] \in allowed

\* access_control.md: "the system will evaluate the current RBAC rules" -- the
\* clusters passed on are ones the stored rules allow, or allowed during the call.
\* Does not hold: a binding that was read first and deleted since still applies to
\* a role that was created only after that.
CurrentRules == allowed \subseteq seen.access
=============================================================================
