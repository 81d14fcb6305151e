------------------------ MODULE SubjectAccess_proofs ------------------------
(***************************************************************************)
(* Proof that SubjectAccess gives no phantom access, for any clusters,      *)
(* roles, bindings and subjects and any number of edits and failing reads   *)
(* in the course of a call. It rests on SelectorsSound, which is false for  *)
(* roles with a NotIn requirement before another one (pkg/storage/          *)
(* selection.go); MCSubjectAccess evaluates it for all small selectors      *)
(* without NotIn.                                                           *)
(***************************************************************************)
EXTENDS SubjectAccess, TLAPS

\* What labelSelectorMatches lets through, Kubernetes would.
SelectorsSound ==
    \A r \in RoleSet, l \in LabelSet :
        labelSelectorMatches(r.selector, l) => KubernetesMatch(r.selector, l)

TypeInv ==
    /\ clusters \in [Clusters -> LabelSet \cup {None}]
    /\ roles \in [Roles -> RoleSet \cup {None}]
    /\ bindings \in [Bindings -> BindingSet \cup {None}]
    /\ DOMAIN seen = {"bindings", "roles", "clusters", "access"}
    /\ todo \subseteq listed

\* What is stored was seen.
SeenInv ==
    /\ \A b \in Bindings : bindings[b] # None => bindings[b] \in seen.bindings
    /\ \A r \in Roles : roles[r] # None => <<r, roles[r]>> \in seen.roles
    /\ \A c \in Clusters : clusters[c] # None => <<c, clusters[c]>> \in seen.clusters

\* A binding that was listed was seen, with the same role and subjects.
ListedInv ==
    \A b \in listed :
        b.role \in Roles /\ \E x \in seen.bindings : x.role = b.role /\ x.subjects = b.subjects

\* The role whose clusters are listed was seen, and so was a binding of the user
\* to the role of that name.
RoleInv ==
    pc = "clusters" =>
        /\ role \in RoleSet
        /\ \E x \in seen.bindings : User \in x.subjects /\ <<x.role, role>> \in seen.roles

IInv == TypeInv /\ SeenInv /\ ListedInv /\ RoleInv /\ NoPhantomAccess

-----------------------------------------------------------------------------
LEMMA InitIInv == Init => IInv
  <1> SUFFICES ASSUME Init PROVE IInv
    OBVIOUS
  <1>1. TypeInv
    BY DEF Init, TypeInv, Stored
  <1>2. SeenInv
    BY DEF Init, SeenInv, Stored
  <1>3. ListedInv /\ RoleInv /\ NoPhantomAccess
    BY DEF Init, ListedInv, RoleInv, NoPhantomAccess
  <1> QED BY <1>1, <1>2, <1>3 DEF IInv

\* What was seen stays seen, and what is stored after an edit is seen then.
LEMMA WatchSees ==
    ASSUME TypeInv, Watch
    PROVE  /\ DOMAIN seen' = DOMAIN seen
           /\ seen.bindings \subseteq seen'.bindings
           /\ seen.roles \subseteq seen'.roles
           /\ seen.clusters \subseteq seen'.clusters
           /\ SeenInv'
  <1>1. /\ DOMAIN seen' = DOMAIN seen
        /\ seen'.bindings = seen.bindings \cup Stored'.bindings
        /\ seen'.roles = seen.roles \cup Stored'.roles
        /\ seen'.clusters = seen.clusters \cup Stored'.clusters
    BY DEF Watch, TypeInv
  <1>2. SeenInv'
    BY <1>1 DEF SeenInv, Stored
  <1> QED BY <1>1, <1>2

LEMMA EditIInv ==
    ASSUME IInv, Watch, UNCHANGED call,
           clusters' \in [Clusters -> LabelSet \cup {None}],
           roles' \in [Roles -> RoleSet \cup {None}],
           bindings' \in [Bindings -> BindingSet \cup {None}]
    PROVE  IInv'
  <1>1. /\ DOMAIN seen' = DOMAIN seen
        /\ seen.bindings \subseteq seen'.bindings
        /\ seen.roles \subseteq seen'.roles
        /\ seen.clusters \subseteq seen'.clusters
        /\ SeenInv'
    BY WatchSees DEF IInv
  <1>2. TypeInv'
    BY <1>1 DEF IInv, TypeInv, call
  <1>3. ListedInv'
    BY <1>1 DEF IInv, ListedInv, call
  <1>4. RoleInv'
    BY <1>1 DEF IInv, RoleInv, call
  <1>5. NoPhantomAccess'
    <2> SUFFICES ASSUME NEW c \in allowed
                 PROVE  \E x \in seen'.bindings, r \in seen'.roles :
                            /\ User \in x.subjects /\ r[1] = x.role
                            /\ \/ c \in r[2].ids
                               \/ \E k \in seen'.clusters : k[1] = c /\ Selects(r[2], c, k[2])
      BY DEF NoPhantomAccess, call, Selects
    <2>1. PICK x \in seen.bindings, r \in seen.roles :
              /\ User \in x.subjects /\ r[1] = x.role
              /\ \/ c \in r[2].ids
                 \/ \E k \in seen.clusters : k[1] = c /\ Selects(r[2], c, k[2])
      BY DEF IInv, NoPhantomAccess
    <2> QED BY <1>1, <2>1
  <1> QED BY <1>1, <1>2, <1>3, <1>4, <1>5 DEF IInv

LEMMA ManagementIInv == IInv /\ Management => IInv'
  <1> SUFFICES ASSUME IInv, Management PROVE IInv'
    OBVIOUS
  <1>1. Watch /\ UNCHANGED call
    BY DEF Management, DeleteRole, CreateRole, DeleteRoleBinding, CreateRoleBinding, ChangeCluster, Edit
  <1>2. clusters' \in [Clusters -> LabelSet \cup {None}]
    BY DEF Management, DeleteRole, CreateRole, DeleteRoleBinding, CreateRoleBinding, ChangeCluster,
           IInv, TypeInv
  <1>3. roles' \in [Roles -> RoleSet \cup {None}]
    BY DEF Management, DeleteRole, CreateRole, DeleteRoleBinding, CreateRoleBinding, ChangeCluster,
           IInv, TypeInv
  <1>4. bindings' \in [Bindings -> BindingSet \cup {None}]
    BY DEF Management, DeleteRole, CreateRole, DeleteRoleBinding, CreateRoleBinding, ChangeCluster,
           IInv, TypeInv
  <1> QED BY <1>1, <1>2, <1>3, <1>4, EditIInv

LEMMA CallIInv ==
    ASSUME SelectorsSound, IInv, Evaluate \/ ReadFails \/ \E b \in listed : GetRoleFails(b)
    PROVE  IInv'
  <1>1. clusters' = clusters /\ roles' = roles /\ bindings' = bindings /\ seen' = seen
    BY DEF Evaluate, ListRoleBindings, TaintsApplied, ListClusters, Respond, ApplyRoleBindingTaints,
           Skip, GetRole, ReadFails, GetRoleFails, Quiet, store
  <1>2. SeenInv'
    BY <1>1 DEF IInv, SeenInv
  <1>3. CASE ListRoleBindings
    <2>1. listed' = StoredBindings /\ todo' = listed' /\ allowed' = allowed /\ pc' # "clusters"
      BY <1>3 DEF ListRoleBindings
    <2>2. ListedInv'
      BY <1>1, <2>1 DEF IInv, TypeInv, SeenInv, ListedInv, StoredBindings, BindingSet
    <2> QED BY <1>1, <1>2, <2>1, <2>2 DEF IInv, TypeInv, RoleInv, NoPhantomAccess, Selects
  <1>4. CASE \/ TaintsApplied \/ Respond \/ ReadFails
             \/ \E b \in listed : ApplyRoleBindingTaints(b) \/ Skip(b) \/ GetRoleFails(b)
    <2>1. listed' = listed /\ todo' \subseteq listed /\ allowed' = allowed /\ pc' # "clusters"
      BY <1>4 DEF TaintsApplied, Respond, ReadFails, ApplyRoleBindingTaints, Skip, GetRoleFails,
                  IInv, TypeInv
    <2> QED BY <1>1, <1>2, <2>1 DEF IInv, TypeInv, ListedInv, RoleInv, NoPhantomAccess, Selects
  <1>5. ASSUME NEW b \in listed, GetRole(b) PROVE IInv'
    <2>1. listed' = listed /\ todo' \subseteq listed
      BY <1>5 DEF GetRole, IInv, TypeInv
    <2>2. PICK x \in seen.bindings : x.role = b.role /\ User \in x.subjects /\ b.role \in Roles
      BY <1>5 DEF GetRole, AppliesToUser, IInv, ListedInv
    <2>3. RoleInv' /\ NoPhantomAccess'
      <3>1. CASE ~RoleFound(b)
        BY <1>1, <1>5, <3>1 DEF GetRole, IInv, RoleInv, NoPhantomAccess, Selects
      <3>2. CASE RoleFound(b)
        <4>1. /\ role' = roles[b.role] /\ allowed' = allowed \cup roles[b.role].ids
              /\ roles[b.role] \in RoleSet /\ <<x.role, roles[b.role]>> \in seen.roles
          BY <1>5, <3>2, <2>2 DEF GetRole, RoleFound, IInv, TypeInv, SeenInv
        <4>2. RoleInv'
          BY <1>1, <2>2, <4>1 DEF RoleInv
        <4>3. NoPhantomAccess'
          BY <1>1, <2>2, <4>1 DEF IInv, NoPhantomAccess, Selects
        <4> QED BY <4>2, <4>3
      <3> QED BY <3>1, <3>2
    <2> QED BY <1>1, <1>2, <2>1, <2>3 DEF IInv, TypeInv, ListedInv
  <1>6. CASE ListClusters
    <2>1. listed' = listed /\ todo' = todo /\ pc = "clusters" /\ pc' = "roles"
             /\ allowed' = allowed \cup Matching
      BY <1>6 DEF ListClusters
    <2>2. PICK x \in seen.bindings : User \in x.subjects /\ <<x.role, role>> \in seen.roles
      BY <2>1 DEF IInv, RoleInv
    <2>3. ASSUME NEW c \in Matching
          PROVE  <<c, clusters[c]>> \in seen.clusters /\ Selects(role, c, clusters[c])
      <3>1. /\ c \in Clusters /\ clusters[c] # None
            /\ ~IsEmpty(role.selector) /\ labelSelectorMatches(role.selector, clusters[c])
        BY <2>3 DEF Matching, Predicate
      <3>2. role \in RoleSet /\ clusters[c] \in LabelSet
        BY <2>1, <3>1 DEF IInv, RoleInv, TypeInv
      <3> QED BY <3>1, <3>2 DEF SelectorsSound, Selects, IInv, SeenInv
    <2>4. NoPhantomAccess'
      <3> SUFFICES ASSUME NEW c \in allowed'
                   PROVE  \E y \in seen.bindings, r \in seen.roles :
                              /\ User \in y.subjects /\ r[1] = y.role
                              /\ \/ c \in r[2].ids
                                 \/ \E k \in seen.clusters : k[1] = c /\ Selects(r[2], c, k[2])
        BY <1>1 DEF NoPhantomAccess, Selects
      <3>1. CASE c \in allowed
        BY <3>1 DEF IInv, NoPhantomAccess
      <3>2. CASE c \in Matching
        <4> DEFINE r == <<x.role, role>>
                   k == <<c, clusters[c]>>
        <4>1. r \in seen.roles /\ r[1] = x.role /\ r[2] = role
          BY <2>2
        <4>2. k \in seen.clusters /\ k[1] = c /\ Selects(r[2], c, k[2])
          BY <3>2, <2>3
        <4> HIDE DEF r, k
        <4> QED BY <2>2, <4>1, <4>2
      <3> QED BY <2>1, <3>1, <3>2
    <2> QED BY <1>1, <1>2, <2>1, <2>4 DEF IInv, TypeInv, ListedInv, RoleInv
  <1> QED BY <1>3, <1>4, <1>5, <1>6 DEF Evaluate

\* Whatever the management API does in the course of a call of SubjectAccess
\* (pkg/storage/rbac_provider.go), a cluster is passed on only if a binding of the
\* user, the role of that name and the cluster's labels were each stored at some
\* time of the call and together allow it.
THEOREM AccessNoPhantom == SelectorsSound => (Spec => []NoPhantomAccess)
  <1> SUFFICES ASSUME SelectorsSound PROVE Spec => []NoPhantomAccess
    OBVIOUS
  <1>1. IInv /\ [Next]_vars => IInv'
    <2> SUFFICES ASSUME IInv, [Next]_vars PROVE IInv'
      OBVIOUS
    <2>1. CASE Management
      BY <2>1, ManagementIInv
    <2>2. CASE Evaluate \/ ReadFails \/ \E b \in listed : GetRoleFails(b)
      BY <2>2, CallIInv
    <2>3. CASE UNCHANGED vars
      BY <2>3 DEF vars, store, call, IInv, TypeInv, SeenInv, ListedInv, RoleInv, NoPhantomAccess, Selects
    <2> QED BY <2>1, <2>2, <2>3 DEF Next, Answered
  <1>2. IInv => NoPhantomAccess
    BY DEF IInv
  <1> QED BY InitIInv, <1>1, <1>2, PTL DEF Spec
=============================================================================
