---------------------------- MODULE GatewayOperator ----------------------------
(***************************************************************************)
(* The operator of the Gateway resource (pkg/sdk): one controller that     *)
(* keeps the objects of a gateway - its configuration, its certificates,   *)
(* deployment, service and RBAC - as the Gateway resource asks.            *)
(*                                                                         *)
(* Kubernetes is external: the work queue keeps one entry per gateway, the *)
(* controller reads the gateway from a cache that follows the API server,  *)
(* ReconcileResource creates or overwrites one object, the garbage         *)
(* collector removes the objects of a gateway that is gone.                *)
(***************************************************************************)
EXTENDS Naturals, Sequences, SequencesExt

CONSTANTS Specs,         \* contents of the Gateway resource
          Unsupported,   \* those with an auth provider the operator does not know
          Unusable,      \* those with a listen address or noauth section it cannot use
          None,
          Initial,       \* the gateway, or None, when the operator starts
          Deletable,     \* the objects that others delete
          Failing,       \* the objects that ReconcileResource may fail on
          MaxEdits,      \* bound on changes of the Gateway resource
          MaxTroubles    \* bound on objects deleted by others and calls that fail

ASSUME OperatorAssumption ==
    /\ None \notin Specs /\ Initial \subseteq Specs \cup {None}
    /\ Unsupported \cup Unusable \subseteq Specs
    /\ {MaxEdits, MaxTroubles} \subseteq Nat

-----------------------------------------------------------------------------
(* The objects of a gateway, in the order in which they are applied. *)

configMap == <<"configMap">>

gatewayCerts == <<"selfsignedIssuer", "gatewayCA", "gatewayCAIssuer", "gatewayServingCert">>
cortexCerts == <<"cortexIntermediateCA", "cortexIntermediateCAIssuer", "cortexClientCA",
                 "cortexClientCAIssuer", "cortexClientCert", "cortexServingCert">>
etcdCerts == <<"etcdIntermediateCA", "etcdIntermediateCAIssuer", "etcdClientCert",
               "etcdServingCert">>
certs == gatewayCerts \o cortexCerts \o etcdCerts

deployment == <<"deployment">>
service == <<"service">>
rbac == <<"serviceAccount", "role", "roleBinding">>

allResources == configMap \o certs \o deployment \o service \o rbac
Objects == ToSet(allResources)

ASSUME TroubleAssumption == Deletable \cup Failing \subseteq Objects

\* The kinds whose events the controller gets (Owns). The self-signed issuer is a
\* ClusterIssuer, outside of every namespace: its events name no gateway, and it
\* is not garbage of one.
Owns == Objects \ ({"selfsignedIssuer"} \cup ToSet(service \o rbac))

-----------------------------------------------------------------------------
VARIABLES
    gateway, uid,   \* the Gateway resource, or None, and which incarnation it is
    cached,         \* the gateway as the controller's cache has it
    queued,         \* the gateway is in the work queue
    at,             \* how many resources this reconciliation has applied, or None
    plan,           \* the gateway it has read
    obj,            \* obj[o]: the gateway that o was made from, or None
    edits, troubles,
    missing         \* history: objects deleted by others and not applied since

controller == <<at, plan>>
bounds == <<edits, troubles>>
vars == <<gateway, uid, cached, queued, controller, obj, bounds, missing>>

Current == IF gateway = None THEN None ELSE [spec |-> gateway, uid |-> uid]

\* The operator starts, with or without a gateway, for the first time or again: then
\* there may be the objects of an earlier gateway of the same name.
Init ==
    /\ gateway \in Initial /\ uid = 2 /\ cached = None /\ queued = FALSE
    /\ at = None /\ plan = None
    /\ \E made \in {None} \cup [spec : Initial \ (Unsupported \cup Unusable \cup {None}), uid : {1}] :
         obj = [o \in Objects |-> made]
    /\ missing = {} /\ edits = 0 /\ troubles = 0

\* The Gateway resource is created, changed or deleted.
Edit(s) ==
    /\ edits < MaxEdits /\ edits' = edits + 1
    /\ gateway # s /\ gateway' = s
    /\ uid' = IF gateway = None THEN uid + 1 ELSE uid
    /\ UNCHANGED <<cached, queued, controller, obj, troubles, missing>>

\* The cache catches up, and the event is queued.
Watch ==
    /\ cached # Current
    /\ cached' = Current /\ queued' = TRUE
    /\ UNCHANGED <<gateway, uid, controller, obj, bounds, missing>>

-----------------------------------------------------------------------------
(* Reconcile *)

\* configMap refuses an auth provider it does not know; deployment and service refuse
\* a listen address that has no port, and noauth without its section.
configMapBuilds(s) == s \notin Unsupported
optionalContainerPortsBuild(s) == s \notin Unusable

\* All resources are built before the first is applied.
Builds(s) == configMapBuilds(s) /\ optionalContainerPortsBuild(s)

\* The gateway is read from the cache. Without one there is nothing to do; an
\* error queues the gateway again, where it fails until it is edited.
Read ==
    /\ queued /\ at = None
    /\ IF cached = None \/ (cached # None /\ ~Builds(cached.spec))
       THEN queued' = FALSE /\ UNCHANGED controller
       ELSE queued' = FALSE /\ at' = 0 /\ plan' = cached
    /\ UNCHANGED <<gateway, uid, cached, obj, bounds, missing>>

\* Mutant: an existing object is left as it is.
CreatesOnly ==
    /\ at # None /\ at < Len(allResources)
    /\ LET o == allResources[at + 1] IN
         /\ obj' = IF obj[o] = None THEN [obj EXCEPT ![o] = plan] ELSE obj
         /\ missing' = missing \ {o}
    /\ at' = at + 1
    /\ UNCHANGED <<gateway, uid, cached, queued, plan, bounds>>

\* The next resource is created or overwritten.
ReconcileResource ==
    /\ at # None /\ at < Len(allResources)
    /\ LET o == allResources[at + 1] IN
         /\ obj' = [obj EXCEPT ![o] = plan]
         /\ missing' = missing \ {o}
    /\ at' = at + 1
    /\ UNCHANGED <<gateway, uid, cached, queued, plan, bounds>>

\* Mutant: the error is logged and dropped.
DropsError ==
    /\ at # None /\ at < Len(allResources) /\ allResources[at + 1] \in Failing
    /\ troubles < MaxTroubles /\ troubles' = troubles + 1
    /\ at' = None /\ plan' = None
    /\ UNCHANGED <<gateway, uid, cached, queued, obj, edits, missing>>

\* ReconcileResource fails, or asks to be called again: the rest is left for the
\* next reconciliation.
ReconcileFails ==
    /\ at # None /\ at < Len(allResources) /\ allResources[at + 1] \in Failing
    /\ troubles < MaxTroubles /\ troubles' = troubles + 1
    /\ at' = None /\ plan' = None /\ queued' = TRUE
    /\ UNCHANGED <<gateway, uid, cached, obj, edits, missing>>

Reconciled ==
    /\ at = Len(allResources)
    /\ at' = None /\ plan' = None
    /\ UNCHANGED <<gateway, uid, cached, queued, obj, bounds, missing>>

-----------------------------------------------------------------------------
(* The cluster *)

\* Someone deletes an object.
Disturb(o) ==
    /\ troubles < MaxTroubles /\ troubles' = troubles + 1
    /\ obj[o] # None
    /\ obj' = [obj EXCEPT ![o] = None] /\ missing' = missing \cup {o}
    /\ queued' = (queued \/ o \in Owns)
    /\ UNCHANGED <<gateway, uid, cached, controller, edits>>

\* The owner of an object is gone.
Orphaned(o) ==
    /\ obj[o] # None /\ o # "selfsignedIssuer"
    /\ gateway = None \/ obj[o].uid # uid

\* One pass of the garbage collector.
CollectGarbage ==
    LET orphans == {o \in Objects : Orphaned(o)} IN
    /\ orphans # {}
    /\ obj' = [o \in Objects |-> IF o \in orphans THEN None ELSE obj[o]]
    /\ missing' = missing \cup orphans
    /\ queued' = (queued \/ orphans \cap Owns # {})
    /\ UNCHANGED <<gateway, uid, cached, controller, bounds>>

Reconcile == Read \/ ReconcileResource \/ Reconciled

Next ==
    \/ \E s \in Specs \cup {None} : Edit(s)
    \/ Watch \/ Reconcile \/ ReconcileFails
    \/ CollectGarbage \/ \E o \in Deletable : Disturb(o)

Spec == Init /\ [][Next]_vars

-----------------------------------------------------------------------------
(* Properties *)

\* A reconciliation applies one reading of the gateway: what it has applied so far
\* is from that reading, unless it was deleted since.
OneReading ==
    at # None => \A i \in 1 .. at : obj[allResources[i]] \in {plan, None}

\* Once the edits stop, the objects are those of the gateway, whatever failed or was
\* deleted in between; only an object of a kind that the controller does not watch
\* stays away, and a gateway that cannot be built leaves things as they are.
Converges ==
    <>[](/\ gateway # None /\ Builds(gateway) =>
               \A o \in Objects : obj[o] = Current \/ (o \in missing \ Owns /\ obj[o] = None)
         /\ gateway = None => \A o \in Objects \ {"selfsignedIssuer"} : obj[o] = None)
=============================================================================
