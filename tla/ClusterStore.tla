---------------------------- MODULE ClusterStore ----------------------------
(***************************************************************************)
(* The cluster store on its two backends (pkg/storage/etcd/cluster_store.go *)
(* and pkg/storage/crds/cluster_store.go), for one cluster: concurrent     *)
(* CreateCluster, UpdateCluster and DeleteCluster calls, each request to    *)
(* etcd or to the Kubernetes API one step.                                 *)
(*                                                                         *)
(* Both backends keep, for every object, the number of the write that made *)
(* it (etcd's mod revision, Kubernetes' resourceVersion); etcd also counts *)
(* the writes since the key was created, its version. UpdateCluster on etcd *)
(* compares the version, on custom resources the resourceVersion.          *)
(***************************************************************************)
EXTENDS Naturals, FiniteSets

CONSTANTS Creators,  \* calls of CreateCluster
          Updaters,  \* calls of UpdateCluster
          Deleters,  \* calls of DeleteCluster
          CapOf,     \* CapOf[x]: the capability a creator gives or an updater adds
          Editors,   \* updaters that replace the labels instead (EditCluster)
          Backend,   \* "etcd" or "crds"
          Steps      \* attempts the retry backoff allows

Calls == Creators \cup Updaters \cup Deleters
Caps == {CapOf[x] : x \in Creators \cup Updaters}

ASSUME ClusterStoreAssumption ==
    /\ Creators \cap Updaters = {}
    /\ Creators \cap Deleters = {}
    /\ Updaters \cap Deleters = {}
    /\ Editors \subseteq Updaters
    /\ "none" \notin Calls
    /\ Backend \in {"etcd", "crds"}
    /\ Steps \in Nat \ {0}

VARIABLES
    obj,      \* the stored cluster: version 0 means it is absent
    rev,      \* writes the backend has executed
    births,   \* history: how often the cluster came into being
    pc,       \* where each call is, or what it returned
    snap,     \* the cluster each UpdateCluster call last read
    fails,    \* attempts of the call that met a conflict
    lost,     \* calls that timed out with their write still on its way
    applied   \* history: calls whose write took effect

vars == <<obj, rev, births, pc, snap, fails, lost, applied>>

Returned == {"ok", "notFound", "exists", "retryErr", "err"}

Objects == [version : Nat, rev : Nat, caps : SUBSET Caps,
            labels : Creators \cup Updaters \cup {"none"}]

NoObject == [version |-> 0, rev |-> 0, caps |-> {}, labels |-> "none"]

Exists == obj.version > 0

TypeOK ==
    /\ obj \in Objects
    /\ rev \in Nat
    /\ births \in Nat
    /\ pc \in [Calls -> {"create", "get", "write", "delete"} \cup Returned]
    /\ snap \in [Updaters -> Objects]
    /\ fails \in [Updaters -> Nat]
    /\ lost \in SUBSET Calls
    /\ applied \in SUBSET Calls

Init ==
    /\ obj = NoObject
    /\ rev = 0
    /\ births = 0
    /\ pc = [x \in Calls |-> IF x \in Creators THEN "create"
                             ELSE IF x \in Updaters THEN "get" ELSE "delete"]
    /\ snap = [u \in Updaters |-> NoObject]
    /\ fails = [u \in Updaters |-> 0]
    /\ lost = {}
    /\ applied = {}

-----------------------------------------------------------------------------
Return(x, r) == pc' = [pc EXCEPT ![x] = r]

\* The backend executes a write of call x that changes the cluster to new.
Execute(x, new) ==
    /\ obj' = new
    /\ rev' = rev + 1
    /\ births' = IF ~Exists THEN births + 1 ELSE births
    /\ applied' = applied \cup {x}

NotExecuted == UNCHANGED <<obj, rev, births, applied>>

\* A request of the call times out. Its write may be executed later, or not.
Error(x) ==
    /\ pc[x] \notin Returned
    /\ Return(x, "err")
    /\ lost' = IF pc[x] = "get" THEN lost ELSE lost \cup {x}
    /\ NotExecuted
    /\ UNCHANGED <<snap, fails>>

-----------------------------------------------------------------------------
(* CreateCluster *)

\* etcd puts unconditionally; Kubernetes refuses to create what exists.
MayCreate == Backend = "etcd" \/ ~Exists

New(c) == [version |-> obj.version + 1, rev |-> rev + 1,
           caps |-> {CapOf[c]}, labels |-> c]

CreateCluster(c) ==
    /\ pc[c] = "create"
    /\ \/ /\ MayCreate
          /\ Execute(c, New(c))
          /\ Return(c, "ok")
       \/ /\ ~MayCreate
          /\ Return(c, "exists")
          /\ NotExecuted
    /\ UNCHANGED <<snap, fails, lost>>

LateCreate(c) ==
    /\ c \in lost
    /\ lost' = lost \ {c}
    /\ IF MayCreate THEN Execute(c, New(c)) ELSE NotExecuted
    /\ UNCHANGED <<pc, snap, fails>>

-----------------------------------------------------------------------------
(* UpdateCluster: read the cluster, mutate the copy, write it back if it is  *)
(* still the one that was read; otherwise start over, up to Steps times.     *)

UpdateClusterGet(u) ==
    /\ pc[u] = "get"
    /\ \/ /\ Exists
          /\ snap' = [snap EXCEPT ![u] = obj]
          /\ Return(u, "write")
       \/ /\ ~Exists
          /\ Return(u, "notFound")
          /\ UNCHANGED snap
    /\ NotExecuted
    /\ UNCHANGED <<fails, lost>>

\* Mutant: the write only asks that the cluster is there.
ComparesNothing(u) == Exists /\ u \in Updaters

Unmodified(u) ==
    \/ Backend = "etcd" /\ obj.version = snap[u].version
    \/ Backend = "crds" /\ Exists /\ obj.rev = snap[u].rev

\* The mutator, applied to the copy that was read: a capability is added once
\* (NewAddCapabilityMutator), EditCluster replaces the labels.
Mutated(u) ==
    [version |-> obj.version + 1, rev |-> rev + 1,
     caps |-> IF u \in Editors THEN snap[u].caps ELSE snap[u].caps \cup {CapOf[u]},
     labels |-> IF u \in Editors THEN u ELSE snap[u].labels]

\* A conflict: the backoff decides whether the function runs again.
Retry(u) ==
    /\ fails' = [fails EXCEPT ![u] = @ + 1]
    /\ Return(u, IF fails[u] + 1 < Steps THEN "get" ELSE "retryErr")

\* Kubernetes answers "not found" to an update of a deleted object; etcd's
\* comparison fails, and the next read finds out.
UpdateClusterWrite(u) ==
    /\ pc[u] = "write"
    /\ \/ /\ Unmodified(u)
          /\ Execute(u, Mutated(u))
          /\ Return(u, "ok")
          /\ UNCHANGED fails
       \/ /\ ~Unmodified(u) /\ (Backend = "etcd" \/ Exists)
          /\ Retry(u)
          /\ NotExecuted
       \/ /\ ~Unmodified(u) /\ Backend = "crds" /\ ~Exists
          /\ Return(u, "notFound")
          /\ NotExecuted
          /\ UNCHANGED fails
    /\ UNCHANGED <<snap, lost>>

LateWrite(u) ==
    /\ u \in lost
    /\ lost' = lost \ {u}
    /\ IF Unmodified(u) THEN Execute(u, Mutated(u)) ELSE NotExecuted
    /\ UNCHANGED <<pc, snap, fails>>

-----------------------------------------------------------------------------
(* DeleteCluster *)

Remove(d) ==
    /\ obj' = NoObject
    /\ rev' = rev + 1
    /\ applied' = applied \cup {d}
    /\ UNCHANGED births

\* Mutant: the number of deleted keys is not looked at.
DeletesAnything(d) ==
    /\ pc[d] = "delete"
    /\ Remove(d)
    /\ Return(d, "ok")
    /\ UNCHANGED <<snap, fails, lost>>

DeleteCluster(d) ==
    /\ pc[d] = "delete"
    /\ \/ Exists /\ Remove(d) /\ Return(d, "ok")
       \/ ~Exists /\ NotExecuted /\ Return(d, "notFound")
    /\ UNCHANGED <<snap, fails, lost>>

LateDelete(d) ==
    /\ d \in lost
    /\ lost' = lost \ {d}
    /\ IF Exists THEN Remove(d) ELSE NotExecuted
    /\ UNCHANGED <<pc, snap, fails>>

-----------------------------------------------------------------------------
UpdateCluster(u) == UpdateClusterGet(u) \/ UpdateClusterWrite(u)

\* Every call has returned; what is on its way may never arrive.
Finished ==
    /\ \A x \in Calls : pc[x] \in Returned
    /\ UNCHANGED vars

Next ==
    \/ \E c \in Creators : CreateCluster(c) \/ LateCreate(c)
    \/ \E u \in Updaters : UpdateCluster(u) \/ LateWrite(u)
    \/ \E d \in Deleters : DeleteCluster(d) \/ LateDelete(d)
    \/ \E x \in Calls : Error(x)
    \/ Finished

Spec == Init /\ [][Next]_vars

\* The behaviours in which, on etcd, a deleted cluster is not created anew: the
\* version of its key, which starts over with every creation, then identifies a
\* write as Kubernetes' resourceVersion always does.
StableNext == Next /\ (Backend = "etcd" => births' <= 1)
StableSpec == Init /\ [][StableNext]_vars

-----------------------------------------------------------------------------
(* Properties *)

\* etcd.go: a transaction that finds "the object has been modified" is
\* retried. The write of an UpdateCluster call therefore takes effect only if
\* nothing was written to the cluster since the call read it, on custom resources
\* always, on etcd in a cluster that is not created anew.
ModifiedIsRetried ==
    [][\A u \in Updaters : u \in applied' \ applied => Exists /\ obj.rev = snap[u].rev]_vars

\* The store implements the promise of AtomicCluster.
Promise == INSTANCE AtomicCluster WITH
    exists <- Exists,
    caps <- obj.caps,
    labels <- obj.labels,
    returned <- [x \in Calls |-> IF pc[x] \in Returned THEN pc[x] ELSE "none"]

\* Every call is one atomic operation on the cluster of that moment, happens at
\* most once, and reports success only if it happened: a conflict, a retry or
\* a lost answer never shows.
ImplementsAtomicCluster == Promise!Spec
=============================================================================
