---------------------------- MODULE AtomicCluster ----------------------------
(***************************************************************************)
(* What storage.ClusterStore promises of one cluster                       *)
(* (pkg/storage/stores.go), with no mention of versions, transactions or   *)
(* retries: CreateCluster and DeleteCluster take effect atomically, and an *)
(* UpdateCluster call applies its mutator atomically, at most once, to the *)
(* cluster as it is at that moment.                                        *)
(***************************************************************************)
CONSTANTS Creators, Updaters, Deleters,  \* calls of the three operations
          CapOf,    \* CapOf[x]: the capability a creator gives or an updater adds
          Editors   \* the updaters that replace the labels instead (EditCluster)

VARIABLES exists, caps, labels,  \* the cluster
          applied,               \* calls that took effect
          returned               \* returned[x]: what the call reported, or "none"

vars == <<exists, caps, labels, applied, returned>>

Calls == Creators \cup Updaters \cup Deleters

Init ==
    /\ exists = FALSE
    /\ caps = {}
    /\ labels = "none"
    /\ applied = {}
    /\ returned = [x \in Calls |-> "none"]

\* The call takes effect and reports success, or has reported an error before.
TakesEffect(x) ==
    /\ x \notin applied
    /\ applied' = applied \cup {x}
    /\ \/ returned[x] = "none" /\ returned' = [returned EXCEPT ![x] = "ok"]
       \/ returned[x] = "err" /\ UNCHANGED returned

Create(x) ==
    /\ exists' = TRUE
    /\ caps' = {CapOf[x]}
    /\ labels' = x
    /\ TakesEffect(x)

Update(x) ==
    /\ exists
    /\ caps' = IF x \in Editors THEN caps ELSE caps \cup {CapOf[x]}
    /\ labels' = IF x \in Editors THEN x ELSE labels
    /\ TakesEffect(x)
    /\ UNCHANGED exists

Delete(x) ==
    /\ exists
    /\ exists' = FALSE
    /\ caps' = {}
    /\ labels' = "none"
    /\ TakesEffect(x)

\* A call that has had no effect reports it, "not found" and "exists" only
\* when that is so.
Refuse(x, r) ==
    /\ x \notin applied
    /\ returned[x] = "none"
    /\ r = "notFound" => ~exists
    /\ r = "exists" => exists
    /\ returned' = [returned EXCEPT ![x] = r]
    /\ UNCHANGED <<exists, caps, labels, applied>>

Next ==
    \/ \E x \in Creators : Create(x)
    \/ \E x \in Updaters : Update(x)
    \/ \E x \in Deleters : Delete(x)
    \/ \E x \in Calls, r \in {"notFound", "exists", "retryErr", "err"} : Refuse(x, r)

Spec == Init /\ [][Next]_vars
=============================================================================
