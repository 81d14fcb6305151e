----------------------------- MODULE AtomicToken -----------------------------
(***************************************************************************)
(* What storage.TokenStore promises of one bootstrap token                 *)
(* (pkg/storage/stores.go), with no mention of versions, transactions,     *)
(* leases or retries: the token is created once, every UpdateToken call    *)
(* applies its mutator atomically and at most once, and a token that is    *)
(* gone (deleted or expired) never comes back.                             *)
(***************************************************************************)
EXTENDS Naturals

CONSTANTS Updaters,  \* calls of UpdateToken
          Clusters,  \* cluster IDs a "join" capability may name
          Adds       \* Adds[u]: the join capabilities the mutator of u adds

VARIABLES phase,     \* "none", "live" or "gone"
          usage,     \* usageCount of the live token
          joins,     \* clusters the live token may join
          applied,   \* calls whose mutator took effect
          returned   \* returned[u]: what the call reported

vars == <<phase, usage, joins, applied, returned>>

Results == {"notFound", "retryErr", "err"}

Init ==
    /\ phase = "none"
    /\ usage = 0
    /\ joins = {}
    /\ applied = {}
    /\ returned = [u \in Updaters |-> "none"]

Create ==
    /\ phase = "none"
    /\ phase' = "live"
    /\ UNCHANGED <<usage, joins, applied, returned>>

\* The token leaves the store; its contents go with it.
Vanish ==
    /\ phase = "live"
    /\ phase' = "gone"
    /\ usage' = 0
    /\ joins' = {}
    /\ UNCHANGED <<applied, returned>>

\* The mutator of u takes effect on the contents of that moment.
TakeEffect(u) ==
    /\ phase = "live"
    /\ u \notin applied
    /\ usage' = usage + 1
    /\ joins' = joins \cup Adds[u]
    /\ applied' = applied \cup {u}
    /\ UNCHANGED phase

Apply(u) ==
    /\ returned[u] = "none"
    /\ TakeEffect(u)
    /\ returned' = [returned EXCEPT ![u] = "ok"]

\* A call that reported an error may still take effect afterwards.
ApplyLate(u) ==
    /\ returned[u] = "err"
    /\ TakeEffect(u)
    /\ UNCHANGED returned

\* A call that took no effect reports it: "ok" is impossible here.
Refuse(u, r) ==
    /\ u \notin applied
    /\ returned[u] = "none"
    /\ r = "notFound" => phase # "live"
    /\ returned' = [returned EXCEPT ![u] = r]
    /\ UNCHANGED <<phase, usage, joins, applied>>

Next ==
    \/ Create
    \/ Vanish
    \/ \E u \in Updaters : Apply(u) \/ ApplyLate(u)
    \/ \E u \in Updaters, r \in Results : Refuse(u, r)

Spec == Init /\ [][Next]_vars
=============================================================================
