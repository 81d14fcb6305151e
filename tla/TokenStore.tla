----------------------------- MODULE TokenStore -----------------------------
(***************************************************************************)
(* The token stores (token_store.go of pkg/storage/etcd and                *)
(* pkg/storage/crds), for one token: CreateToken, DeleteToken and any      *)
(* number of concurrent UpdateToken calls against the etcd key, or the     *)
(* custom resource, that holds the token. Every request to etcd or to the  *)
(* API server is one step, so calls interleave between requests.           *)
(*                                                                         *)
(* In etcd the token lives on a lease and ends with it. A custom resource  *)
(* has no lease: once its TTL is over it is hidden from GetToken and       *)
(* ListTokens, and the first of them to notice starts a goroutine that     *)
(* deletes it. UpdateToken does not look at the age of what it updates.    *)
(*                                                                         *)
(* Token IDs are random (pkg/tokens), so a key is created at most once.    *)
(* Secret, labels and TTL are data no property tells apart.                *)
(***************************************************************************)
EXTENDS Naturals, FiniteSets

CONSTANTS Updaters,  \* concurrent calls of UpdateToken
          Deleters,  \* concurrent calls of DeleteToken
          Clusters,  \* cluster IDs a "join" capability may name
          Adds,      \* Adds[u]: the join capabilities the mutator of u adds
          Steps      \* attempts the retry backoff allows

ASSUME TokenStoreAssumption ==
    /\ IsFiniteSet(Updaters)
    /\ Adds \in [Updaters -> SUBSET Clusters]
    /\ Steps \in Nat \ {0}

VARIABLES
    backend,  \* the backend the gateway is configured with
    kv,       \* the token's key or object: version 0 means that it is absent
    lease,    \* "none", "live" or "gone": the lease (expired or revoked), or
              \* for a custom resource the time its TTL gives it
    gc,       \* garbageCollectToken goroutines are at work
    created,  \* CreateToken: "no", "granted", "yes" (the key was put) or "err"
    upc,      \* where each UpdateToken call is, or what it returned
    snap,     \* the token and version each UpdateToken call last read
    fails,    \* transactions of the call that found another version
    dpc,      \* where each DeleteToken call is, or what it returned
    dres,     \* the result a DeleteToken call returns after its deferred revoke
    lost,     \* transactions still on their way when their call timed out
    applied   \* history: UpdateToken calls whose transaction took effect

vars == <<backend, kv, lease, gc, created, upc, snap, fails, dpc, dres, lost, applied>>

NoKey == [version |-> 0, usage |-> 0, joins |-> {}, leased |-> FALSE]

Exists == kv.version > 0

Returned == {"ok", "notFound", "retryErr", "err"}

TypeOK ==
    /\ backend \in {"etcd", "crds"}
    /\ gc \in BOOLEAN
    /\ kv \in [version : Nat, usage : Nat, joins : SUBSET Clusters, leased : BOOLEAN]
    /\ lease \in {"none", "live", "gone"}
    /\ created \in {"no", "granted", "yes", "err"}
    /\ upc \in [Updaters -> {"get", "txn"} \cup Returned]
    /\ snap \in [Updaters -> [version : Nat, usage : Nat, joins : SUBSET Clusters]]
    /\ fails \in [Updaters -> Nat]
    /\ dpc \in [Deleters -> {"get", "delete", "revoke"} \cup Returned]
    /\ dres \in [Deleters -> {"none", "ok", "notFound", "err"}]
    /\ lost \in SUBSET Updaters
    /\ applied \in SUBSET Updaters

Init ==
    /\ backend \in {"etcd", "crds"}
    /\ gc = FALSE
    /\ kv = NoKey
    /\ lease = "none"
    /\ created = "no"
    /\ upc = [u \in Updaters |-> "get"]
    /\ snap = [u \in Updaters |-> [version |-> 0, usage |-> 0, joins |-> {}]]
    /\ fails = [u \in Updaters |-> 0]
    /\ dpc = [d \in Deleters |-> "get"]
    /\ dres = [d \in Deleters |-> "none"]
    /\ lost = {}
    /\ applied = {}

-----------------------------------------------------------------------------
(* CreateToken: a lease is granted, then the key is put under it. Each      *)
(* request may fail, and a failed Grant may have left a lease behind.       *)

CreateTokenGrant ==
    /\ backend = "etcd" /\ created = "no"
    /\ \/ created' = "granted" /\ lease' = "live"
       \/ created' = "err" /\ lease' \in {"none", "live"}
    /\ UNCHANGED <<backend, gc, kv, upc, snap, fails, dpc, dres, lost, applied>>

\* etcd refuses a put under a lease that has expired meanwhile. A put whose
\* answer is lost is a put: what CreateToken reports is not modelled.
CreateTokenPut ==
    /\ created = "granted"
    /\ \/ /\ lease = "live"
          /\ kv' = [version |-> 1, usage |-> 0, joins |-> {}, leased |-> TRUE]
          /\ created' = "yes"
       \/ created' = "err" /\ UNCHANGED kv
    /\ UNCHANGED <<backend, gc, lease, upc, snap, fails, dpc, dres, lost, applied>>

\* The custom resource is created in one request. Its age counts from the
\* creation timestamp the API server gives it.
CreateTokenObject ==
    /\ backend = "crds" /\ created = "no"
    /\ \/ /\ kv' = [version |-> 1, usage |-> 0, joins |-> {}, leased |-> FALSE]
          /\ lease' = "live"
          /\ created' = "yes"
       \/ created' = "err" /\ UNCHANGED <<kv, lease>>
    /\ UNCHANGED <<backend, gc, upc, snap, fails, dpc, dres, lost, applied>>

\* The end of a lease, by expiry or revocation, deletes the key attached to it.
EndLease ==
    /\ lease' = "gone"
    /\ kv' = IF kv.leased THEN NoKey ELSE kv

LeaseExpires ==
    /\ lease = "live"
    /\ EndLease
    /\ UNCHANGED <<backend, gc, created, upc, snap, fails, dpc, dres, lost, applied>>

\* patchTTL finds the TTL used up.
Expired == backend = "crds" /\ Exists /\ lease = "gone"

\* GetToken and ListTokens meet an expired custom resource: they leave it out
\* of their answer and start a goroutine that deletes it.
ReadExpired ==
    /\ Expired
    /\ gc' = TRUE
    /\ UNCHANGED <<backend, kv, lease, created, upc, snap, fails, dpc, dres, lost, applied>>

\* The goroutine deletes the object by name, or gives up after its attempts.
\* An attempt whose answer is lost may have deleted it.
GarbageCollectToken ==
    /\ gc
    /\ kv' \in {kv, NoKey}
    /\ gc' \in BOOLEAN
    /\ UNCHANGED <<backend, lease, created, upc, snap, fails, dpc, dres, lost, applied>>

-----------------------------------------------------------------------------
(* UpdateToken: read the token and its version, mutate the copy, and put it *)
(* back in a transaction that compares the version; start over when another *)
(* version is found, up to Steps times.                                     *)

IncrementUsageCount(t) == [t EXCEPT !.usage = @ + 1]

AddCapability(t, cs) == [t EXCEPT !.joins = @ \cup cs]

Mutated(u) == AddCapability(IncrementUsageCount(snap[u]), Adds[u])

UpdateReturns(u, r) == upc' = [upc EXCEPT ![u] = r]

UpdateTokenGet(u) ==
    /\ upc[u] = "get"
    /\ IF Exists
       THEN /\ snap' = [snap EXCEPT ![u] = [version |-> kv.version,
                                            usage |-> kv.usage,
                                            joins |-> kv.joins]]
            /\ UpdateReturns(u, "txn")
       ELSE /\ UpdateReturns(u, "notFound")
            /\ UNCHANGED snap
    /\ UNCHANGED <<backend, gc, kv, lease, created, fails, dpc, dres, lost, applied>>

\* Mutant: the transaction only checks that the key is there.
KeyExistsOnly(u) == Exists /\ u \in Updaters

VersionMatches(u) == kv.version = snap[u].version

\* Mutant: without WithIgnoreLease the put detaches the key from its lease.
PutDetached(u) ==
    /\ kv' = [version |-> kv.version + 1,
              usage |-> Mutated(u).usage,
              joins |-> Mutated(u).joins,
              leased |-> FALSE]
    /\ applied' = applied \cup {u}

\* The put of the transaction: WithIgnoreLease keeps the key on its lease.
PutUpdate(u) ==
    /\ kv' = [version |-> kv.version + 1,
              usage |-> Mutated(u).usage,
              joins |-> Mutated(u).joins,
              leased |-> kv.leased]
    /\ applied' = applied \cup {u}

\* The transaction did not find the version: retryErr, and the backoff
\* decides whether the function runs again.
Retry(u) ==
    /\ fails' = [fails EXCEPT ![u] = @ + 1]
    /\ UpdateReturns(u, IF fails[u] + 1 < Steps THEN "get" ELSE "retryErr")

\* The API server refuses an update of an object that is gone as a conflict
\* or as not found, and only a conflict is retried.
UpdateTokenTxn(u) ==
    /\ upc[u] = "txn"
    /\ \/ /\ VersionMatches(u)
          /\ PutUpdate(u)
          /\ UpdateReturns(u, "ok")
          /\ UNCHANGED fails
       \/ /\ ~VersionMatches(u)
          /\ Retry(u)
          /\ UNCHANGED <<kv, applied>>
       \/ /\ backend = "crds" /\ ~Exists
          /\ UpdateReturns(u, "notFound")
          /\ UNCHANGED <<kv, fails, applied>>
    /\ UNCHANGED <<backend, gc, lease, created, snap, dpc, dres, lost>>

\* A request of the call times out and its error is returned, not retried.
\* The transaction may be on its way to etcd all the same.
UpdateTokenErr(u) ==
    /\ upc[u] \in {"get", "txn"}
    /\ UpdateReturns(u, "err")
    /\ lost' \in {lost} \cup (IF upc[u] = "txn" THEN {lost \cup {u}} ELSE {})
    /\ UNCHANGED <<backend, gc, kv, lease, created, snap, fails, dpc, dres, applied>>

\* etcd executes a transaction nobody waits for any more.
LateTxn(u) ==
    /\ u \in lost
    /\ lost' = lost \ {u}
    /\ IF VersionMatches(u) THEN PutUpdate(u) ELSE UNCHANGED <<kv, applied>>
    /\ UNCHANGED <<backend, gc, lease, created, upc, snap, fails, dpc, dres>>

-----------------------------------------------------------------------------
(* DeleteToken: look the token up, delete the key, and revoke the lease in a *)
(* deferred call that runs whatever the deletion returned.                   *)

DeleteTokenGet(d) ==
    /\ backend = "etcd" /\ dpc[d] = "get"
    /\ \/ dpc' = [dpc EXCEPT ![d] = "err"]
       \/ dpc' = [dpc EXCEPT ![d] = IF Exists THEN "delete" ELSE "notFound"]
    /\ UNCHANGED <<backend, gc, kv, lease, created, upc, snap, fails, dres, lost, applied>>

DeleteTokenDelete(d) ==
    /\ dpc[d] = "delete"
    /\ dpc' = [dpc EXCEPT ![d] = "revoke"]
    /\ \/ /\ kv' = NoKey
          /\ dres' = [dres EXCEPT ![d] = IF Exists THEN "ok" ELSE "notFound"]
       \/ /\ kv' \in {kv, NoKey}
          /\ dres' = [dres EXCEPT ![d] = "err"]
    /\ UNCHANGED <<backend, gc, lease, created, upc, snap, fails, lost, applied>>

\* A revocation that fails is only logged.
DeleteTokenRevoke(d) ==
    /\ dpc[d] = "revoke"
    /\ dpc' = [dpc EXCEPT ![d] = dres[d]]
    /\ EndLease \/ UNCHANGED <<kv, lease>>
    /\ UNCHANGED <<backend, gc, created, upc, snap, fails, dres, lost, applied>>

DeleteReturns(d, r) ==
    /\ dres' = [dres EXCEPT ![d] = r]
    /\ dpc' = [dpc EXCEPT ![d] = r]

\* The custom resource is deleted in one request, expired or not.
DeleteTokenObject(d) ==
    /\ backend = "crds" /\ dpc[d] = "get"
    /\ \/ Exists /\ kv' = NoKey /\ DeleteReturns(d, "ok")
       \/ ~Exists /\ kv' = kv /\ DeleteReturns(d, "notFound")
       \/ kv' \in {kv, NoKey} /\ DeleteReturns(d, "err")
    /\ UNCHANGED <<backend, gc, lease, created, upc, snap, fails, lost, applied>>

-----------------------------------------------------------------------------
UpdateToken(u) == UpdateTokenGet(u) \/ UpdateTokenTxn(u) \/ UpdateTokenErr(u)

DeleteToken(d) ==
    \/ DeleteTokenGet(d) \/ DeleteTokenDelete(d) \/ DeleteTokenRevoke(d)
    \/ DeleteTokenObject(d)

\* Every call has returned and nothing is left of the token.
Finished ==
    /\ created \in {"yes", "err"}
    /\ lease # "live" /\ ~gc
    /\ lost = {}
    /\ \A u \in Updaters : upc[u] \in Returned
    /\ \A d \in Deleters : dpc[d] \in Returned
    /\ UNCHANGED vars

Next ==
    \/ CreateTokenGrant
    \/ CreateTokenPut
    \/ CreateTokenObject
    \/ LeaseExpires
    \/ ReadExpired
    \/ GarbageCollectToken
    \/ \E u \in Updaters : UpdateToken(u) \/ LateTxn(u)
    \/ \E d \in Deleters : DeleteToken(d)
    \/ Finished

Spec == Init /\ [][Next]_vars

-----------------------------------------------------------------------------
(* Properties *)

\* No update is lost and none is applied twice: as long as the key exists, its
\* usage count is the number of UpdateToken calls whose transaction took
\* effect, and it holds every join capability those calls added. This is what
\* the version comparison in UpdateToken is for.
NoLostUpdate ==
    Exists => /\ kv.usage = Cardinality(applied)
              /\ kv.joins = UNION {Adds[u] : u \in applied}

\* What UpdateToken reports is what happened: success only when its own
\* transaction took effect, "not found" and retryErr only when it did not and
\* never will; an error alone leaves it open.
ReportsAreTrue ==
    \A u \in Updaters :
        /\ upc[u] = "ok" => u \in applied
        /\ u \in applied => upc[u] \in {"ok", "err"}

\* UpdateToken gives up with retryErr only after losing Steps races: each lost
\* race is another call that took effect, or the end of the token.
GivesUpOnlyWhenContended ==
    \A u \in Updaters :
        upc[u] = "retryErr" =>
            Cardinality(applied)
                + (IF created = "yes" /\ ~Exists THEN 1 ELSE 0) >= Steps

\* A token has exactly the life it was given. In etcd it never outlives its
\* lease: UpdateToken keeps the key attached (WithIgnoreLease), so when the
\* lease has ended the key is gone. As a custom resource it is never collected
\* before its TTL is over, however often it was updated meanwhile.
TokenDiesWithLease ==
    /\ backend = "etcd" /\ Exists => kv.leased /\ lease = "live"
    /\ gc => backend = "crds" /\ lease = "gone"

\* DeleteToken reports success to at most one of its concurrent callers.
DeletedOnce ==
    \A d, e \in Deleters : dres[d] = "ok" /\ dres[e] = "ok" => d = e

\* A token that was deleted or has expired never comes back, whatever an
\* UpdateToken call that read it before is still about to write.
NoResurrection == [][created = "yes" /\ ~Exists => ~Exists']_vars

\* The store implements the promise of AtomicToken.
Promise == INSTANCE AtomicToken WITH
    phase <- IF Exists THEN "live" ELSE IF created = "yes" THEN "gone" ELSE "none",
    usage <- kv.usage,
    joins <- kv.joins,
    returned <- [u \in Updaters |-> IF upc[u] \in Returned THEN upc[u] ELSE "none"]

\* UpdateToken, for all its requests, retries and lost answers, is one atomic
\* read-modify-write that happens at most once, on a token that is created
\* once and disappears once.
ImplementsAtomicToken == Promise!Spec
=============================================================================
