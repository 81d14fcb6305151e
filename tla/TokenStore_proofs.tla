-------------------------- MODULE TokenStore_proofs --------------------------
(***************************************************************************)
(* Proofs about TokenStore for any finite set of calls and any number of   *)
(* retries. The inductive invariant ties what a call has read (snap) to    *)
(* what the key may have become since: versions only grow while the key    *)
(* exists, and a key that is gone stays gone.                              *)
(***************************************************************************)
EXTENDS TokenStore, FiniteSetTheorems, TLAPS

\* A call whose transaction may still be executed.
Pending(u) == upc[u] = "txn" \/ u \in lost

\* The token disappeared after it was created.
Gone == created = "yes" /\ ~Exists

KeyInv ==
    /\ ~Exists => kv = NoKey
    /\ created # "yes" => ~Exists /\ applied = {} /\ ~gc
    /\ Exists => kv.version = Cardinality(applied) + 1

SnapInv ==
    \A u \in Updaters : Pending(u) =>
        /\ created = "yes"
        /\ snap[u].version \in 1 .. Cardinality(applied) + 1
        /\ VersionMatches(u) => /\ kv.usage = snap[u].usage
                                /\ kv.joins = snap[u].joins

AppliedInv ==
    /\ ReportsAreTrue
    /\ \A u \in lost : upc[u] = "err" /\ u \notin applied

\* Each lost race of a call is paid for by a transaction that took effect, or
\* by the end of the token.
FailsInv ==
    \A u \in Updaters :
        /\ upc[u] = "txn" => fails[u] < snap[u].version
        /\ upc[u] = "get" =>
              fails[u] <= Cardinality(applied) + (IF Gone THEN 1 ELSE 0)

\* A deferred revoke runs with the result of the deletion in hand.
RevokeInv == \A d \in Deleters : dpc[d] = "revoke" => dres[d] # "none"

IInv ==
    /\ TypeOK
    /\ RevokeInv
    /\ KeyInv
    /\ SnapInv
    /\ AppliedInv
    /\ NoLostUpdate
    /\ TokenDiesWithLease
    /\ FailsInv
    /\ GivesUpOnlyWhenContended

-----------------------------------------------------------------------------
\* The absent key and a key just created are keys.
LEMMA KeyTypes ==
    ASSUME NEW b \in BOOLEAN, NEW n \in Nat
    PROVE  [version |-> n, usage |-> 0, joins |-> {}, leased |-> b]
              \in [version : Nat, usage : Nat, joins : SUBSET Clusters, leased : BOOLEAN]
  <1>1. {} \in SUBSET Clusters /\ 0 \in Nat
    OBVIOUS
  <1>2. QED
    BY <1>1, Zenon

\* The number of calls that took effect is a natural number, and one more call
\* that had not taken effect before makes it one more.
LEMMA AppliedCount ==
    ASSUME TypeOK
    PROVE  /\ Cardinality(applied) \in Nat
           /\ \A u \in Updaters : u \notin applied =>
                 Cardinality(applied \cup {u}) = Cardinality(applied) + 1
  <1>1. IsFiniteSet(applied)
    BY FS_Subset, TokenStoreAssumption DEF TypeOK
  <1>2. QED
    BY <1>1, FS_CardinalityType, FS_AddElement

\* The join capabilities of one more call are added to those of the others.
LEMMA AppliedJoins ==
    ASSUME NEW S, NEW u
    PROVE  UNION {Adds[v] : v \in S \cup {u}} = (UNION {Adds[v] : v \in S}) \cup Adds[u]
  OBVIOUS

\* The state the store starts from satisfies the invariant.
LEMMA InitIInv == Init => IInv
  <1> SUFFICES ASSUME Init PROVE IInv
    OBVIOUS
  <1> USE DEF Init
  <1>1. TypeOK
    BY TokenStoreAssumption DEF TypeOK, NoKey, Returned
  <1>2. KeyInv /\ NoLostUpdate /\ TokenDiesWithLease
    BY DEF KeyInv, NoLostUpdate, TokenDiesWithLease, Exists, NoKey
  <1>3. SnapInv /\ AppliedInv /\ GivesUpOnlyWhenContended
    BY DEF SnapInv, AppliedInv, GivesUpOnlyWhenContended, ReportsAreTrue, Pending
  <1>4. FailsInv /\ RevokeInv
    BY FS_EmptySet DEF FailsInv, Gone, Exists, RevokeInv
  <1>5. QED
    BY <1>1, <1>2, <1>3, <1>4 DEF IInv

-----------------------------------------------------------------------------
\* What the put of a transaction does to the parts of the invariant about the
\* key: it adds one call to those that took effect, and because the version
\* matched, to the contents of that moment.
LEMMA PutStep ==
    ASSUME IInv, NEW u \in Updaters, Pending(u), u \notin applied,
           VersionMatches(u), PutUpdate(u), UNCHANGED <<backend, gc, lease, created>>
    PROVE  /\ Exists /\ Exists' /\ created = "yes"
           /\ kv' \in [version : Nat, usage : Nat, joins : SUBSET Clusters, leased : BOOLEAN]
           /\ kv'.version = kv.version + 1
           /\ Cardinality(applied') = Cardinality(applied) + 1
           /\ KeyInv' /\ NoLostUpdate' /\ TokenDiesWithLease'
           /\ Gone' <=> Gone
  <1>1. Cardinality(applied) \in Nat /\ Cardinality(applied') = Cardinality(applied) + 1
    BY AppliedCount DEF IInv, PutUpdate
  <1>2. /\ created = "yes"
        /\ snap[u].version \in Nat \ {0}
        /\ kv.usage = snap[u].usage
        /\ kv.joins = snap[u].joins
    BY <1>1 DEF IInv, SnapInv
  <1>3. snap[u] \in [version : Nat, usage : Nat, joins : SUBSET Clusters]
    BY DEF IInv, TypeOK
  <1>4. /\ Mutated(u).usage = kv.usage + 1
        /\ Mutated(u).joins = kv.joins \cup Adds[u]
    BY <1>2, <1>3 DEF Mutated, AddCapability, IncrementUsageCount
  <1>5. kv \in [version : Nat, usage : Nat, joins : SUBSET Clusters, leased : BOOLEAN]
    BY DEF IInv, TypeOK
  <1>6. /\ kv' = [version |-> kv.version + 1, usage |-> kv.usage + 1,
                  joins |-> kv.joins \cup Adds[u], leased |-> kv.leased]
        /\ applied' = applied \cup {u}
    BY <1>4 DEF PutUpdate
  <1>7. Exists
    BY <1>2, <1>5 DEF Exists, VersionMatches
  <1>8. kv' \in [version : Nat, usage : Nat, joins : SUBSET Clusters, leased : BOOLEAN]
    BY <1>5, <1>6, TokenStoreAssumption
  <1>9. Exists' /\ kv'.version = kv.version + 1
    BY <1>5, <1>6 DEF Exists
  <1>10. KeyInv'
    BY <1>1, <1>2, <1>5, <1>7, <1>9 DEF KeyInv, IInv
  <1>11. NoLostUpdate'
    <2>1. kv'.usage = Cardinality(applied')
      BY <1>1, <1>6, <1>7 DEF NoLostUpdate, IInv
    <2>2. kv'.joins = UNION {Adds[v] : v \in applied'}
      BY <1>6, <1>7, AppliedJoins DEF NoLostUpdate, IInv
    <2>3. QED
      BY <2>1, <2>2 DEF NoLostUpdate
  <1>12. TokenDiesWithLease'
    BY <1>6, <1>7 DEF TokenDiesWithLease, IInv
  <1>13. Gone' <=> Gone
    BY <1>7, <1>9 DEF Gone
  <1>14. QED
    BY <1>1, <1>2, <1>7, <1>8, <1>9, <1>10, <1>11, <1>12, <1>13

\* When the key disappears or stays as it is, and nothing else the invariant
\* mentions changes, the invariant is preserved.
LEMMA VanishStep ==
    ASSUME IInv, kv' \in {kv, NoKey}, lease' \in {"none", "live", "gone"},
           TokenDiesWithLease',
           UNCHANGED <<backend, created, upc, snap, fails, lost, applied>>,
           gc' \in BOOLEAN, gc' => created = "yes",
           dpc' \in [Deleters -> {"get", "delete", "revoke"} \cup Returned],
           dres' \in [Deleters -> {"none", "ok", "notFound", "err"}],
           RevokeInv'
    PROVE  IInv'
  <1>1. TypeOK'
    <2>1. kv' \in [version : Nat, usage : Nat, joins : SUBSET Clusters, leased : BOOLEAN]
      BY KeyTypes DEF IInv, TypeOK, NoKey
    <2>2. QED
      BY <2>1 DEF IInv, TypeOK, Returned
  <1>2. Cardinality(applied) \in Nat
    BY AppliedCount DEF IInv
  <1>3. KeyInv' /\ NoLostUpdate'
    BY DEF IInv, KeyInv, NoLostUpdate, Exists, NoKey
  <1>4. SnapInv'
    BY <1>2 DEF IInv, SnapInv, Pending, VersionMatches, NoKey
  <1>5. AppliedInv'
    BY DEF IInv, AppliedInv, ReportsAreTrue
  <1>6. Gone => Gone'
    BY DEF IInv, Gone, Exists, NoKey
  <1>7. FailsInv' /\ GivesUpOnlyWhenContended'
    <2>1. Cardinality(applied) + (IF Gone THEN 1 ELSE 0)
              <= Cardinality(applied') + (IF Gone' THEN 1 ELSE 0)
      BY <1>2, <1>6
    <2>2. fails \in [Updaters -> Nat] /\ Steps \in Nat
      BY TokenStoreAssumption DEF IInv, TypeOK
    <2>3. FailsInv'
      BY <1>2, <2>1, <2>2 DEF IInv, FailsInv
    <2>4. GivesUpOnlyWhenContended'
      BY <1>2, <2>1, <2>2 DEF IInv, GivesUpOnlyWhenContended, Gone
    <2>5. QED
      BY <2>3, <2>4
  <1>8. QED
    BY <1>1, <1>3, <1>4, <1>5, <1>7 DEF IInv

\* A request of CreateToken preserves the invariant.
LEMMA CreateStep ==
    IInv /\ (CreateTokenGrant \/ CreateTokenPut \/ CreateTokenObject) => IInv'
  <1> SUFFICES ASSUME IInv, CreateTokenGrant \/ CreateTokenPut \/ CreateTokenObject
               PROVE  IInv'
    OBVIOUS
  <1>1. /\ created \in {"no", "granted"}
        /\ ~Exists /\ ~Gone /\ applied = {} /\ ~gc
        /\ kv = NoKey
        /\ UNCHANGED <<backend, gc, upc, snap, fails, dpc, dres, lost, applied>>
    BY DEF CreateTokenGrant, CreateTokenPut, CreateTokenObject, IInv, KeyInv, Gone
  <1>2. Cardinality(applied) = 0
    BY <1>1, FS_EmptySet
  <1>3. \/ kv' = kv /\ created' # "yes" /\ ~Exists'
        \/ /\ \/ kv' = [version |-> 1, usage |-> 0, joins |-> {}, leased |-> TRUE]
              \/ /\ kv' = [version |-> 1, usage |-> 0, joins |-> {}, leased |-> FALSE]
                 /\ backend = "crds"
           /\ lease' = "live" /\ created' = "yes" /\ Exists'
    <2>1. CASE CreateTokenGrant
      BY <1>1, <2>1 DEF CreateTokenGrant, Exists
    <2>2. CASE CreateTokenPut
      BY <1>1, <2>2 DEF CreateTokenPut, Exists
    <2>3. CASE CreateTokenObject
      BY <1>1, <2>3 DEF CreateTokenObject, Exists
    <2>4. QED
      BY <2>1, <2>2, <2>3
  <1>4. ~Gone'
    BY <1>3 DEF Gone
  <1>5. TypeOK' /\ RevokeInv'
    <2>1. kv' \in [version : Nat, usage : Nat, joins : SUBSET Clusters, leased : BOOLEAN]
      BY <1>1, <1>3, KeyTypes DEF NoKey
    <2>2. /\ lease' \in {"none", "live", "gone"}
          /\ created' \in {"no", "granted", "yes", "err"}
      BY DEF IInv, TypeOK, CreateTokenGrant, CreateTokenPut, CreateTokenObject
    <2>3. QED
      BY <1>1, <2>1, <2>2 DEF IInv, TypeOK, RevokeInv, Returned
  <1>6. KeyInv' /\ NoLostUpdate' /\ TokenDiesWithLease'
    <2>1. KeyInv' /\ NoLostUpdate'
      BY <1>1, <1>2, <1>3 DEF KeyInv, NoLostUpdate, Exists, NoKey
    <2>2. ~gc'
      BY <1>1
    <2>3. QED
      BY <1>1, <1>3, <2>1, <2>2 DEF TokenDiesWithLease
  <1>7. \A u \in Updaters : ~Pending(u)
    BY <1>1 DEF IInv, SnapInv
  <1>8. SnapInv'
    BY <1>1, <1>7 DEF SnapInv, Pending
  <1>9. AppliedInv'
    BY <1>1 DEF IInv, AppliedInv, ReportsAreTrue
  <1>10. FailsInv'
    BY <1>1, <1>4 DEF IInv, FailsInv
  <1>11. GivesUpOnlyWhenContended'
    BY <1>1, <1>2, TokenStoreAssumption DEF IInv, GivesUpOnlyWhenContended
  <1>12. QED
    BY <1>5, <1>6, <1>8, <1>9, <1>10, <1>11 DEF IInv

\* The token's time ends, or an expired token is noticed or collected.
Ends == LeaseExpires \/ ReadExpired \/ GarbageCollectToken

\* A request of DeleteToken, or the end of the token's time, preserves the invariant.
LEMMA DeleteStep ==
    ASSUME IInv, Ends \/ \E d \in Deleters : DeleteToken(d)
    PROVE  IInv'
  <1>1. dpc \in [Deleters -> {"get", "delete", "revoke"} \cup Returned]
    BY DEF IInv, TypeOK
  <1>0. \A e \in Deleters : dpc[e] = "revoke" => dres[e] # "none"
    BY DEF IInv, RevokeInv
  <1>2. dres \in [Deleters -> {"none", "ok", "notFound", "err"}]
    BY DEF IInv, TypeOK
  <1>3. CASE Ends
    <2>1. TokenDiesWithLease' /\ RevokeInv'
      BY <1>0, <1>3 DEF RevokeInv, IInv, TypeOK, Ends, LeaseExpires, EndLease, ReadExpired, Expired,
         GarbageCollectToken, TokenDiesWithLease, Exists, NoKey
    <2>2. /\ kv' \in {kv, NoKey} /\ lease' \in {"none", "live", "gone"}
          /\ UNCHANGED <<backend, created, upc, snap, fails, dpc, dres, lost, applied>>
      BY <1>3 DEF Ends, LeaseExpires, EndLease, ReadExpired, GarbageCollectToken, IInv, TypeOK
    <2>3. gc' \in BOOLEAN
      BY <1>3, Zenon DEF Ends, LeaseExpires, ReadExpired, GarbageCollectToken, IInv, TypeOK
    <2>4. gc' => created = "yes"
      BY <1>3 DEF Ends, LeaseExpires, ReadExpired, Expired, GarbageCollectToken, IInv, KeyInv
    <2>5. QED
      BY <1>1, <1>2, <2>1, <2>2, <2>3, <2>4, VanishStep
  <1>4. ASSUME NEW d \in Deleters, DeleteTokenGet(d) PROVE IInv'
    <2>1. /\ dpc' \in [Deleters -> {"get", "delete", "revoke"} \cup Returned]
          /\ RevokeInv'
      BY <1>0, <1>1, <1>4 DEF RevokeInv, DeleteTokenGet, Returned
    <2>2. TokenDiesWithLease' /\ lease' \in {"none", "live", "gone"}
      BY <1>4 DEF IInv, DeleteTokenGet, TokenDiesWithLease, Exists, TypeOK
    <2>3. QED
      BY <1>2, <1>4, <2>1, <2>2, VanishStep DEF DeleteTokenGet, IInv, TypeOK, KeyInv
  <1>5. ASSUME NEW d \in Deleters, DeleteTokenDelete(d) PROVE IInv'
    <2>1. dpc' \in [Deleters -> {"get", "delete", "revoke"} \cup Returned]
      BY <1>1, <1>5 DEF DeleteTokenDelete
    <2>2. /\ dres' \in [Deleters -> {"none", "ok", "notFound", "err"}]
          /\ RevokeInv'
      BY <1>0, <1>1, <1>2, <1>5 DEF DeleteTokenDelete, RevokeInv
    <2>3. TokenDiesWithLease' /\ lease' \in {"none", "live", "gone"}
      BY <1>5 DEF IInv, DeleteTokenDelete, TokenDiesWithLease, Exists, NoKey, TypeOK
    <2>4. QED
      BY <1>5, <2>1, <2>2, <2>3, VanishStep DEF DeleteTokenDelete, IInv, TypeOK, KeyInv
  <1>6. ASSUME NEW d \in Deleters, DeleteTokenRevoke(d) PROVE IInv'
    <2>1. /\ dpc' \in [Deleters -> {"get", "delete", "revoke"} \cup Returned]
          /\ RevokeInv'
      BY <1>0, <1>1, <1>2, <1>6 DEF RevokeInv, DeleteTokenRevoke, Returned
    <2>2. TokenDiesWithLease' /\ lease' \in {"none", "live", "gone"}
      BY <1>6 DEF IInv, DeleteTokenRevoke, EndLease, TokenDiesWithLease, Exists, NoKey, TypeOK
    <2>3. QED
      BY <1>2, <1>6, <2>1, <2>2, VanishStep DEF DeleteTokenRevoke, EndLease, IInv, TypeOK, KeyInv
  <1>7. ASSUME NEW d \in Deleters, DeleteTokenObject(d) PROVE IInv'
    <2>1. /\ kv' \in {kv, NoKey}
          /\ \E r \in {"ok", "notFound", "err"} : DeleteReturns(d, r)
      BY <1>7 DEF DeleteTokenObject
    <2>2. /\ dpc' \in [Deleters -> {"get", "delete", "revoke"} \cup Returned]
          /\ dres' \in [Deleters -> {"none", "ok", "notFound", "err"}]
          /\ RevokeInv'
      BY <1>0, <1>1, <1>2, <2>1 DEF DeleteReturns, RevokeInv, Returned
    <2>3. TokenDiesWithLease' /\ lease' \in {"none", "live", "gone"}
      BY <1>7, <2>1 DEF IInv, DeleteTokenObject, TokenDiesWithLease, Exists, NoKey, TypeOK
    <2>4. QED
      BY <1>7, <2>1, <2>2, <2>3, VanishStep DEF DeleteTokenObject, IInv, TypeOK, KeyInv
  <1>8. QED
    BY <1>3, <1>4, <1>5, <1>6, <1>7 DEF DeleteToken

\* The read of UpdateToken preserves the invariant.
LEMMA GetStep ==
    ASSUME IInv, NEW u \in Updaters, UpdateTokenGet(u)
    PROVE  IInv'
  <1> DEFINE Read == [version |-> kv.version, usage |-> kv.usage, joins |-> kv.joins]
  <1>1. /\ upc[u] = "get" /\ u \notin lost /\ u \notin applied
        /\ UNCHANGED <<backend, gc, kv, lease, created, fails, dpc, dres, lost, applied>>
    BY DEF UpdateTokenGet, IInv, AppliedInv, ReportsAreTrue
  <1>2. \/ /\ Exists
           /\ snap' = [snap EXCEPT ![u] = Read]
           /\ upc' = [upc EXCEPT ![u] = "txn"]
        \/ snap' = snap /\ upc' = [upc EXCEPT ![u] = "notFound"]
    BY DEF UpdateTokenGet, UpdateReturns
  <1>3. Cardinality(applied) \in Nat
    BY AppliedCount DEF IInv
  <1>4. Read \in [version : Nat, usage : Nat, joins : SUBSET Clusters]
    BY DEF IInv, TypeOK
  <1>5. TypeOK' /\ RevokeInv'
    <2>1. snap' \in [Updaters -> [version : Nat, usage : Nat, joins : SUBSET Clusters]]
      <3> HIDE DEF Read
      <3>1. QED
        BY <1>2, <1>4 DEF IInv, TypeOK
    <2>2. upc' \in [Updaters -> {"get", "txn"} \cup Returned]
      BY <1>2 DEF IInv, TypeOK, Returned
    <2>3. QED
      BY <1>1, <2>1, <2>2 DEF IInv, TypeOK, RevokeInv, Returned
  <1>6. KeyInv' /\ NoLostUpdate' /\ TokenDiesWithLease'
    BY <1>1 DEF IInv, KeyInv, NoLostUpdate, TokenDiesWithLease, Exists
  <1>7. Exists => created = "yes" /\ kv.version = Cardinality(applied) + 1
    BY DEF IInv, KeyInv
  <1>8. SnapInv'
    <2> SUFFICES ASSUME NEW v \in Updaters, Pending(v)'
                 PROVE  /\ created' = "yes"
                        /\ snap'[v].version \in 1 .. Cardinality(applied') + 1
                        /\ VersionMatches(v)' => /\ kv'.usage = snap'[v].usage
                                                 /\ kv'.joins = snap'[v].joins
      BY DEF SnapInv
    <2>1. CASE v = u
      BY <1>1, <1>2, <1>3, <1>7, <2>1 DEF Pending, IInv, TypeOK
    <2>2. CASE v # u
      <3>1. Pending(v) /\ snap'[v] = snap[v]
        BY <1>1, <1>2, <2>2 DEF Pending, IInv, TypeOK
      <3>2. QED
        BY <1>1, <3>1 DEF IInv, SnapInv, VersionMatches
    <2>3. QED
      BY <2>1, <2>2
  <1>9. AppliedInv'
    <2>1. \A v \in Updaters : upc'[v] = upc[v] \/ (v = u /\ upc'[v] \in {"txn", "notFound"})
      BY <1>2 DEF IInv, TypeOK
    <2>2. lost \subseteq Updaters
      BY DEF IInv, TypeOK
    <2>3. QED
      BY <1>1, <2>1, <2>2 DEF IInv, AppliedInv, ReportsAreTrue
  <1>10. FailsInv'
    BY <1>1, <1>2, <1>3, <1>7 DEF IInv, FailsInv, TypeOK, Gone, Exists
  <1>11. GivesUpOnlyWhenContended'
    BY <1>1, <1>2 DEF IInv, GivesUpOnlyWhenContended, TypeOK, Exists
  <1>12. QED
    BY <1>5, <1>6, <1>8, <1>9, <1>10, <1>11 DEF IInv

\* A transaction that takes effect, waited for or not, preserves the invariant.
LEMMA CommitStep ==
    ASSUME IInv, NEW u \in Updaters, Pending(u), VersionMatches(u), PutUpdate(u),
           upc' = [upc EXCEPT ![u] = IF upc[u] = "txn" THEN "ok" ELSE "err"],
           lost' = lost \ {u},
           UNCHANGED <<backend, gc, lease, created, snap, fails, dpc, dres>>
    PROVE  IInv'
  <1>1. u \notin applied /\ upc[u] \in {"txn", "err"}
    BY DEF IInv, AppliedInv, ReportsAreTrue, Pending
  <1>2. /\ Exists /\ Exists' /\ created = "yes"
        /\ kv' \in [version : Nat, usage : Nat, joins : SUBSET Clusters, leased : BOOLEAN]
        /\ kv'.version = kv.version + 1
        /\ Cardinality(applied') = Cardinality(applied) + 1
        /\ KeyInv' /\ NoLostUpdate' /\ TokenDiesWithLease'
        /\ Gone' <=> Gone
    BY <1>1, PutStep
  <1>3. Cardinality(applied) \in Nat /\ applied' = applied \cup {u}
    BY AppliedCount DEF IInv, PutUpdate
  <1>4. TypeOK' /\ RevokeInv'
    BY <1>2, <1>3 DEF IInv, TypeOK, RevokeInv, Returned
  <1>5. SnapInv'
    <2> SUFFICES ASSUME NEW v \in Updaters, Pending(v)'
                 PROVE  /\ created' = "yes"
                        /\ snap'[v].version \in 1 .. Cardinality(applied') + 1
                        /\ ~VersionMatches(v)'
      BY DEF SnapInv
    <2>1. Pending(v)
      BY DEF Pending, IInv, TypeOK
    <2>2. snap[v].version \in 1 .. Cardinality(applied) + 1
      BY <2>1 DEF IInv, SnapInv
    <2>3. kv.version = Cardinality(applied) + 1
      BY <1>2 DEF IInv, KeyInv
    <2>4. QED
      BY <1>2, <1>3, <2>2, <2>3 DEF VersionMatches
  <1>6. AppliedInv'
    BY <1>1, <1>3 DEF IInv, AppliedInv, ReportsAreTrue, TypeOK
  <1>7. FailsInv'
    BY <1>2, <1>3 DEF IInv, FailsInv, TypeOK
  <1>8. GivesUpOnlyWhenContended'
    BY <1>2, <1>3, TokenStoreAssumption DEF IInv, GivesUpOnlyWhenContended, TypeOK
  <1>9. QED
    BY <1>2, <1>4, <1>5, <1>6, <1>7, <1>8 DEF IInv

\* A transaction that finds another version preserves the invariant, whether
\* the call starts over or gives up.
LEMMA RetryStep ==
    ASSUME IInv, NEW u \in Updaters, upc[u] = "txn", ~VersionMatches(u), Retry(u),
           UNCHANGED <<backend, gc, kv, lease, created, snap, dpc, dres, lost, applied>>
    PROVE  IInv'
  <1>1. /\ u \notin lost /\ u \notin applied
        /\ created = "yes"
        /\ snap[u].version \in 1 .. Cardinality(applied) + 1
        /\ fails[u] < snap[u].version
    BY DEF IInv, AppliedInv, ReportsAreTrue, SnapInv, FailsInv, Pending
  <1>2. /\ fails' = [fails EXCEPT ![u] = fails[u] + 1]
        /\ \/ upc' = [upc EXCEPT ![u] = "get"]
           \/ fails[u] + 1 >= Steps /\ upc' = [upc EXCEPT ![u] = "retryErr"]
    <2>1. fails[u] \in Nat /\ Steps \in Nat
      BY TokenStoreAssumption DEF IInv, TypeOK
    <2>2. CASE fails[u] + 1 < Steps
      BY <2>2 DEF Retry, UpdateReturns
    <2>3. CASE fails[u] + 1 >= Steps
      <3>1. ~(fails[u] + 1 < Steps)
        BY <2>1, <2>3
      <3>2. QED
        BY <2>3, <3>1 DEF Retry, UpdateReturns
    <2>4. QED
      BY <2>1, <2>2, <2>3
  <1>3. Cardinality(applied) \in Nat /\ fails[u] \in Nat /\ Steps \in Nat
    BY AppliedCount, TokenStoreAssumption DEF IInv, TypeOK
  <1>4. (Gone' <=> Gone) /\ (Exists' <=> Exists)
    BY DEF Gone, Exists
  <1>5. fails[u] + 1 <= Cardinality(applied) + (IF Gone THEN 1 ELSE 0)
    <2>1. CASE Exists
      <3>1. kv.version = Cardinality(applied) + 1
        BY <2>1 DEF IInv, KeyInv
      <3>2. QED
        BY <1>1, <1>3, <2>1, <3>1 DEF VersionMatches, Gone
    <2>2. CASE ~Exists
      BY <1>1, <1>3, <2>2 DEF Gone
    <2>3. QED
      BY <2>1, <2>2
  <1>6. TypeOK' /\ RevokeInv'
    BY <1>2, <1>3 DEF IInv, TypeOK, RevokeInv, Returned
  <1>7. KeyInv' /\ NoLostUpdate' /\ TokenDiesWithLease'
    BY DEF IInv, KeyInv, NoLostUpdate, TokenDiesWithLease, Exists
  <1>8. SnapInv'
    BY <1>2 DEF IInv, SnapInv, Pending, VersionMatches, TypeOK
  <1>9. AppliedInv'
    BY <1>1, <1>2 DEF IInv, AppliedInv, ReportsAreTrue, TypeOK
  <1>10. FailsInv'
    BY <1>2, <1>4, <1>5 DEF IInv, FailsInv, TypeOK
  <1>11. GivesUpOnlyWhenContended'
    <2>1. \A v \in Updaters : upc'[v] = "retryErr" =>
             upc[v] = "retryErr" \/ (v = u /\ fails[u] + 1 >= Steps)
      BY <1>2 DEF IInv, TypeOK
    <2>2. QED
      BY <1>3, <1>4, <1>5, <2>1 DEF IInv, GivesUpOnlyWhenContended, Gone
  <1>12. QED
    BY <1>6, <1>7, <1>8, <1>9, <1>10, <1>11 DEF IInv

\* A call that times out or finds its object gone, and a transaction executed too late for its version,
\* preserve the invariant.
LEMMA LostStep ==
    ASSUME IInv, NEW u \in Updaters,
           \/ UpdateTokenErr(u)
           \/ /\ upc[u] = "txn" /\ upc' = [upc EXCEPT ![u] = "notFound"]
              /\ UNCHANGED <<backend, gc, kv, lease, created, snap, fails, dpc, dres, lost, applied>>
           \/ /\ u \in lost /\ lost' = lost \ {u}
              /\ UNCHANGED <<backend, gc, kv, lease, created, upc, snap, fails, dpc, dres, applied>>
    PROVE  IInv'
  <1>1. UNCHANGED <<backend, gc, kv, lease, created, snap, fails, dpc, dres, applied>>
    BY DEF UpdateTokenErr
  <1>2. \/ upc' = upc /\ lost' \subseteq lost
        \/ /\ upc[u] \in {"get", "txn"} /\ u \notin applied
           /\ \/ /\ upc' = [upc EXCEPT ![u] = "err"]
                 /\ lost' = lost \/ (upc[u] = "txn" /\ lost' = lost \cup {u})
              \/ upc' = [upc EXCEPT ![u] = "notFound"] /\ lost' = lost /\ u \notin lost
    BY DEF UpdateTokenErr, UpdateReturns, IInv, AppliedInv, ReportsAreTrue
  <1>3. TypeOK' /\ RevokeInv'
    BY <1>1, <1>2 DEF IInv, TypeOK, RevokeInv, Returned
  <1>4. KeyInv' /\ NoLostUpdate' /\ TokenDiesWithLease'
    BY <1>1 DEF IInv, KeyInv, NoLostUpdate, TokenDiesWithLease, Exists
  <1>5. \A v \in Updaters : /\ Pending(v)' => Pending(v)
                            /\ upc'[v] = upc[v] \/ upc'[v] \in {"err", "notFound"}
    BY <1>2 DEF Pending, IInv, TypeOK
  <1>6. SnapInv'
    BY <1>1, <1>5 DEF IInv, SnapInv, VersionMatches
  <1>7. AppliedInv'
    BY <1>1, <1>2 DEF IInv, AppliedInv, ReportsAreTrue, TypeOK
  <1>8. FailsInv' /\ GivesUpOnlyWhenContended'
    BY <1>1, <1>5 DEF IInv, FailsInv, GivesUpOnlyWhenContended, Gone, Exists
  <1>9. QED
    BY <1>3, <1>4, <1>6, <1>7, <1>8 DEF IInv

\* Every step of the store preserves the invariant.
LEMMA NextIInv == IInv /\ [Next]_vars => IInv'
  <1> SUFFICES ASSUME IInv, [Next]_vars PROVE IInv'
    OBVIOUS
  <1>1. CASE CreateTokenGrant \/ CreateTokenPut \/ CreateTokenObject
    BY <1>1, CreateStep
  <1>2. CASE Ends \/ \E d \in Deleters : DeleteToken(d)
    BY <1>2, DeleteStep
  <1>3. ASSUME NEW u \in Updaters, UpdateTokenGet(u) PROVE IInv'
    BY <1>3, GetStep
  <1>4. ASSUME NEW u \in Updaters, UpdateTokenTxn(u) PROVE IInv'
    <2>1. upc[u] = "txn" /\ u \notin lost /\ lost' = lost
      BY <1>4 DEF UpdateTokenTxn, IInv, AppliedInv
    <2>2. CASE VersionMatches(u) /\ PutUpdate(u) /\ UpdateReturns(u, "ok") /\ UNCHANGED fails
      <3>1. Pending(u) /\ lost' = lost \ {u}
        BY <2>1 DEF Pending
      <3>2. QED
        BY <1>4, <2>1, <2>2, <3>1, CommitStep DEF UpdateTokenTxn, UpdateReturns
    <2>3. CASE ~VersionMatches(u) /\ Retry(u) /\ UNCHANGED <<kv, applied>>
      BY <1>4, <2>1, <2>3, RetryStep DEF UpdateTokenTxn
    <2>4. CASE upc' = [upc EXCEPT ![u] = "notFound"] /\ UNCHANGED <<kv, fails, applied>>
      BY <1>4, <2>1, <2>4, LostStep DEF UpdateTokenTxn
    <2>5. QED
      BY <1>4, <2>2, <2>3, <2>4 DEF UpdateTokenTxn, UpdateReturns
  <1>5. ASSUME NEW u \in Updaters, UpdateTokenErr(u) PROVE IInv'
    BY <1>5, LostStep
  <1>6. ASSUME NEW u \in Updaters, LateTxn(u) PROVE IInv'
    <2>1. upc[u] = "err" /\ Pending(u)
      BY <1>6 DEF LateTxn, IInv, AppliedInv, Pending
    <2>2. CASE VersionMatches(u)
      <3>1. upc' = [upc EXCEPT ![u] = IF upc[u] = "txn" THEN "ok" ELSE "err"]
        BY <1>6, <2>1 DEF LateTxn, IInv, TypeOK
      <3>2. QED
        BY <1>6, <2>1, <2>2, <3>1, CommitStep DEF LateTxn
    <2>3. CASE ~VersionMatches(u)
      BY <1>6, <2>3, LostStep DEF LateTxn
    <2>4. QED
      BY <2>2, <2>3
  <1>7. CASE UNCHANGED vars
    <2>1. TokenDiesWithLease' /\ RevokeInv'
      BY <1>7 DEF vars, IInv, TokenDiesWithLease, Exists, RevokeInv
    <2>2. QED
      BY <1>7, <2>1, VanishStep DEF vars, IInv, TypeOK, KeyInv
  <1>8. QED
    BY <1>1, <1>2, <1>3, <1>4, <1>5, <1>6, <1>7 DEF Next, Ends, UpdateToken, Finished

-----------------------------------------------------------------------------
\* Whatever the number of concurrent calls, timeouts and expiries: the token
\* counts every UpdateToken call that took effect exactly once and holds every
\* capability they added.
THEOREM TokenNoLostUpdate == Spec => []NoLostUpdate
  BY InitIInv, NextIInv, PTL DEF Spec, IInv

\* The store's state is always well typed.
THEOREM TokenTypeOK == Spec => []TypeOK
  BY InitIInv, NextIInv, PTL DEF Spec, IInv

\* UpdateToken reports success only if it took effect, and "not found" or
\* retryErr only if it never does.
THEOREM TokenReportsAreTrue == Spec => []ReportsAreTrue
  BY InitIInv, NextIInv, PTL DEF Spec, IInv, AppliedInv

\* A token never outlives its lease.
THEOREM TokenLease == Spec => []TokenDiesWithLease
  BY InitIInv, NextIInv, PTL DEF Spec, IInv

\* For every retry limit Steps: an UpdateToken call gives up only after Steps
\* lost races.
THEOREM TokenRetryLimit == Spec => []GivesUpOnlyWhenContended
  BY InitIInv, NextIInv, PTL DEF Spec, IInv

\* No step brings a token back that is gone: what was read of it no longer
\* matches the version of its key.
LEMMA GoneStays ==
    ASSUME IInv, [Next]_vars, Gone
    PROVE  Gone'
  <1>1. kv = NoKey
    BY DEF IInv, KeyInv, Gone
  <1>2. \A u \in Updaters : Pending(u) => ~VersionMatches(u)
    BY <1>1 DEF IInv, SnapInv, VersionMatches, NoKey
  <1>3. kv' = kv /\ created' = created
    BY <1>1, <1>2 DEF Next, CreateTokenGrant, CreateTokenPut, CreateTokenObject, LeaseExpires, EndLease,
       ReadExpired, GarbageCollectToken,
       UpdateToken, UpdateTokenGet, UpdateTokenTxn, UpdateTokenErr, LateTxn, Pending,
       DeleteToken, DeleteTokenGet, DeleteTokenDelete, DeleteTokenRevoke, DeleteTokenObject,
       Finished, vars, Gone
  <1>4. QED
    BY <1>3 DEF Exists, Gone

\* A token that is gone stays gone.
THEOREM TokenNoResurrection == Spec => NoResurrection
  <1>1. IInv /\ [Next]_vars => [created = "yes" /\ ~Exists => ~Exists']_vars
    BY GoneStays DEF Gone
  <1>2. QED
    BY <1>1, InitIInv, NextIInv, PTL DEF Spec, NoResurrection

\* A DeleteToken call that reports success leaves the token gone.
DeletedInv == DeletedOnce /\ \A d \in Deleters : dres[d] = "ok" => Gone

\* However many DeleteToken calls run at a time, one is told that it deleted the
\* token: the deletion that finds the key ends it, and it never comes back.
THEOREM TokenDeletedOnce == Spec => []DeletedOnce
  <1>1. Init => DeletedInv
    BY DEF Init, DeletedInv, DeletedOnce
  <1>2. IInv /\ DeletedInv /\ [Next]_vars => DeletedInv'
    <2> SUFFICES ASSUME IInv, DeletedInv, [Next]_vars PROVE DeletedInv'
      OBVIOUS
    <2>1. Gone => Gone'
      BY GoneStays
    <2>2. CASE dres' = dres
      BY <2>1, <2>2 DEF DeletedInv, DeletedOnce
    <2>3. ASSUME NEW d \in Deleters, DeleteTokenDelete(d) \/ DeleteTokenObject(d)
          PROVE  DeletedInv'
      <3>1. \A e \in Deleters : e # d => dres'[e] = dres[e]
        BY <2>3 DEF DeleteTokenDelete, DeleteTokenObject, DeleteReturns, IInv, TypeOK
      <3>2. CASE dres'[d] # "ok"
        BY <2>1, <3>1, <3>2 DEF DeletedInv, DeletedOnce
      <3>3. CASE dres'[d] = "ok"
        <4>1. Exists /\ kv' = NoKey /\ created' = created
          BY <2>3, <3>3 DEF DeleteTokenDelete, DeleteTokenObject, DeleteReturns, IInv, TypeOK
        <4>2. ~Gone /\ Gone'
          BY <4>1 DEF Gone, Exists, NoKey, IInv, KeyInv
        <4>3. \A e \in Deleters : e # d => dres'[e] # "ok"
          BY <3>1, <4>2 DEF DeletedInv
        <4>4. QED
          BY <4>2, <4>3 DEF DeletedInv, DeletedOnce
      <3>4. QED
        BY <3>2, <3>3
    <2>4. dres' = dres \/ \E d \in Deleters : DeleteTokenDelete(d) \/ DeleteTokenObject(d)
      BY DEF Next, CreateTokenGrant, CreateTokenPut, CreateTokenObject, LeaseExpires, ReadExpired,
         GarbageCollectToken, UpdateToken,
         UpdateTokenGet, UpdateTokenTxn, UpdateTokenErr, LateTxn, DeleteToken,
         DeleteTokenGet, DeleteTokenRevoke, Finished, vars
    <2>5. QED
      BY <2>2, <2>3, <2>4
  <1>3. QED
    BY <1>1, <1>2, InitIInv, NextIInv, PTL DEF Spec, DeletedInv

-----------------------------------------------------------------------------
(* Refinement: each request maps to a step of AtomicToken or to a stutter. *)

Phase == IF Exists THEN "live" ELSE IF created = "yes" THEN "gone" ELSE "none"

Report == [u \in Updaters |-> IF upc[u] \in Returned THEN upc[u] ELSE "none"]

\* A key that stays or disappears, while no call returns, is a stutter or the
\* Vanish of AtomicToken.
LEMMA VanishRefines ==
    ASSUME IInv, kv' \in {kv, NoKey}, UNCHANGED <<created, applied>>, Report' = Report
    PROVE  [Promise!Next]_(Promise!vars)
  <1>1. CASE kv' = kv
    <2>1. Phase' = Phase
      BY <1>1 DEF Phase, Exists
    <2>2. QED
      BY <1>1, <2>1 DEF Promise!vars, Phase, Report
  <1>2. CASE kv' # kv
    <2>1. /\ Exists /\ ~Exists' /\ created' = "yes"
          /\ kv'.usage = 0 /\ kv'.joins = {}
      <3>1. kv' = NoKey /\ Exists /\ created' = "yes"
        BY <1>2 DEF IInv, KeyInv
      <3>2. QED
        BY <3>1 DEF Exists, NoKey
    <2>2. Promise!Vanish
      BY <2>1 DEF Promise!Vanish, Report
    <2>3. QED
      BY <2>2 DEF Promise!Next
  <1>3. QED
    BY <1>1, <1>2

\* A call that returns without an effect is the Refuse of AtomicToken.
LEMMA RefuseRefines ==
    ASSUME IInv, NEW u \in Updaters, upc[u] \in {"get", "txn"},
           NEW r \in {"notFound", "retryErr", "err"},
           r = "notFound" => ~Exists,
           upc' = [upc EXCEPT ![u] = r], UNCHANGED <<kv, created, applied>>
    PROVE  Promise!Next
  <1>1. u \notin applied
    BY DEF IInv, AppliedInv, ReportsAreTrue
  <1>2. Report[u] = "none" /\ Report' = [Report EXCEPT ![u] = r]
    BY DEF Report, Returned, IInv, TypeOK
  <1>3. Exists' = Exists
    BY DEF Exists
  <1>4. Promise!Refuse(u, r)
    BY <1>1, <1>2, <1>3 DEF Promise!Refuse, Report
  <1>5. QED
    BY <1>4 DEF Promise!Next, Promise!Results

\* A transaction that takes effect is the Apply of AtomicToken, or ApplyLate if
\* nobody waits for it any more.
LEMMA CommitRefines ==
    ASSUME IInv, NEW u \in Updaters, Pending(u), VersionMatches(u), PutUpdate(u),
           upc' = [upc EXCEPT ![u] = IF upc[u] = "txn" THEN "ok" ELSE "err"],
           UNCHANGED <<backend, gc, lease, created>>
    PROVE  Promise!Next
  <1>1. u \notin applied /\ upc[u] \in {"txn", "err"}
    BY DEF IInv, AppliedInv, ReportsAreTrue, Pending
  <1>2. Exists /\ Exists'
    BY <1>1, PutStep
  <1>3. /\ kv'.usage = kv.usage + 1
        /\ kv'.joins = kv.joins \cup Adds[u]
        /\ applied' = applied \cup {u}
    <2>1. kv.usage = snap[u].usage /\ kv.joins = snap[u].joins
      BY DEF IInv, SnapInv
    <2>2. snap[u] \in [version : Nat, usage : Nat, joins : SUBSET Clusters]
      BY DEF IInv, TypeOK
    <2>3. /\ Mutated(u).usage = kv.usage + 1
          /\ Mutated(u).joins = kv.joins \cup Adds[u]
      BY <2>1, <2>2 DEF Mutated, AddCapability, IncrementUsageCount
    <2>4. QED
      BY <2>3 DEF PutUpdate
  <1>4. Promise!TakeEffect(u)
    BY <1>1, <1>2, <1>3 DEF Promise!TakeEffect
  <1>5. CASE upc[u] = "txn"
    <2>1. Report[u] = "none" /\ Report' = [Report EXCEPT ![u] = "ok"]
      BY <1>5 DEF Report, Returned, IInv, TypeOK
    <2>2. Promise!Apply(u)
      BY <1>4, <2>1 DEF Promise!Apply, Report
    <2>3. QED
      BY <2>2 DEF Promise!Next
  <1>6. CASE upc[u] = "err"
    <2>1. Report[u] = "err" /\ Report' = Report
      BY <1>6 DEF Report, Returned, IInv, TypeOK
    <2>2. Promise!ApplyLate(u)
      BY <1>4, <2>1 DEF Promise!ApplyLate, Report
    <2>3. QED
      BY <2>2 DEF Promise!Next
  <1>7. QED
    BY <1>1, <1>5, <1>6

\* For every number of calls and every retry limit, each token store
\* implements the atomic token: versions, transactions, leases, retries and
\* lost answers are invisible to its callers.
THEOREM TokenImplementsAtomicToken == Spec => ImplementsAtomicToken
  <1>1. Init => Promise!Init
    BY DEF Init, Promise!Init, NoKey, Exists, Returned
  <1>2. IInv /\ [Next]_vars => [Promise!Next]_(Promise!vars)
    <2> SUFFICES ASSUME IInv, [Next]_vars PROVE [Promise!Next]_(Promise!vars)
      OBVIOUS
    <2>1. CASE CreateTokenGrant
      <3>1. ~Exists /\ ~Exists' /\ created # "yes" /\ created' # "yes"
        BY <2>1 DEF CreateTokenGrant, IInv, KeyInv, Exists
      <3>2. QED
        BY <2>1, <3>1 DEF CreateTokenGrant, Promise!vars
    <2>2. CASE CreateTokenPut \/ CreateTokenObject
      <3>1. /\ ~Exists /\ created # "yes" /\ kv = NoKey
            /\ UNCHANGED <<upc, applied>>
        BY <2>2 DEF CreateTokenPut, CreateTokenObject, IInv, KeyInv
      <3>2. CASE UNCHANGED kv /\ created' = "err"
        <4>1. ~Exists'
          BY <3>1, <3>2 DEF Exists
        <4>2. QED
          BY <3>1, <3>2, <4>1 DEF Promise!vars
      <3>3. CASE \/ kv' = [version |-> 1, usage |-> 0, joins |-> {}, leased |-> TRUE]
                 \/ kv' = [version |-> 1, usage |-> 0, joins |-> {}, leased |-> FALSE]
        <4>1. Exists' /\ kv'.usage = kv.usage /\ kv'.joins = kv.joins
          BY <3>1, <3>3 DEF Exists, NoKey
        <4>2. Promise!Create
          BY <3>1, <4>1 DEF Promise!Create
        <4>3. QED
          BY <4>2 DEF Promise!Next
      <3>4. QED
        BY <2>2, <3>2, <3>3 DEF CreateTokenPut, CreateTokenObject
    <2>3. CASE Ends \/ \E d \in Deleters : DeleteToken(d)
      <3>1. kv' \in {kv, NoKey} /\ UNCHANGED <<created, upc, applied>>
        BY <2>3 DEF Ends, LeaseExpires, EndLease, ReadExpired, GarbageCollectToken, DeleteToken,
           DeleteTokenGet, DeleteTokenDelete, DeleteTokenRevoke, DeleteTokenObject
      <3>2. QED
        BY <3>1, VanishRefines DEF Report
    <2>4. ASSUME NEW u \in Updaters, UpdateTokenGet(u) PROVE [Promise!Next]_(Promise!vars)
      <3>1. CASE Exists
        <4>1. Report' = Report
          BY <2>4, <3>1 DEF UpdateTokenGet, UpdateReturns, Report, Returned, IInv, TypeOK
        <4>2. QED
          BY <2>4, <4>1, VanishRefines DEF UpdateTokenGet
      <3>2. CASE ~Exists
        BY <2>4, <3>2, RefuseRefines DEF UpdateTokenGet, UpdateReturns
      <3>3. QED
        BY <3>1, <3>2
    <2>5. ASSUME NEW u \in Updaters, UpdateTokenTxn(u) PROVE [Promise!Next]_(Promise!vars)
      <3>1. CASE VersionMatches(u) /\ PutUpdate(u) /\ UpdateReturns(u, "ok")
        BY <2>5, <3>1, CommitRefines DEF UpdateTokenTxn, UpdateReturns, Pending
      <3>2. CASE ~VersionMatches(u) /\ Retry(u) /\ UNCHANGED <<kv, applied>>
        <4>1. CASE fails[u] + 1 < Steps
          <5>1. Report' = Report
            BY <2>5, <3>2, <4>1 DEF UpdateTokenTxn, Retry, UpdateReturns, Report, Returned,
               IInv, TypeOK
          <5>2. QED
            BY <2>5, <3>2, <5>1, VanishRefines DEF UpdateTokenTxn
        <4>2. CASE ~(fails[u] + 1 < Steps)
          BY <2>5, <3>2, <4>2, RefuseRefines DEF UpdateTokenTxn, Retry, UpdateReturns
        <4>3. QED
          BY <4>1, <4>2
      <3>3. CASE ~Exists /\ UpdateReturns(u, "notFound") /\ UNCHANGED <<kv, applied>>
        BY <2>5, <3>3, RefuseRefines DEF UpdateTokenTxn, UpdateReturns
      <3>4. QED
        BY <2>5, <3>1, <3>2, <3>3 DEF UpdateTokenTxn
    <2>6. ASSUME NEW u \in Updaters, UpdateTokenErr(u) PROVE [Promise!Next]_(Promise!vars)
      BY <2>6, RefuseRefines DEF UpdateTokenErr, UpdateReturns
    <2>7. ASSUME NEW u \in Updaters, LateTxn(u) PROVE [Promise!Next]_(Promise!vars)
      <3>1. upc[u] = "err" /\ upc' = upc /\ Pending(u)
        BY <2>7 DEF LateTxn, IInv, AppliedInv, Pending
      <3>2. CASE VersionMatches(u)
        <4>1. upc' = [upc EXCEPT ![u] = IF upc[u] = "txn" THEN "ok" ELSE "err"]
          BY <3>1 DEF IInv, TypeOK
        <4>2. QED
          BY <2>7, <3>1, <3>2, <4>1, CommitRefines DEF LateTxn
      <3>3. CASE ~VersionMatches(u)
        BY <2>7, <3>1, <3>3, VanishRefines DEF LateTxn, Report
      <3>4. QED
        BY <3>2, <3>3
    <2>8. CASE UNCHANGED vars
      BY <2>8, VanishRefines DEF vars, Report
    <2>9. QED
      BY <2>1, <2>2, <2>3, <2>4, <2>5, <2>6, <2>7, <2>8 DEF Next, Ends, UpdateToken, Finished
  <1>3. QED
    BY <1>1, <1>2, InitIInv, NextIInv, PTL DEF Spec, ImplementsAtomicToken, Promise!Spec
=============================================================================
