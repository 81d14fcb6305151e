---------------------------- MODULE Openid_proofs ----------------------------
(***************************************************************************)
(* Proofs about the OpenID Connect middleware, for any number of           *)
(* concurrent requests, tokens and users and any changes of the provider's *)
(* answers.                                                                *)
(***************************************************************************)
EXTENDS Openid, TLAPS

\* A request that asks the provider holds the mutex, and so its token is still
\* not in the cache when the answer is stored.
MutexInv ==
    \A r \in Requests :
        /\ pc[r] \in {"get", "fetch", "store"} => bearer[r] \in Tokens
        /\ pc[r] \in {"fetch", "store"} => mu = r /\ cache[bearer[r]] = None
        /\ pc[r] = "store" => told[r] # None /\ <<bearer[r], told[r]>> \in said

\* What is cached, the provider once said.
CacheInv == \A t \in Tokens : cache[t] # None => <<t, cache[t]>> \in said

\* While the configuration is set and the cache is not, the lock is held.
LockInv == /\ conf = "set" => lock
           /\ ready /\ ~lock => hasCache

UserInv == OneTokenPerUser /\ KnownTokenCached /\ CacheInv /\ UserFromProvider
IInv == TypeOK /\ MutexInv /\ UserInv /\ LockInv /\ NeverWithoutCache

LEMMA InitIInv == Init => IInv
<1> SUFFICES ASSUME Init
             PROVE  IInv
    OBVIOUS
<1>1. ready \in BOOLEAN /\ lock \in BOOLEAN /\ hasCache \in BOOLEAN
    BY Zenon DEF Init
<1>2. TypeOK
    BY <1>1, OpenidAssumption DEF Init, NewUserInfoCache, TypeOK
<1>3. MutexInv /\ UserInv
    BY DEF Init, NewUserInfoCache, MutexInv, UserInv, OneTokenPerUser, KnownTokenCached, CacheInv, UserFromProvider
<1>4. LockInv /\ NeverWithoutCache
    BY DEF Init, LockInv, NeverWithoutCache
<1> QED
    BY <1>2, <1>3, <1>4 DEF IInv

LEMMA StoreType ==
    ASSUME TypeOK, MutexInv, NEW r \in Requests, Store(r)
    PROVE  TypeOK'
<1>1. told[r] \in Users /\ bearer[r] \in Tokens
    BY DEF Store, TypeOK, MutexInv
<1>2. cache' \in [Tokens -> Users \cup {None}]
    BY <1>1 DEF Store, TypeOK
<1>3. knownUsers' \in [Users -> Tokens \cup {None}] /\ user' \in [Requests -> Users \cup {None}]
    BY <1>1 DEF Store, TypeOK
<1> QED
    BY <1>2, <1>3 DEF Store, Goto, TypeOK, Answered, middleware

LEMMA NextType == TypeOK /\ MutexInv /\ [Next]_vars => TypeOK'
<1> SUFFICES ASSUME TypeOK, MutexInv, [Next]_vars
             PROVE  TypeOK'
    OBVIOUS
<1>1. CASE Discover \/ DiscoverFails \/ SetCache
    <2>1. ready' \in BOOLEAN /\ lock' \in BOOLEAN /\ hasCache' \in BOOLEAN
        BY <1>1, Zenon DEF Discover, DiscoverFails, SetCache, TypeOK
    <2>2. conf' \in {"fetch", "set", "ready", "gaveup", "fatal"} /\ retries' \in 0 .. MaxRetries
        BY <1>1, OpenidAssumption DEF Discover, DiscoverFails, SetCache, TypeOK
    <2> QED
        BY <1>1, <2>1, <2>2 DEF Discover, DiscoverFails, SetCache, TypeOK, requests, userInfo
<1>2. ASSUME NEW r \in Requests, CheckReady(r) \/ FetchKeys(r)
      PROVE  TypeOK'
    BY <1>2 DEF CheckReady, FetchKeys, Goto, TypeOK, Answered, middleware, userInfo
<1>3. ASSUME NEW r \in Requests, CheckToken(r)
      PROVE  TypeOK'
    BY <1>3 DEF CheckToken, ValidateIDToken, GetTokenType, Goto, TypeOK, Answered, middleware, userInfo
<1>4. ASSUME NEW r \in Requests, Get(r)
      PROVE  TypeOK'
    <2>1. bearer[r] \in Tokens
        BY <1>4 DEF Get, MutexInv
    <2>2. user' \in [Requests -> Users \cup {None}] /\ mu' \in Requests \cup {None}
        BY <1>4, <2>1 DEF Get, TypeOK
    <2> QED
        BY <1>4, <2>2 DEF Get, Goto, TypeOK, Answered, middleware
<1>5. ASSUME NEW r \in Requests, FetchUserInfo(r)
      PROVE  TypeOK'
    <2>1. bearer[r] \in Tokens /\ provider[bearer[r]] \in Users
        BY <1>5 DEF FetchUserInfo, MutexInv, TypeOK
    <2>2. said' \in SUBSET (Tokens \X Users) /\ told' \in [Requests -> Users \cup {None}]
        BY <1>5, <2>1 DEF FetchUserInfo, TypeOK
    <2> QED
        BY <1>5, <2>2 DEF FetchUserInfo, Goto, TypeOK, middleware, userInfo
<1>6. ASSUME NEW r \in Requests, FetchFails(r)
      PROVE  TypeOK'
    BY <1>6 DEF FetchFails, Goto, TypeOK, Answered, middleware
<1>7. ASSUME NEW r \in Requests, NEW b \in Tokens \cup {IdToken, NoHeader}, Again(r, b)
      PROVE  TypeOK'
    BY <1>7 DEF Again, Goto, TypeOK, middleware, userInfo
<1>8. ASSUME NEW t \in Tokens, NEW u \in Users \cup {None}, ProviderChanges(t, u)
      PROVE  TypeOK'
    BY <1>8, OpenidAssumption DEF ProviderChanges, TypeOK, middleware, requests, userInfo
<1>9. CASE UNCHANGED vars
    BY <1>9 DEF vars, middleware, requests, userInfo, TypeOK
<1> QED
    BY <1>1, <1>2, <1>3, <1>4, <1>5, <1>6, <1>7, <1>8, <1>9, StoreType DEF Next, Handle

\* Only the holder of the mutex writes the cache.
LEMMA NextMutex == TypeOK /\ MutexInv /\ [Next]_vars => MutexInv'
<1> SUFFICES ASSUME TypeOK, MutexInv, [Next]_vars
             PROVE  MutexInv'
    OBVIOUS
<1> USE OpenidAssumption
<1>1. CASE Discover \/ DiscoverFails \/ SetCache \/ UNCHANGED vars
    BY <1>1 DEF Discover, DiscoverFails, SetCache, MutexInv, vars, requests, userInfo
<1>2. ASSUME NEW r \in Requests, CheckReady(r) \/ FetchKeys(r)
      PROVE  MutexInv'
    BY <1>2 DEF CheckReady, FetchKeys, Goto, TypeOK, MutexInv, userInfo
<1>3. ASSUME NEW r \in Requests, CheckToken(r)
      PROVE  MutexInv'
    BY <1>3 DEF CheckToken, ValidateIDToken, GetTokenType, Goto, TypeOK, MutexInv, userInfo
<1>4. ASSUME NEW r \in Requests, Get(r)
      PROVE  MutexInv'
    BY <1>4 DEF Get, Goto, TypeOK, MutexInv
<1>5. ASSUME NEW r \in Requests, FetchUserInfo(r)
      PROVE  MutexInv'
    BY <1>5 DEF FetchUserInfo, Goto, TypeOK, MutexInv, userInfo
<1>6. ASSUME NEW r \in Requests, FetchFails(r)
      PROVE  MutexInv'
    BY <1>6 DEF FetchFails, Goto, TypeOK, MutexInv
<1>7. ASSUME NEW r \in Requests, Store(r)
      PROVE  MutexInv'
    <2>1. mu = r /\ mu' = None /\ pc' = [pc EXCEPT ![r] = "200"]
        BY <1>7 DEF Store, Goto, MutexInv
    <2>2. \A q \in Requests : pc'[q] \notin {"fetch", "store"}
        BY <2>1 DEF TypeOK, MutexInv
    <2> QED
        BY <1>7, <2>1, <2>2 DEF Store, TypeOK, MutexInv
<1>8. ASSUME NEW r \in Requests, NEW b \in Tokens \cup {IdToken, NoHeader}, Again(r, b)
      PROVE  MutexInv'
    BY <1>8 DEF Again, Goto, TypeOK, MutexInv, Answered, userInfo
<1>9. ASSUME NEW t \in Tokens, NEW u \in Users \cup {None}, ProviderChanges(t, u)
      PROVE  MutexInv'
    BY <1>9 DEF ProviderChanges, MutexInv, requests, userInfo
<1> QED
    BY <1>1, <1>2, <1>3, <1>4, <1>5, <1>6, <1>7, <1>8, <1>9 DEF Next, Handle

\* The new token of a user takes the place of the old one in both maps.
LEMMA StoreUsers ==
    ASSUME TypeOK, MutexInv, UserInv, NEW r \in Requests, Store(r)
    PROVE  UserInv'
<1>1. /\ told[r] \in Users /\ bearer[r] \in Tokens /\ cache[bearer[r]] = None
      /\ <<bearer[r], told[r]>> \in said /\ said' = said /\ bearer' = bearer
    BY DEF Store, TypeOK, MutexInv
<1>2. /\ cache'[bearer[r]] = told[r]
      /\ \A t \in Tokens \ {bearer[r]} :
            cache'[t] = IF t = knownUsers[told[r]] THEN None ELSE cache[t]
    BY <1>1 DEF Store
<1>3. /\ knownUsers'[told[r]] = bearer[r]
      /\ \A u \in Users \ {told[r]} : knownUsers'[u] = knownUsers[u]
    BY <1>1 DEF Store, TypeOK
<1>4. OneTokenPerUser'
    BY <1>1, <1>2, <1>3 DEF UserInv, OneTokenPerUser, TypeOK
<1>5. KnownTokenCached'
    <2> SUFFICES ASSUME NEW u \in Users, knownUsers'[u] # None
                 PROVE  cache'[knownUsers'[u]] = u
        BY DEF KnownTokenCached
    <2>1. CASE u = told[r]
        BY <1>2, <1>3, <2>1
    <2>2. CASE u # told[r]
        <3>1. knownUsers'[u] = knownUsers[u] /\ cache[knownUsers[u]] = u
            BY <1>3, <2>2 DEF UserInv, KnownTokenCached
        <3>2. knownUsers[u] \in Tokens /\ knownUsers[u] # bearer[r]
            BY <1>1, <3>1, OpenidAssumption DEF TypeOK
        <3>3. knownUsers[u] # knownUsers[told[r]]
            BY <1>1, <2>2, <3>1, <3>2, OpenidAssumption DEF UserInv, KnownTokenCached
        <3> QED
            BY <1>2, <3>1, <3>2, <3>3
    <2> QED
        BY <2>1, <2>2
<1>6. CacheInv'
    BY <1>1, <1>2 DEF UserInv, CacheInv
<1>7. UserFromProvider'
    BY <1>1 DEF Store, Goto, TypeOK, UserInv, UserFromProvider
<1> QED
    BY <1>4, <1>5, <1>6, <1>7 DEF UserInv

LEMMA NextUsers == TypeOK /\ MutexInv /\ UserInv /\ [Next]_vars => UserInv'
<1> SUFFICES ASSUME TypeOK, MutexInv, UserInv, [Next]_vars
             PROVE  UserInv'
    OBVIOUS
<1> USE DEF UserInv, OneTokenPerUser, KnownTokenCached, CacheInv
<1>1. CASE Discover \/ DiscoverFails \/ SetCache \/ UNCHANGED vars
    BY <1>1 DEF Discover, DiscoverFails, SetCache, UserFromProvider, vars, requests, userInfo
<1>2. ASSUME NEW r \in Requests, CheckReady(r) \/ FetchKeys(r)
      PROVE  UserInv'
    BY <1>2 DEF CheckReady, FetchKeys, Goto, TypeOK, UserFromProvider, userInfo
<1>3. ASSUME NEW r \in Requests, CheckToken(r)
      PROVE  UserInv'
    <2>1. UserFromProvider'
        BY <1>3, OpenidAssumption DEF CheckToken, ValidateIDToken, GetTokenType, Goto, TypeOK, UserFromProvider
    <2> QED
        BY <1>3, <2>1 DEF CheckToken, userInfo
<1>4. ASSUME NEW r \in Requests, Get(r)
      PROVE  UserInv'
    <2>1. UserFromProvider'
        BY <1>4 DEF Get, Goto, TypeOK, UserFromProvider
    <2> QED
        BY <1>4, <2>1 DEF Get
<1>5. ASSUME NEW r \in Requests, FetchUserInfo(r)
      PROVE  UserInv'
    <2>1. said \subseteq said'
        BY <1>5 DEF FetchUserInfo
    <2> QED
        BY <1>5, <2>1 DEF FetchUserInfo, Goto, TypeOK, UserFromProvider, userInfo
<1>6. ASSUME NEW r \in Requests, FetchFails(r)
      PROVE  UserInv'
    BY <1>6 DEF FetchFails, Goto, TypeOK, UserFromProvider
<1>7. ASSUME NEW r \in Requests, NEW b \in Tokens \cup {IdToken, NoHeader}, Again(r, b)
      PROVE  UserInv'
    BY <1>7 DEF Again, Goto, TypeOK, UserFromProvider, userInfo
<1>8. ASSUME NEW t \in Tokens, NEW u \in Users \cup {None}, ProviderChanges(t, u)
      PROVE  UserInv'
    BY <1>8 DEF ProviderChanges, UserFromProvider, requests, userInfo
<1> QED
    BY <1>1, <1>2, <1>3, <1>4, <1>5, <1>6, <1>7, <1>8, StoreUsers DEF Next, Handle

\* A request passes the readiness check only while the lock is free.
LEMMA NextCache ==
    TypeOK /\ LockInv /\ NeverWithoutCache /\ [Next]_vars => LockInv' /\ NeverWithoutCache'
<1> SUFFICES ASSUME TypeOK, LockInv, NeverWithoutCache, [Next]_vars
             PROVE  LockInv' /\ NeverWithoutCache'
    OBVIOUS
<1> USE DEF LockInv, NeverWithoutCache
<1>1. CASE Discover \/ DiscoverFails \/ SetCache \/ UNCHANGED vars
    BY <1>1 DEF Discover, DiscoverFails, SetCache, vars, middleware, requests
<1>2. ASSUME NEW r \in Requests, Handle(r)
      PROVE  LockInv' /\ NeverWithoutCache'
    BY <1>2 DEF Handle, CheckReady, FetchKeys, CheckToken, ValidateIDToken, Get, FetchUserInfo, FetchFails, Store,
                Goto, TypeOK, middleware
<1>3. ASSUME NEW r \in Requests, NEW b \in Tokens \cup {IdToken, NoHeader}, Again(r, b)
      PROVE  LockInv' /\ NeverWithoutCache'
    BY <1>3 DEF Again, Goto, TypeOK, middleware
<1>4. ASSUME NEW t \in Tokens, NEW u \in Users \cup {None}, ProviderChanges(t, u)
      PROVE  LockInv' /\ NeverWithoutCache'
    BY <1>4 DEF ProviderChanges, middleware, requests
<1> QED
    BY <1>1, <1>2, <1>3, <1>4 DEF Next

-----------------------------------------------------------------------------
\* The conjunction of the invariants is inductive.
THEOREM OpenidInvariant == Spec => []IInv
<1>1. Init => IInv
    BY InitIInv
<1>2. IInv /\ [Next]_vars => IInv'
    BY NextType, NextMutex, NextUsers, NextCache DEF IInv
<1> QED
    BY <1>1, <1>2, PTL DEF Spec

\* The middleware and its cache keep their types: what the provider refuses is
\* never stored.
THEOREM OpenidTypeOK == Spec => []TypeOK
<1>1. IInv => TypeOK
    BY DEF IInv
<1> QED
    BY <1>1, OpenidInvariant, PTL

\* UserInfoCache has at most one token of a user, the one that knownUsers has.
THEOREM OpenidOneTokenPerUser == Spec => []OneTokenPerUser
<1>1. IInv => OneTokenPerUser
    BY DEF IInv, UserInv
<1> QED
    BY <1>1, OpenidInvariant, PTL

\* The token that knownUsers has for a user is cached for that user.
THEOREM OpenidKnownTokenCached == Spec => []KnownTokenCached
<1>1. IInv => KnownTokenCached
    BY DEF IInv, UserInv
<1> QED
    BY <1>1, OpenidInvariant, PTL

\* An opaque token is only ever answered for a user that the provider named for it.
THEOREM OpenidUserFromProvider == Spec => []UserFromProvider
<1>1. IInv => UserFromProvider
    BY DEF IInv, UserInv
<1> QED
    BY <1>1, OpenidInvariant, PTL

\* No request is beyond the readiness check before the cache exists.
THEOREM OpenidNeverWithoutCache == Spec => []NeverWithoutCache
<1>1. IInv => NeverWithoutCache
    BY DEF IInv
<1> QED
    BY <1>1, OpenidInvariant, PTL
=============================================================================
