-------------------------------- MODULE Openid --------------------------------
(***************************************************************************)
(* The OpenID Connect middleware (pkg/auth/openid): a goroutine discovers  *)
(* the provider's configuration, and requests are then authenticated with  *)
(* ID tokens, or with opaque access tokens whose user the provider tells   *)
(* and UserInfoCache remembers.                                            *)
(*                                                                         *)
(* The provider (external) may issue, reassign or revoke a token whenever  *)
(* it is not just answering. UserInfoCache.Get holds its mutex while it    *)
(* asks, so the requests with opaque tokens go one at a time.              *)
(***************************************************************************)
EXTENDS Naturals

CONSTANTS Requests, Tokens, Users,
          IdToken,     \* a bearer token that parses as an ID token
          NoHeader,    \* a request without Authorization header
          None,
          MaxChanges,  \* bound on changes of the provider's answers
          MaxRetries   \* discoveries that the backoff policy allows

ASSUME OpenidAssumption ==
    /\ None \notin Tokens /\ None \notin Users /\ None \notin Requests
    /\ IdToken \notin Tokens /\ NoHeader \notin Tokens /\ IdToken # NoHeader
    /\ MaxChanges \in Nat /\ MaxRetries \in Nat \ {0}

VARIABLES
    provider, changes,  \* provider[t]: the user of token t, or None
    conf,               \* configurator: "fetch", "set", "ready", "gaveup" or "fatal"
    retries,
    ready,              \* wellKnownConfig is set
    lock,               \* OpenidMiddleware.lock is held by the configurator
    hasCache,           \* the field cache is set
    pc,                 \* where each request is
    bearer,             \* its token
    user,               \* the user it was authenticated as, or None
    mu,                 \* the request that holds UserInfoCache.mu, or None
    told,               \* told[r]: what the provider answered r
    cache, knownUsers,  \* of UserInfoCache; None for an absent key
    said                \* history: <<token, user>> pairs the provider has answered

middleware == <<conf, retries, ready, lock, hasCache>>
requests == <<pc, bearer, user, told>>
userInfo == <<mu, cache, knownUsers>>
vars == <<provider, changes, middleware, requests, userInfo, said>>

Answered == {"200", "401", "503"}

TypeOK ==
    /\ provider \in [Tokens -> Users \cup {None}] /\ changes \in 0 .. MaxChanges
    /\ conf \in {"fetch", "set", "ready", "gaveup", "fatal"} /\ retries \in 0 .. MaxRetries
    /\ ready \in BOOLEAN /\ lock \in BOOLEAN /\ hasCache \in BOOLEAN
    /\ pc \in [Requests -> {"start", "keys", "token", "get", "fetch", "store"} \cup Answered]
    /\ bearer \in [Requests -> Tokens \cup {IdToken, NoHeader}]
    /\ user \in [Requests -> Users \cup {None}] /\ told \in [Requests -> Users \cup {None}]
    /\ mu \in Requests \cup {None}
    /\ cache \in [Tokens -> Users \cup {None}]
    /\ knownUsers \in [Users -> Tokens \cup {None}]
    /\ said \in SUBSET (Tokens \X Users)

\* The cache starts empty.
NewUserInfoCache ==
    /\ cache = [t \in Tokens |-> None]
    /\ knownUsers = [u \in Users |-> None]

Init ==
    /\ provider \in [Tokens -> Users \cup {None}] /\ changes = 0
    /\ conf = "fetch" /\ retries = 0 /\ ready = FALSE /\ lock = FALSE /\ hasCache = FALSE
    /\ pc = [r \in Requests |-> "start"]
    /\ bearer \in [Requests -> Tokens \cup {IdToken, NoHeader}]
    /\ user = [r \in Requests |-> None] /\ told = [r \in Requests |-> None]
    /\ mu = None /\ NewUserInfoCache
    /\ said = {}

-----------------------------------------------------------------------------
ProviderChanges(t, u) ==
    /\ changes < MaxChanges /\ changes' = changes + 1
    /\ provider[t] # u /\ provider' = [provider EXCEPT ![t] = u]
    /\ UNCHANGED <<middleware, requests, userInfo, said>>

-----------------------------------------------------------------------------
(* tryConfigureKeyRefresher *)

Discover ==
    /\ conf = "fetch"
    /\ conf' = "set" /\ lock' = TRUE /\ ready' = TRUE
    /\ UNCHANGED <<provider, changes, retries, hasCache, requests, userInfo, said>>

\* A discovery that fails ends the process where it must fail again. Otherwise
\* backoff.Continue allows another one until the policy's limit, which is the
\* library's default; after that nobody tries again.
DiscoverFails ==
    /\ conf = "fetch" /\ retries < MaxRetries /\ retries' = retries + 1
    /\ \/ conf' = "fatal"
       \/ conf' = IF retries + 1 < MaxRetries THEN "fetch" ELSE "gaveup"
    /\ UNCHANGED <<provider, changes, ready, lock, hasCache, requests, userInfo, said>>

\* The cache is made before the lock is released.
SetCache ==
    /\ conf = "set"
    /\ conf' = "ready" /\ hasCache' = TRUE /\ lock' = FALSE
    /\ UNCHANGED <<provider, changes, retries, ready, requests, userInfo, said>>

-----------------------------------------------------------------------------
(* Handle *)

Goto(r, l) == pc' = [pc EXCEPT ![r] = l]

CheckReady(r) ==
    /\ pc[r] = "start" /\ ~lock
    /\ Goto(r, IF ready THEN "keys" ELSE "503")
    /\ UNCHANGED <<provider, changes, middleware, bearer, user, told, userInfo, said>>

\* The keys are fetched, or not.
FetchKeys(r) ==
    /\ pc[r] = "keys"
    /\ \E l \in {"token", "503"} : Goto(r, l)
    /\ UNCHANGED <<provider, changes, middleware, bearer, user, told, userInfo, said>>

GetTokenType(b) == IF b = IdToken THEN "id_token" ELSE "opaque"

\* An ID token is valid for some user, or it is not valid, or lacks the claim.
ValidateIDToken(r) ==
    \/ Goto(r, "401") /\ UNCHANGED user
    \/ Goto(r, "200") /\ \E u \in Users : user' = [user EXCEPT ![r] = u]

CheckToken(r) ==
    /\ pc[r] = "token"
    /\ \/ bearer[r] = NoHeader /\ Goto(r, "401") /\ UNCHANGED user
       \/ /\ bearer[r] # NoHeader /\ GetTokenType(bearer[r]) = "id_token"
          /\ ValidateIDToken(r)
       \/ /\ bearer[r] # NoHeader /\ GetTokenType(bearer[r]) = "opaque"
          /\ Goto(r, "get") /\ UNCHANGED user
    /\ UNCHANGED <<provider, changes, middleware, bearer, told, userInfo, said>>

-----------------------------------------------------------------------------
(* UserInfoCache.Get *)

\* The mutex is taken; a cached token is answered at once.
Get(r) ==
    /\ pc[r] = "get" /\ mu = None
    /\ IF cache[bearer[r]] # None
       THEN /\ Goto(r, "200") /\ user' = [user EXCEPT ![r] = cache[bearer[r]]]
            /\ UNCHANGED mu
       ELSE Goto(r, "fetch") /\ mu' = r /\ UNCHANGED user
    /\ UNCHANGED <<provider, changes, middleware, bearer, told, cache, knownUsers, said>>

FetchUserInfo(r) ==
    /\ pc[r] = "fetch" /\ provider[bearer[r]] # None
    /\ Goto(r, "store")
    /\ told' = [told EXCEPT ![r] = provider[bearer[r]]]
    /\ said' = said \cup {<<bearer[r], provider[bearer[r]]>>}
    /\ UNCHANGED <<provider, changes, middleware, bearer, user, userInfo>>

\* Mutant: the mutex is not released where the fetch fails.
KeepsMutex(r) ==
    /\ pc[r] = "fetch"
    /\ Goto(r, "401")
    /\ UNCHANGED <<provider, changes, middleware, bearer, user, told, userInfo, said>>

\* The provider refuses, fails, or answers without the identifying claim.
FetchFails(r) ==
    /\ pc[r] = "fetch"
    /\ Goto(r, "401") /\ mu' = None
    /\ UNCHANGED <<provider, changes, middleware, bearer, user, told, cache, knownUsers, said>>

\* Mutant: the token the user had before stays in the cache.
KeepsOldToken(r) ==
    /\ pc[r] = "store"
    /\ knownUsers' = [knownUsers EXCEPT ![told[r]] = bearer[r]]
    /\ cache' = [cache EXCEPT ![bearer[r]] = told[r]]
    /\ user' = [user EXCEPT ![r] = told[r]]
    /\ Goto(r, "200") /\ mu' = None
    /\ UNCHANGED <<provider, changes, middleware, bearer, told, said>>

\* The user's previous token is invalidated.
Store(r) ==
    /\ pc[r] = "store"
    /\ knownUsers' = [knownUsers EXCEPT ![told[r]] = bearer[r]]
    /\ cache' = [t \in Tokens |-> IF t = bearer[r] THEN told[r]
                                  ELSE IF t = knownUsers[told[r]] THEN None
                                  ELSE cache[t]]
    /\ user' = [user EXCEPT ![r] = told[r]]
    /\ Goto(r, "200") /\ mu' = None
    /\ UNCHANGED <<provider, changes, middleware, bearer, told, said>>

\* The request is over: another one comes, with any token.
Again(r, b) ==
    /\ pc[r] \in Answered
    /\ Goto(r, "start") /\ bearer' = [bearer EXCEPT ![r] = b]
    /\ user' = [user EXCEPT ![r] = None] /\ told' = [told EXCEPT ![r] = None]
    /\ UNCHANGED <<provider, changes, middleware, userInfo, said>>

-----------------------------------------------------------------------------
Handle(r) ==
    \/ CheckReady(r) \/ FetchKeys(r) \/ CheckToken(r)
    \/ Get(r) \/ FetchUserInfo(r) \/ FetchFails(r) \/ Store(r)

Next ==
    /\ conf # "fatal"
    /\ \/ Discover \/ DiscoverFails \/ SetCache
       \/ \E r \in Requests : Handle(r) \/ \E b \in Tokens \cup {IdToken, NoHeader} : Again(r, b)
       \/ \E t \in Tokens, u \in Users \cup {None} : ProviderChanges(t, u)

Spec == Init /\ [][Next]_vars

\* Requests make progress, and so does the configurator while it holds the lock;
\* that discovery ever succeeds is not assumed. Go's mutexes do not starve a
\* waiter.
FairSpec ==
    /\ Spec
    /\ WF_vars(SetCache)
    /\ \A r \in Requests :
          /\ WF_vars(conf # "fatal" /\ Handle(r))
          /\ SF_vars(conf # "fatal" /\ Get(r))

-----------------------------------------------------------------------------
(* Properties *)

\* A user has one cached token, the last the user came with: the two maps of the
\* cache agree, whatever the provider answers (cache_test.go: "should invalidate
\* the old token").
OneTokenPerUser == \A t \in Tokens : cache[t] # None => knownUsers[cache[t]] = t
KnownTokenCached == \A u \in Users : knownUsers[u] # None => cache[knownUsers[u]] = u

\* The cache never mixes users up: a request with an opaque token is answered
\* for a user the provider named for that very token.
UserFromProvider ==
    \A r \in Requests :
        pc[r] = "200" /\ bearer[r] \in Tokens => <<bearer[r], user[r]>> \in said

\* No request gets beyond the readiness check before the cache exists, although
\* the configuration is set before it.
NeverWithoutCache ==
    \A r \in Requests : pc[r] \in {"keys", "token", "get", "fetch", "store"} => hasCache

\* Every request is answered, whether or not the provider is ever discovered.
RequestsAnswered ==
    \A r \in Requests : pc[r] = "start" ~> (pc[r] \in Answered \/ conf = "fatal")
=============================================================================
