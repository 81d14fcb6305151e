# Verification of opni-monitoring

TLA+ models of the gateway, the agent and the operator of opni-monitoring, the TLC
runs that check them on small instances, and TLAPS proofs of the properties that
matter most. Paths are relative to `src/`.

1. [The system](#1-the-system)
2. [Modules](#2-modules)
3. [Runs](#3-runs)
4. [Fairness](#4-fairness)
5. [Proofs](#5-proofs)
6. [What the code does not promise](#6-what-the-code-does-not-promise)
7. [What is not modelled](#7-what-is-not-modelled)
8. [Further work](#8-further-work)

`PROJECT.json` has the same information in a form tools can read: the components with
their sources, the lines every definition models (`map`), the runs, the mutated
definitions each property is known to catch (`mutants`), the hazards and the theorems.

## 1. The system

A **gateway** process runs in an upstream Kubernetes cluster. **Agents** in downstream
clusters bootstrap against it once, with a token, and from then on send it metrics,
rules and logs. **Plugins** (cortex, logging, example) are processes of their own that
the gateway starts and that add routes and services to it. An **operator** makes the
Kubernetes objects of a gateway from a `Gateway` resource. State is kept in etcd or in
custom resources (the storage backends `etcd` and `crds`).

| Component | State | Operations | What is hard about it |
|---|---|---|---|
| Token stores (`pkg/storage/{etcd,crds}/token_store.go`) | a key or object, its version, its lease or age | CreateToken, UpdateToken, DeleteToken, GetToken | read-modify-write by version comparison with a retry limit; leases that end, or goroutines that collect expired tokens, in between; requests that time out and are executed later |
| Cluster stores (`pkg/storage/{etcd,crds}/cluster_store.go`) | one object per cluster | Create, Update, Delete, Get, List | the same, with two ways to compare; deletion and re-creation |
| Bootstrap server (`pkg/bootstrap/server.go`, the logging plugin's `capability.go`) | none of its own: tokens, cluster, keyring, and what Install makes | POST /bootstrap/join, /bootstrap/auth | up to six store calls per request, not in a transaction; concurrent requests for one ID; failures half-way; a fatal exit in Install |
| Agent bootstrap (`pkg/agent/agent.go`, `pkg/bootstrap/client.go`) | stored keyring, stored token | start, join, auth, persist, erase, run | crashes and client timeouts between any two of these; the gateway has acted and the agent does not know |
| Rule notifier (`pkg/rules`) | updateChannels, latest list | NotifyC, FetchRules, periodic loop | condition variable; bounded channels that drop; receivers that come and go |
| Agent rule stream (`pkg/agent/rules.go`) | three goroutines' positions, channels | forward, marshal, main loop, sender | goroutine per update; retry with replacement; a channel closed under its writer |
| Selectors and RBAC (`pkg/storage/selection.go`, `rbac_provider.go`, `taints.go`, `pkg/rbac`) | roles, bindings, clusters | SubjectAccess, the middleware, role and binding edits | bindings, roles and clusters are read in several calls while others edit them; some calls fail |
| OpenID Connect (`pkg/auth/openid`) | discovery, readiness lock, UserInfoCache | discovery, Handle, Get | two maps that must agree, a mutex held across a call to the provider, readiness in two steps |
| Gateway life cycle (`pkg/opnim/commands/gateway.go`, `pkg/config/lifecycler.go`, `pkg/webui`) | generation, reload channel, servers | run, UpdateConfig, start and shutdown of three servers | old and new generation overlap on the same addresses |
| Agent and gateway credentials (`pkg/tokens`, `pkg/pkp`, `pkg/ecdh`, `pkg/keyring`, `pkg/b2mac`, `pkg/auth/cluster`, `pkg/clients`) | none | encode, sign, verify, derive, merge, authenticate | two sides that must compute the same; parsers that must invert the encoders; keys of several attempts in one keyring |
| Gateway start and routes (`pkg/gateway/api.go`, plugins' `system.go`, `api.go`) | route table, Futures | configure routes, Configure, UseManagementAPI | plugins and gateway wait for each other's Futures; route order depends on goroutines |
| Rule aggregation (`plugins/cortex/pkg/cortex/aggregation.go`) | the one response of a request | forward per tenant, merge, answer | every forwarded request overwrites the response; one of several tenants fails |
| Remote metrics (`pkg/metrics/collector/remote.go`) | collectors, a channel per scrape | Describe, Collect, MustRegister | the handler selects between items and the end; a client that gives up |
| Management server and extensions (`pkg/management`) | method table, HTTP routes, a watch's known clusters | load, serve, forward, watch, stop | one bad plugin among several; clusters that come and go between poll and event; the end of the context at any point |
| opnim commands (`pkg/opnim/commands`) | none | calls of the management API | several calls with others' edits in between; what is done when one of several fails |
| System API (`pkg/plugins/apis/system`), key-value store | a server per loan, the plugin's keys | serveSystemApi, callbacks, Put, Get, ListKeys | the server's start races the end of its use; prefixes of one namespace in another |
| Operator (`pkg/sdk`) | about twenty objects, the work queue | Reconcile, watches, certificates | stale cache, partial application, deletion and garbage collection in between |

Interactions: opnim and plugins call the management API. The agent calls the bootstrap server, which calls the token, cluster and
keyring stores; authentication of later requests uses the keyring it stored. The rule
stream subscribes to the notifier. RBAC uses the selectors, and reads the cluster store.
Plugins reach the management API through the system API, which the start sequence of the
gateway waits for. The operator's certificates are what the gateway's pods mount.

## 2. Modules

Each module is one component; its header says what a step is and what is left out. A
step is one call to a store, a lock, a channel or another process; what happens between
two such calls is invisible to others and belongs to the step. Names are those of the
Go functions where there is one.

| Module | Models | Composed with |
|---|---|---|
| `AtomicToken` | abstract: a token that is created once, changed atomically, and ends once | |
| `TokenStore` | both token stores, request by request | implements `AtomicToken` |
| `AtomicCluster` | abstract: a cluster on which every call is one operation | |
| `ClusterStore` | both cluster stores, request by request (`Backend`) | implements `AtomicCluster` |
| `Bootstrap` | bootstrap server over tokens, cluster and keyring of one ID, both backends, with the logging plugin's Install | uses the atomicity of the two stores |
| `Credentials` | operators: tokens, signatures, pins, key exchange, keyrings, MACs, middleware, client, identity | |
| `AgentBootstrap` | the agent's start | EXTENDS `Bootstrap`: the agent's requests are the server's, and its keys those of `Credentials` |
| `RuleFinder` | operators: the search for rule groups, namespace by namespace | |
| `RuleNotifier` | updateNotifier and the periodic loop | |
| `RuleStream` | the agent's stream to the gateway | EXTENDS `RuleNotifier`: the stream is one of the receivers |
| `Selection` | Predicate, labelSelectorMatches, and the Kubernetes meaning as reference | |
| `SubjectAccess` | SubjectAccess, middleware, taints, role and binding stores | EXTENDS `Selection` |
| `Openid` | discovery, middleware, UserInfoCache | |
| `Configuration` | operators: documents, defaults, providers, storage backends, certificates | |
| `GatewayReload` | generations, Lifecycler, management, API and UI servers | |
| `Plugins` | operators: loading, schemes, capability backends, install commands | |
| `GatewayStartup` | routes, Futures, the plugins' Configure and UseManagementAPI | |
| `RuleAggregator` | the cortex plugin's rules of several tenants | |
| `RemoteCollector` | Describe, Collect, MustRegister | |
| `GatewayServing` | a gateway from its start to what it serves with cortex; cortex's route table | EXTENDS `GatewayStartup`, INSTANCEs `RuleAggregator` and `RemoteCollector` |
| `CortexAdmin` | operators: calls of the administration API | |
| `ManagementExtensions` | method table, gRPC and HTTP servers | |
| `ManagementServer` | WatchClusters over gRPC and HTTP while the server stops | EXTENDS `ManagementExtensions` |
| `ManagementAPI` | operators: routes, methods, messages and their validation | |
| `Opnim` | operators: the commands that call the management API | |
| `SystemAPI` | serveSystemApi, plugin callbacks, the key-value store | |
| `GatewayOperator` | Reconcile, watches, garbage collector | |
| `GatewayCerts` | issuers, certificates, secrets, mounts | EXTENDS `GatewayOperator` |

Stateless code (a codec, a route table, a command) is a module of operators. The MC module
of the run it belongs to has the facts about it as named `ASSUME`s, which TLC evaluates for
every input of small sets when the run starts. The other MC modules only give constants their
values.

Conventions:

* Where the code chooses the storage type at start, `backend` is a variable that Init
  chooses, so one run covers both (`TokenStore`, `Bootstrap`, `SubjectAccess`). In `ClusterStore`,
  where the proofs distinguish the two, it is the constant `Backend`.
* A call that fails for outside reasons is an action of its own, bounded by
  `MaxFaults`/`MaxTroubles`. A request that times out, or is cut off by the end of its process,
  leaves its write in `lost` (the stores) or `late` (`Bootstrap`, `SystemAPI`), from where it is
  executed later or never. A compared write is void once another one has been executed.
* History variables (`applied`, `missing`, `dropped`, `said`, ...) are marked *history* at
  their declaration and occur in no guard.
* etcd, the Kubernetes API server, cert-manager, the OpenID provider and gRPC are
  external: their definitions model what the code relies on, and are marked in the map.
* A definition introduced by a comment *Mutant:* is not part of a specification. It is a
  plausible error in the definition that follows, which the properties are shown to catch.

`Bootstrap` takes UpdateToken and UpdateCluster as atomic steps. `TokenImplementsAtomicToken`
justifies the first. `ClusterImplementsAtomicCluster` justifies the second for custom
resources, and for etcd as long as the cluster is not deleted and created anew while an
UpdateCluster call is between its read and its write. The writes of calls that failed stay under way
in `late`, and any handler of `Bootstrap` may meet them.

`ManagementServer` keeps the three steps of an event apart: it is recorded in `known`, then sent
(`sending`, `stream`), and received by the client (`view`). A panic in a handler ends the process
(`Panic`). `Parses` are the plugins whose HTTP path the mux accepts. In `RemoteCollector`, `gathers` has
the collectors at the time a scrape is served. In `GatewayStartup` a plugin makes its administration
clients after its configuration is set; when that fails it exits, and if its Configure was answered
by then, the gateway keeps routes to a plugin that does not run.

## 3. Runs

Every run: `tlc -config X.cfg M`. Sizes are distinct states.

**token_store** (`MCTokenStore`, `TokenStore.cfg`, 1,023,692). Three UpdateToken calls, two that
add a join capability and one that adds none, two DeleteToken calls, expiry, timeouts, two
attempts per call, on etcd or custom resources. Three updates are the least in which a call loses
two races, which uses up two attempts. `NoLostUpdate`: what is stored is the sum of the calls that
took effect. `TokenDiesWithLease`. `ImplementsAtomicToken`: both stores implement one abstract token.

**cluster_store** (`MCClusterStore`, `ClusterStore.cfg`, 545,504). Two creators, two capability
updates and one label update, one deletion, on custom resources, so the cluster can be deleted
and created anew under a pending update. `ModifiedIsRetried`, `ImplementsAtomicCluster`.

**bootstrap** (`MCBootstrap`, `Bootstrap.cfg`, 4,437,265). Three requests for one ID, two tokens,
two capabilities, both backends; a token that may join from the start and one that may not; one failing
store call, whose write may be executed at any later time, one DeleteCluster, revocation and expiry of tokens, and the logging plugin's Install with its secret and LoggingCluster, which may end the
process. Creation against creation, edit against edit and creation against edit all occur.
`SettledKept` holds on both backends: a bootstrap that nobody ran into stays good, on etcd one that also
began when no write of an earlier request was under way. `CrdsAckedKept`
needs the exclusive creation of custom resources. `InstalledIsServed`: an acknowledged logs
capability has credentials the cluster can get. `HalfBootstrapReported`: a cluster without keyring
is never silent. `EditNeedsJoin`.

**agent** (`MCAgentBootstrap`, `AgentBootstrap.cfg`, 605,460). One agent, two attempts, one crash,
one failing call, one deletion. Two attempts are needed for an abandoned request to race its
successor. `RunningAgentAccepted` (by the middleware of `Credentials`, with the keys the two sides
derived), `BootstrapsOnce`, `PersistedAgentRuns` (liveness). Assumptions: tokens, signatures and pins
read back (`TokenRoundTrip`, `DetachedSignature`, `PinRoundTrip`), a pinned chain is an unbroken one
with the pinned key in it (`PinnedChain`), both sides derive the same keys exactly if their roles
differ (`SidesAgree`), keyrings survive storing and merging (`KeyringKept`), the middleware lets in
exactly what one of the cluster's keys signed (`MiddlewareExact`, `HeaderRoundTrip`), and the
registry and the identity of a cluster (`FirstRegistrationStays`, `IdentityKept`, `OneSetPerClient`).

**rules** (`MCRuleStream`, `RuleStream.cfg`, 86,361). The stream and another receiver, one fetcher,
channels of one place instead of three, two changes of the rules, with lists of two documents and
of one. With one place a channel is full after one update. `SubscriberCurrent`, `ReportedComplete`,
`PanicOnlyAtShutdown`, `FetchCatchesUp` and `EveryUpdateHandled` (liveness). Assumption `SearchFinds`:
whatever comes and goes between the listings of a search, a sound group is found once with its
sound rules.

**rbac** (`MCSubjectAccess`, `SubjectAccess.cfg`, 1,693,814 up to symmetry). Two roles, two bindings,
two clusters, both backends, two edits and one failing read between the reads of one call. Roles and
bindings are interchangeable; the run has no liveness. `UndisturbedExact`, `NoPhantomAccess`,
`SteadyAccessKept`. Its assumptions compare `Predicate` with the Kubernetes meaning on every selector
of one key, two values and up to two requirements, in every order.

**openid** (`MCOpenid`, `Openid.cfg`, 382,416). Two requests at a time, repeated; two opaque tokens,
two users, an ID token, no header; the provider reassigns or revokes a token twice; discovery is
tried twice and then given up. Two requests with two tokens of one user are what makes the maps disagree if they can.
`OneTokenPerUser`, `RequestsAnswered` (liveness).

**reload** (`MCGatewayReload`, `GatewayReload.cfg`, 106,434). Three UpdateConfig calls, three generations.
Three generations are the least in which a generation that was itself reloaded is reloaded.
`OneReloadPerGeneration`, `ApiAddressFree`, `ReloadFinishes` (liveness). Assumptions about
`Configuration`: a file and an update load the same objects (`LoadsSame`, `NearestFile`), defaults
(`DefaultsStable`, `AgentDefaultsStable`, `SearchesAsConfigured`), providers and stores
(`NoauthByName`, `StorageBackends`), certificates (`ChainEndsInCA`, `ClientNeedsOwnKey`).

**startup** (`MCGatewayServing`, `GatewayServing.cfg`, 339,521). A plugin that starts as cortex does,
one as logging does, and one that waits for nothing; their paths nest, overlap (`/r`, `/rz`) and touch
reserved ones. Once it serves: requests for the rules of up to three tenants in any order, with every
combination of replies, or two overlapping scrapes of two collectors with two items each through a
channel of two, so that an empty answer is wrong for some. Three tenants are the least in which an error lies between two answers.
`RoutesReachPlugins`, `StartupCompletes` (liveness). `RulesAnswer`: an answer of 200 is the replies that
were merged, well formed and of this request alone, any other is one tenant's own error (what it does not
say is in section 6). `AnswerIsPrefix`: a scrape lacks nothing but what the channel may still hold.
Assumptions: cortex's routes (`ForwardedAfterAuth`, `AlertsByPrefix`, `RulesByPrefix`), plugins
(`DispensedAsImplemented`, `SchemesKnown`), backends and their commands (`FirstBackendKept`,
`OptionsAnywhere`, `InstallCommandAlone`), the administration API (`TenantsReadBack`,
`WritesForOneCluster`, `AnswersWhole`, `ClientsOrExit`).

**management** (`MCManagementServer`, `ManagementServer.cfg`, 359,930). Two plugins with services of one
name in two packages, either of which fails to describe itself or exits; one call, over gRPC or HTTP,
to an extension or to WatchClusters, which may be made twice; two clusters that change twice, and events
that are sent, lost or received meanwhile; the context ends at any time. One of the two HTTP paths does
not parse. `WorkingIsServed`, for contexts that outlast the loading of the extensions; `WatchInStep`: what
the handler has recorded is what its client will know, and no event repeats what the client knows;
`BothStop` and `ViewCatchesUp` (liveness).
Assumptions, for all paths of up to four segments: `EveryMethodRouted`, `RoutesDisjoint`,
`ExtensionsHideNothing`, `PathNamesObject`, `CreatesAreNamed`; and for the commands: labels
(`LabelsKept`, `FailedMeansUnchanged`, `LabelsLost`), commands over several objects (`StopsAtFirst`,
`OneRoleAtATime`, `CommandsDistinct`), what they send and show (`CommandsAccepted`, `MatrixShowsAccess`,
`QueryForAll`, `ReloadKeeps`, `EtcdctlNeedsCerts`), and the bootstrap command (`BootstrapsOnce`,
`WaitsForAll`).

**system** (`MCSystemAPI`, `SystemAPI.cfg`, 185,114). A plugin that uses the store, keys of another one
whose name begins like the first one's, and a plugin with a malformed module path that gets the
management API and no store; exits, ended contexts and failing calls at any point, and puts that are
executed after they failed; two store calls in a session, so that a key is put and then listed. A storage
backend without key-value store ends the process. `NothingLeftServing`, `ListsOwnKeys`, `ServeEnds` (liveness).

**operator** (`GatewayCerts`, `GatewayCerts.cfg`, 262,977). The operator starts with no objects or over
those of an earlier gateway of the same name. One edit (creation, change, deletion, an unknown auth
provider, an unusable address) at any of the twenty positions of a reconciliation, and one trouble: the
first, the last or a middle call fails, or an object is deleted, of a kind that is watched or of one that
is not. What a failing call leaves undone depends only on its place in the list.
`OneReading`, `Converges` and `PodsCanStart` (liveness).

Each property is violated by a mutated definition listed in `PROJECT.json`: a dropped comparison, a
missing broadcast, an error that is logged and dropped, a lock that is not taken, and so on.

## 4. Fairness

Safety runs use no fairness. For liveness:

* `AgentBootstrap`: weak fairness of the agent's own steps. The agent's pod is restarted by
  Kubernetes, and it never blocks on anything but calls with a client timeout. Crashes are
  bounded by `MaxCrashes`. Nothing is assumed of the gateway.
* `RuleStream`: weak fairness of each goroutine, which is what the Go scheduler gives, and
  of the sender's POST in one of its outcomes. Strong fairness of `PostAccepted(i)` and of
  `FindGroups`: a gateway, or a Kubernetes API, that refuses everything for ever cannot be
  given anything; one that accepts again and again is enough.
* `Openid`: weak fairness of each request, and of discovery while it holds the lock; strong fairness of taking the
  cache's mutex. A Go `sync.Mutex` goes into starvation mode after one millisecond and then
  serves its waiters in order. The provider's answer is part of the request's steps: its
  `http.DefaultClient` has no timeout, so the property is conditional on answers coming back.
* `GatewayReload`, `GatewayServing`, `ManagementServer`, `SystemAPI`: weak fairness of each
  goroutine. None of it applies once the process has ended. In `GatewayServing` timers and
  exits of plugins are possible and not fair; they end the process, which the property allows.
  Only the start is fair there; requests may come or not. In `ManagementServer` a plugin answers
  a call or dies, the ticker of a watch ticks, and its client reads what arrives; a watch may go on for ever, and clusters need
  not change. `ViewCatchesUp` is about watches that go on while the clusters have come to rest.
  In `SystemAPI` nothing is assumed of the plugin.
* `GatewayCerts`: weak fairness of the watch, of the controller together with the garbage
  collector, and of cert-manager. A failed reconciliation is queued again.

Deadlock is checked in the runs of the stores, of bootstrapping, of the agent and of RBAC: a state
without successor would be an error there, since the completion of all calls is an explicit stuttering
step where calls do not repeat. The other runs set `CHECK_DEADLOCK FALSE`: a process may exit, or all its work may be done.

## 5. Proofs

TLC's instances are small; the theorems hold for every value of the constants allowed by
the named assumptions. Seven modules hold them.

**`TokenStore_proofs`** (both backends; assumption: finitely many UpdateToken calls, at least one attempt).
`NoLostUpdate` is not inductive: a call between read and transaction carries a copy that may
or may not be current. The invariant `IInv` adds

* `KeyInv`: while the key exists its version is one more than the number of transactions that
  took effect; an absent key is completely absent;
* `SnapInv`: the version of a pending copy is in the range of versions so far, and if the
  comparison succeeds the copy *is* the key;
* `AppliedInv`: a transaction still under way after a timeout belongs to a call that returned
  an error and has not taken effect;
* `FailsInv`: each race a call lost is paid for by a transaction that took effect or by the
  token's end, which gives the retry limit;
* `RevokeInv`: the deferred revoke runs with the result in hand.

From it: `TokenTypeOK`, `TokenNoLostUpdate`, `TokenReportsAreTrue`, `TokenLease`,
`TokenRetryLimit`, `TokenNoResurrection` (an action property), `TokenDeletedOnce` (with the
further strengthening `DeletedInv`: after a deletion that was reported the token is gone), and
`TokenImplementsAtomicToken`, step by step against the abstract module.

**`ClusterStore_proofs`** (no bound on calls). The invariant says when the copy of a pending
UpdateCluster is the stored cluster: write numbers never repeat, and etcd's versions do not
repeat in a key that is created once. The theorems are about `StableSpec`, which is `Spec` with
one restriction on etcd: there the cluster is not created anew. On custom resources it restricts
nothing. `ClusterTypeOK`, `ClusterModifiedIsRetried`, `ClusterImplementsAtomicCluster`.

**`RuleNotifier_proofs`** (any receivers, fetchers, capacity, number of changes). The invariant
joins the two properties with `ListInv`: a channel is in updateChannels exactly while its
receiver is subscribed or its removal is pending. `NotifierTypeOK`, `NotifierNoLostWakeup`,
`NotifierSubscriberCurrent`, `NotifierNothingAfterRemoval`.

**`Openid_proofs`** (any requests, tokens, users). `MutexInv`: between lock and unlock exactly
one request is inside Get, so the maps change in its hands only. `UserInv` then shows that every
path through Get leaves them in agreement, `LockInv` that requests wait until the cache is there.
`OpenidTypeOK`, `OpenidOneTokenPerUser`, `OpenidKnownTokenCached`, `OpenidUserFromProvider`,
`OpenidNeverWithoutCache`.

**`Bootstrap_proofs`** (any finite set of requests, any tokens, capabilities, faults and deletions).
`JoinInv` ties the positions at which a handler can edit, and the edits under way in `late`, to the token
that was seen, which gives `BootstrapEditNeedsJoin`.
`BootstrapHalfReported` is inductive with the types alone. `BootstrapCrdsAckedKept` needs `CrdsInv`, for
custom resources and as long as nothing is deleted: `CapInv`, from its creation or edit on a request's
capability is on the cluster; `FreshInv`, without a cluster there is no keyring and nobody has read one;
`FounderInv`, at most one request created the cluster, nobody has read a keyring before it stores its
own, and whatever is read after that has its key. So no merge of two racing edits can lose it. A request
whose creation is still under way counts like one that stands before its keyring (`Holds`): at most one
write under way can ever create the cluster, and none once it exists.

**`GatewayReload_proofs`** (any number of generations and updates). `SignalInv`: a successful update was
received by the reader of its generation, which never waits again; `ApiInv`: only the current
generation's API server is up, and only while run() is in ListenAndServe. `ReloadOnePerGeneration`,
`ReloadApiAddressFree`, `ReloadApiListens` (an action property).

**`SubjectAccess_proofs`** (any clusters, roles, bindings, subjects, edits and failing reads).
`SeenInv`, `ListedInv` and `RoleInv` say that what the call holds was stored at some time of the call;
the history `seen` only grows. `AccessNoPhantom` has one hypothesis, `SelectorsSound`: what
labelSelectorMatches lets through, Kubernetes would. It is false for some selectors with NotIn (section 6),
and for the others an induction over their requirements; `AgreesWithoutNotIn` evaluates it for all
small ones.

Only model-checked: all liveness properties (the prover does not do fairness or ENABLED), the
meaning of selectors on sequences of requirements (an induction over data), and the safety
properties of the other modules.

## 6. What the code does not promise

Modelling met places where a comment, a document or a test reads as if more were true than the
code guarantees. Where a definition is named, it states that reading, has a comment
*Does not hold*, and is in no run. To see TLC's counterexample, add the definition to the
configuration named.

| Statement | Code | Reproduce |
|---|---|---|
| "the cluster will be updated with the new capability" (`pkg/bootstrap/server.go:123`) | on etcd CreateCluster is an unconditional Put (`pkg/storage/etcd/cluster_store.go:23`); of two requests that both found no cluster, the second drops the capability of the first, and both are answered 200 | `AckedCapabilityKept` as an invariant in `Bootstrap.cfg` |
| a failed bootstrap leaves nothing behind that harms a later one | the Put of CreateCluster, or of the keyring, that timed out on etcd may be executed after another request has bootstrapped the ID, and replaces its cluster or keyring (`cluster_store.go:23`) | `SettledKept` in `Bootstrap.cfg`, without the second disjunct of `Underway` |
| "Once deleted, the downstream cluster will no longer have permissions" (`docs/content/en/guides/clusters.md:48`) | DeleteCluster removes the cluster and leaves its keyring (`pkg/management/clusters.go:28`) | `DeletedLosesAccess` in `Bootstrap.cfg` |
| "the object has been modified, retrying" (`pkg/storage/etcd/etcd.go:21`) | the version of an etcd key starts over at 1 after a deletion, so an old copy may pass the comparison (`cluster_store.go:120`) | `Backend = "etcd"` in `ClusterStore.cfg` |
| the channel "will initially contain the latest rule group list" (`pkg/rules/types.go:16`) | NotifyC makes an empty channel, and only changes are sent to it (`pkg/rules/notifier.go:37`) | `InitiallyLatest` in `RuleStream.cfg` |
| "updated rules were received during backoff, retrying immediately" (`pkg/agent/rules.go:126`) | every update is marshalled in a goroutine of its own, so an older list may replace a newer one (`rules.go:64`) | `NewerReplaces` in `RuleStream.cfg` |
| "evaluate the current RBAC rules for that user" (`docs/content/en/guides/access_control.md:10`) | bindings, roles and clusters are read one after the other (`pkg/storage/rbac_provider.go:57`) | `CurrentRules` in `SubjectAccess.cfg` |
| "Kubernetes-style label selector" (`docs/content/en/guides/access_control.md:39`) | a NotIn requirement that matches returns true without looking at the requirements after it (`pkg/storage/selection.go:67`) | drop the NotIn condition of `AgreesWithoutNotIn` in `MCSubjectAccess` |
| "waiting for servers to shut down" (`pkg/opnim/commands/gateway.go:127`) | waitctx.Wait does not wait for the goroutines (`pkg/util/waitctx/context.go:73`) | `ServersShutDown` in `GatewayReload.cfg` |
| "should update the config" (`pkg/management/config_test.go:59`) | the reload reads the configuration file again, which UpdateConfig has not written (`commands/gateway.go:35`) | `UpdateKept` in `GatewayReload.cfg` |
| "shutting down ui server" (`pkg/gateway/gateway.go:183`) | Shutdown needs the mutex that ListenAndServe holds while it serves (`pkg/webui/webui.go:156`) | `UIShutDown` in `GatewayReload.cfg` |
| an HTTP request reaches the extension it names (`pkg/management/extensions_test.go:166`) | the path has no package, so of two services of one name one answers for both (`extensions.go:151`) | `HttpReachesOwner` in `ManagementServer.cfg` |
| CanInstall "Returns an error if installing the capability would fail" (`pkg/plugins/apis/capability/plugin.go:16`) | deleting a cluster leaves its LoggingCluster, CanInstall does not look for it, and Install then ends the gateway | `CanInstallPredicts` as an invariant in `Bootstrap.cfg` |
| "should collect metrics from remote collectors" (`pkg/metrics/collector/remote_test.go:21`) | the handler selects between the channel and the end of the collectors, and may leave what the channel still holds (`remote.go:153`) | `Scrape!AllCollected` in `GatewayServing.cfg`, through a definition like that of `AnswerIsPrefix` |
| an answer of 200 has the rules of all tenants (`plugins/cortex/pkg/cortex/aggregation.go:134`) | a reply of 200 whose status is not success is logged and left out of an answer of success | `Rules!NoErrorPassedOver` in `GatewayServing.cfg`, in the same way |
| the answer, which is not compressed, is not labelled so (`aggregation.go:98`) | the response is not reset when a reply is passed over, so the Content-Encoding of the last tenant's reply stays on it | `Rules!LabelTrue` in `GatewayServing.cfg`, in the same way |
| extensions of working plugins are served (`pkg/management/extensions.go:51`) | plugins that are asked when the context is done are skipped; a call that waited in the listener gets Unimplemented before the server stops | `AlwaysServed` as an invariant in `ManagementServer.cfg` |
| the gRPC server stops with the context (`pkg/management/server.go:170`) | GracefulStop waits for WatchClusters, which ends only when its client does | `GrpcStops` as a property in `ManagementServer.cfg` |
| the identity provider "Defaults to "kubernetes"" (`pkg/config/v1beta1/agent_config.go:21`) | the agent never calls SetDefaults | `SetAgentDefaults` in `Configuration` |
| `delete <role-id> [<role-id>...]` (`pkg/opnim/commands/rbac.go:81`) | takes at most one argument (`rbac.go:84`), and none | assumption `OneRoleAtATime` |
| "Updating cluster labels failed" (`pkg/opnim/commands/clusters.go:127`) | is reported exactly when the labels were already as asked | assumption `FailedMeansUnchanged` |

Other things a reader of the code may not expect:

* A plugin that asks for the path prefix `/` hides the bootstrap route if its routes are added first
  (`pkg/gateway/api.go:250`).
* A WatchClusters request without KnownClusters is valid (`pkg/management/validation_test.go:101`) and
  makes the handler read a field of a nil message, which ends the process (`pkg/management/clusters.go:60`,
  `WatchWithoutKnown`).
* A cortex plugin that exits after its Configure was answered, because its certificates do not load a
  second time, leaves its routes in the gateway (`plugins/cortex/pkg/cortex/system.go:42`).
* Discovery of the OpenID provider has no retry limit of its own and gets the library's default; after
  that every request is answered 503 until the gateway is restarted (`pkg/auth/openid/openid.go:122`).
* With custom resources a `/bootstrap/auth` request with an expired token is answered 500, where
  `pkg/bootstrap/server_test.go:251` has 401, since GetToken answers with an error of its own
  (`pkg/storage/crds/token_store.go:76`).
* Custom resources have no key-value store, so a gateway on them with a system plugin panics
  (`pkg/gateway/gateway.go:202`, `NoStore`); IsValid, which would tell, is not called. Their keyring store ignores
  its prefix. (`StorageBackends`)
* The default of a gRPC address is set together with that of the HTTP address and not by itself
  (`DefaultsStable`). The noauth server is started for a provider of that name, not of that type
  (`pkg/opnim/commands/gateway.go:51`, `NoauthByName`).
* Two concurrent calls of RenderInstallerCommand share one template, so one may be given the command of
  the other's capability (`pkg/capabilities/template.go:185`, `InstallCommandAlone`).
* A namespace that cannot be listed is skipped, and its rule groups look deleted
  (`pkg/rules/prometheusrule.go:77`, `SearchFinds`).
* Under `/api/prom` the ruler's alerts are hidden by the alertmanager's route (`AlertsByPrefix`). A query
  for no cluster is read as one for a tenant with an empty name (`TenantsReadBack`).
* A label command sends all labels, so of two concurrent ones the second takes back what the first did
  (`LabelsLost`). A key without a value is dropped silently (`pkg/opnim/util/kv.go:20`).
* The bootstrap command takes a deployment whose status is not filled in yet for one that runs
  (`pkg/opnim/commands/bootstrap.go:61`). etcdctl panics for the storage type etcd without its section
  (`EtcdctlNeedsCerts`).

## 7. What is not modelled

* **Cryptography** itself: digests, signatures and shared secrets are terms, different terms are
  different values. The verdict on an ID token is nondeterministic. Text forms (of tokens, pins,
  headers) are sequences of the parts their parsers look for.
* **What only shows or checks text**: rendering of tables, the logger and its adapters, the regular
  expressions of names and labels (a field that fails its own rule is `Bad`), the text of times and
  durations, usage texts. They hold no state and no property here is about them.
* **Reads without steps**: CertsInfo, the collector of the management server, the `list` and `show`
  commands, the static assets of the web UI.
* **The noauth provider**: a development server that leaves every state change to a library.
* **Delete of the key-value store**, which plugins are not offered and the gateway does not call.
* **Generated code (deep copies, protocol buffers), build scripts, Helm charts, test utilities.**
* **Time**: durations are not modelled. A timer or lease ends at any moment it can.
* **Other IDs**: stores are modelled for one key. Different tokens and clusters have different
  keys and no operation touches two, except the lists, which are reads.

`PROJECT.json` lists every component with its status and the reason.

## 8. Further work

* The watch in `ManagementServer` and the calls of SubjectAccess read the cluster store in one step
  each. `ClusterImplementsAtomicCluster` justifies it for one cluster; a list of several is one read of
  etcd or of the API server.
* Proofs that are within reach: `BootstrapsOnce` of the agent, which needs what each position of the
  agent knows of the gateway, and `ReportedComplete` of the rule stream. `SteadyAccessKept` needs the
  exactness of selectors where `AccessNoPhantom` needs one direction.
* etcd with cluster IDs that are created anew: the abstract cluster that the store does implement there
  has updates that may be applied to a successor, and `Bootstrap` could be checked over that one.
