------------------------------ MODULE Bootstrap ------------------------------
(***************************************************************************)
(* The gateway's bootstrap server (pkg/bootstrap/server.go): concurrent    *)
(* POST /bootstrap/auth requests that all carry the same client ID, against *)
(* the cluster, token and keyring stores. Each store call is one step;     *)
(* UpdateToken and UpdateCluster are atomic because the stores implement    *)
(* them so (TokenStore, ClusterStore). The last steps install the asked    *)
(* capability through the store of capability backends: for logs that is   *)
(* the logging plugin (plugins/logging), which makes Kubernetes objects.   *)
(* Management calls that delete the cluster or end a token, and the        *)
(* failure of Install, which terminates the gateway process, may happen    *)
(* between any two steps. The write of a call that failed, or was cut off  *)
(* by the end of the process, may be executed by the store much later.     *)
(*                                                                         *)
(* The key a request derives from its Diffie-Hellman exchange is named by  *)
(* the request itself. Clusters with other IDs share only the tokens, of   *)
(* which this cluster sees the usage count and its own join capability.    *)
(***************************************************************************)
EXTENDS Naturals, FiniteSets

CONSTANTS Requests,    \* POST /bootstrap/auth requests
          Tokens,      \* bootstrap tokens
          TokenOf,     \* TokenOf[r]: the token that signed the request
          JoinTokens,  \* those created with the capability to join the cluster
          CapOf,       \* CapOf[r]: the capability the request asks for
          Logs,        \* the capability of the logging plugin
          MaxFaults,   \* bound on store calls that fail
          MaxDeletes   \* bound on DeleteCluster calls

Caps == {CapOf[r] : r \in Requests}

ASSUME BootstrapAssumption ==
    /\ IsFiniteSet(Requests)
    /\ TokenOf \in [Requests -> Tokens]
    /\ JoinTokens \subseteq Tokens
    /\ MaxFaults \in Nat
    /\ MaxDeletes \in Nat

VARIABLES
    backend,  \* the storage type in the gateway's configuration: "etcd" or "crds"
    tokens,   \* tokens[t]: its state, usage count, and whether it may join the cluster
    cluster,  \* the stored cluster: whether it exists, and its capabilities
    keyring,  \* the stored gateway keyring of the cluster: exists, keys
    secrets,  \* user secrets with the label of the cluster, by the request whose
              \* Install made them (their names are drawn at random)
    logging,  \* LoggingClusters with its label, by the secret they name
    pc,       \* where the handler of each request is, or the status it sent
    mayJoin,  \* mayJoin[r]: the token read by r has the join capability
    read,     \* read[r]: keys of the keyring read by handleEdit
    late,     \* writes still under way to a store when their call has failed
    faults, deletes,
    crowded,  \* history: requests whose handler did not run alone
    settled   \* history: requests that ran alone, were answered 200, and whose
              \* cluster has not been deleted since

stores == <<tokens, cluster, keyring>>
objects == <<secrets, logging>>
history == <<crowded, settled>>
vars == <<backend, stores, objects, pc, mayJoin, read, late, faults, deletes, history>>

\* What a request is answered; "failed" is the 500 that carries an error of
\* handleCreate or handleEdit, "500" any other.
Statuses == {"200", "400", "401", "404", "409", "500", "503", "failed"}
Steps == {"getToken", "getCluster", "canCreate", "canEdit",
          "createCluster", "createUpdateToken", "put", "putCreate",
          "editUpdateToken", "editUpdateCluster", "editGet",
          "install", "installSecret", "installCluster"}
InFlight(r) == pc[r] \in Steps

\* The steps that write to a store or to Kubernetes, and a write under way.
Writes == {"createCluster", "createUpdateToken", "editUpdateToken", "editUpdateCluster",
           "put", "putCreate", "installSecret", "installCluster"}
WriteOf(r) == [by |-> r, write |-> pc[r]]

Done(r) == pc[r] \in Statuses \cup {"dead"}

NoCluster == [exists |-> FALSE, caps |-> {}]
NoKeyring == [exists |-> FALSE, keys |-> {}]

Init ==
    /\ backend \in {"etcd", "crds"}
    /\ tokens = [t \in Tokens |-> [state |-> "live", usage |-> 0, join |-> t \in JoinTokens]]
    /\ cluster = NoCluster
    /\ keyring = NoKeyring
    /\ secrets = {}
    /\ logging = {}
    /\ pc = [r \in Requests |-> "idle"]
    /\ mayJoin = [r \in Requests |-> FALSE]
    /\ read = [r \in Requests |-> {}]
    /\ late = {}
    /\ faults = 0
    /\ deletes = 0
    /\ crowded = {}
    /\ settled = {}

-----------------------------------------------------------------------------
Goto(r, l) == pc' = [pc EXCEPT ![r] = l]

\* Mutant: the error of the store is dropped and the request is answered 200.
FaultIgnored(r) ==
    /\ faults < MaxFaults
    /\ faults' = faults + 1
    /\ Goto(r, "200")

\* A store call fails with an error that is not ErrNotFound, and the handler
\* answers 500.
Fault(r) ==
    /\ faults < MaxFaults
    /\ faults' = faults + 1
    /\ Goto(r, IF pc[r] \in {"getToken", "getCluster"} THEN "500" ELSE "failed")

\* The token is found by GetToken or UpdateToken. An expired token is deleted
\* by etcd itself. As a custom resource it stays until garbage collection, and
\* only GetToken looks at its age.
GetTokenFinds(t) == tokens[t].state = "live"
UpdateTokenFinds(t) == tokens[t].state # "gone"

\* The cluster and the keyring of the ID are found, by whatever is read now.
ClusterFound == cluster.exists
KeyringFound == keyring.exists

\* The call that the handler of r is at sends a write: the updates have found what they
\* are to change.
Sends(r) ==
    /\ pc[r] \in Writes
    /\ pc[r] \in {"createUpdateToken", "editUpdateToken"} => UpdateTokenFinds(TokenOf[r])
    /\ pc[r] = "editUpdateCluster" => ClusterFound
    /\ pc[r] = "put" => backend = "etcd" \/ KeyringFound

\* A call that writes fails. The write is executed later, or not at all.
WriteFault(r) ==
    /\ Fault(r)
    /\ \/ UNCHANGED late
       \/ Sends(r) /\ late' = late \cup {WriteOf(r)}

\* What a write leaves of the others under way. An update is compared with what
\* it has read, by both token and cluster stores and by the CRD keyring store: it
\* is void once the object has been written.
StoreCluster(new, others) ==
    /\ cluster' = new
    /\ late' = {w \in others : w.write # "editUpdateCluster"}

StoreToken(t, join, others) ==
    /\ tokens' = [tokens EXCEPT ![t].usage = @ + 1, ![t].join = @ \/ join]
    /\ late' = {w \in others : w.write \notin {"createUpdateToken", "editUpdateToken"} \/ TokenOf[w.by] # t}

StoreKeyring(keys, others) ==
    /\ keyring' = [exists |-> TRUE, keys |-> keys]
    /\ late' = {w \in others : backend = "etcd" \/ w.write # "put"}

\* The handler of q runs, or has left something on its way to etcd, where cluster
\* and keyring are put unconditionally.
Underway(q) == InFlight(q) \/ (backend = "etcd" /\ \E w \in late : w.by = q)

\* A request arrives. Its Authorization header may be missing or not verify.
HandleBootstrapAuth(r) ==
    /\ pc[r] = "idle"
    /\ pc' \in {[pc EXCEPT ![r] = l] : l \in {"getToken", "401"}}
    /\ crowded' = LET others == {q \in Requests : Underway(q)}
                  IN  IF others = {} THEN crowded ELSE crowded \cup others \cup {r}
    /\ UNCHANGED <<backend, stores, objects, mayJoin, read, late, faults, deletes, settled>>

\* The body of the request is complete, or it is not.
Validate == {"getCluster", "400"}

\* The token is looked up, then the body is parsed and validated. The store's
\* storage.ErrNotFound is answered 401; the not-found error the CRD store
\* makes for an expired token is another one, and is answered 500.
GetToken(r) ==
    LET t == TokenOf[r]
    IN  /\ pc[r] = "getToken"
        /\ \/ /\ GetTokenFinds(t)
              /\ mayJoin' = [mayJoin EXCEPT ![r] = tokens[t].join]
              /\ \E l \in Validate : Goto(r, l)
              /\ UNCHANGED faults
           \/ /\ ~GetTokenFinds(t)
              /\ Goto(r, IF tokens[t].state = "expired" THEN "500" ELSE "401")
              /\ UNCHANGED <<mayJoin, faults>>
           \/ Fault(r) /\ UNCHANGED mayJoin
        /\ UNCHANGED <<backend, stores, objects, read, late, deletes, history>>

\* The cluster has the capability the request asks for.
Has(r) == CapOf[r] \in cluster.caps

\* Mutant: the token's join capability is not asked for.
DecisionWithoutJoin(r) ==
    IF ~ClusterFound THEN "canCreate"
    ELSE IF Has(r) THEN "409" ELSE "canEdit"

\* Whether the cluster is to be created or edited is decided here, on what the
\* store says now; a capability it already has is a conflict.
Decision(r) ==
    IF ~ClusterFound THEN "canCreate"
    ELSE IF Has(r) THEN "409"
    ELSE IF mayJoin[r] THEN "canEdit" ELSE "401"

GetCluster(r) ==
    /\ pc[r] = "getCluster"
    /\ \/ Goto(r, Decision(r)) /\ UNCHANGED faults
       \/ Fault(r)
    /\ UNCHANGED <<backend, stores, objects, mayJoin, read, late, deletes, history>>

\* The capability store: the capability is unknown (404), or its backend refuses
\* (503).
CannotInstall == {"404", "503"}

\* No secret can be derived from the client's public key (500), the capability
\* cannot be installed, or the handler goes on.
CanInstall(r) ==
    /\ \/ /\ pc[r] = "canCreate"
          /\ \E l \in {"500", "createCluster"} \cup CannotInstall : Goto(r, l)
       \/ /\ pc[r] = "canEdit"
          /\ \E l \in {"500", "editUpdateToken"} \cup CannotInstall : Goto(r, l)
    /\ UNCHANGED <<backend, stores, objects, mayJoin, read, late, faults, deletes, history>>

-----------------------------------------------------------------------------
(* handleCreate *)

NewCluster(r) == [exists |-> TRUE, caps |-> {CapOf[r]}]

\* Mutant: the custom resource is applied rather than created.
CreateOverwrites(r) ==
    /\ pc[r] = "createCluster"
    /\ StoreCluster(NewCluster(r), late)
    /\ Goto(r, "createUpdateToken")
    /\ UNCHANGED <<backend, tokens, keyring, objects, mayJoin, read, faults, deletes, history>>

\* etcd: an unconditional put. Custom resources: Create fails if it exists.
MayCreate == backend = "etcd" \/ ~cluster.exists

CreateCluster(r) ==
    /\ pc[r] = "createCluster"
    /\ \/ /\ MayCreate
          /\ StoreCluster(NewCluster(r), late)
          /\ Goto(r, "createUpdateToken")
          /\ UNCHANGED faults
       \/ /\ ~MayCreate
          /\ Goto(r, "failed")
          /\ UNCHANGED <<cluster, late, faults>>
       \/ WriteFault(r) /\ UNCHANGED cluster
    /\ UNCHANGED <<backend, tokens, keyring, objects, mayJoin, read, deletes, history>>

\* One UpdateToken call: the usage count goes up, and handleCreate also adds
\* the capability to join the cluster.
UpdateToken(r, join, next) ==
    LET t == TokenOf[r]
    IN  /\ \/ /\ UpdateTokenFinds(t)
              /\ StoreToken(t, join, late)
              /\ Goto(r, next)
              /\ UNCHANGED faults
           \/ /\ ~UpdateTokenFinds(t)
              /\ Goto(r, "failed")
              /\ UNCHANGED <<tokens, late, faults>>
           \/ WriteFault(r) /\ UNCHANGED tokens
        /\ UNCHANGED <<backend, cluster, keyring, objects, mayJoin, read, deletes, history>>

CreateUpdateToken(r) ==
    /\ pc[r] = "createUpdateToken"
    /\ UpdateToken(r, TRUE, "put")

-----------------------------------------------------------------------------
(* handleEdit *)

EditUpdateToken(r) ==
    /\ pc[r] = "editUpdateToken"
    /\ UpdateToken(r, FALSE, "editUpdateCluster")

EditedCluster(r) == [cluster EXCEPT !.caps = @ \cup {CapOf[r]}]

EditUpdateCluster(r) ==
    /\ pc[r] = "editUpdateCluster"
    /\ \/ /\ cluster.exists
          /\ StoreCluster(EditedCluster(r), late)
          /\ Goto(r, "editGet")
          /\ UNCHANGED faults
       \/ /\ ~cluster.exists
          /\ Goto(r, "failed")
          /\ UNCHANGED <<cluster, late, faults>>
       \/ WriteFault(r) /\ UNCHANGED cluster
    /\ UNCHANGED <<backend, tokens, keyring, objects, mayJoin, read, deletes, history>>

EditGetKeyring(r) ==
    /\ pc[r] = "editGet"
    /\ \/ /\ KeyringFound
          /\ read' = [read EXCEPT ![r] = keyring.keys]
          /\ Goto(r, "put")
          /\ UNCHANGED faults
       \/ /\ ~KeyringFound
          /\ Goto(r, "failed")
          /\ UNCHANGED <<read, faults>>
       \/ Fault(r) /\ UNCHANGED read
    /\ UNCHANGED <<backend, stores, objects, mayJoin, late, deletes, history>>

-----------------------------------------------------------------------------
(* The end of both: store the keyring, install the capability, answer. *)

\* Mutant: the merge keeps the stored keys and forgets the new one.
OldKeysOnly(r) == IF read[r] = {} THEN {r} ELSE read[r]

\* The keyring to store: the new key, merged with those handleEdit has read.
Merge(r) == read[r] \cup {r}

\* The keyring is stored whatever is there.
Overwrite(r) ==
    /\ StoreKeyring(Merge(r), late)
    /\ Goto(r, "install")
    /\ UNCHANGED faults

\* etcd overwrites. The CRD store looks first whether there is a keyring, and
\* then overwrites it (a conflict is retried with the same data) or creates it.
PutKeyring(r) ==
    /\ pc[r] = "put"
    /\ \/ (backend = "etcd" \/ KeyringFound) /\ Overwrite(r)
       \/ /\ backend = "crds" /\ ~KeyringFound
          /\ Goto(r, "putCreate")
          /\ UNCHANGED <<keyring, late, faults>>
       \/ WriteFault(r) /\ UNCHANGED keyring
    /\ UNCHANGED <<backend, tokens, cluster, objects, mayJoin, read, deletes, history>>

CreateKeyring(r) ==
    /\ pc[r] = "putCreate"
    /\ \/ ~KeyringFound /\ Overwrite(r)
       \/ /\ KeyringFound
          /\ Goto(r, "failed")
          /\ UNCHANGED <<keyring, late, faults>>
       \/ WriteFault(r) /\ UNCHANGED keyring
    /\ UNCHANGED <<backend, tokens, cluster, objects, mayJoin, read, deletes, history>>

Answer(r) ==
    /\ Goto(r, "200")
    /\ settled' = IF r \in crowded THEN settled ELSE settled \cup {r}

\* Mutant: the LoggingClusters are not looked at.
InstallsAnyway(r) == r \in Requests

\* Install of the logging plugin lists the LoggingClusters of the cluster. One that
\* exists already is an error.
NoLoggingCluster(r) == logging = {}

\* The cortex plugin has nothing to install.
InstallCapabilities(r) ==
    /\ pc[r] = "install"
    /\ \/ CapOf[r] # Logs /\ Answer(r)
       \/ /\ CapOf[r] = Logs /\ NoLoggingCluster(r)
          /\ Goto(r, "installSecret") /\ UNCHANGED settled
    /\ UNCHANGED <<backend, stores, objects, mayJoin, read, late, faults, deletes, crowded>>

InstallSecret(r) ==
    /\ pc[r] = "installSecret"
    /\ secrets' = secrets \cup {r}
    /\ Goto(r, "installCluster")
    /\ UNCHANGED <<backend, stores, logging, mayJoin, read, late, faults, deletes, history>>

InstallLoggingCluster(r) ==
    /\ pc[r] = "installCluster"
    /\ logging' = logging \cup {r}
    /\ Answer(r)
    /\ UNCHANGED <<backend, stores, secrets, mayJoin, read, late, faults, deletes, crowded>>

\* Install fails: the LoggingCluster exists already, or a call to Kubernetes or to the
\* plugin fails. A fatal log message ends the process and every handler in it; of the
\* writes they were at, any may be under way.
InstallFatal(r) ==
    /\ pc[r] \in {"install", "installSecret", "installCluster"}
    /\ \E sent \in SUBSET {q \in Requests : Sends(q)} :
          late' = late \cup {WriteOf(q) : q \in sent}
    /\ pc' = [q \in Requests |-> IF InFlight(q) THEN "dead" ELSE pc[q]]
    /\ UNCHANGED <<backend, stores, objects, mayJoin, read, faults, deletes, history>>

-----------------------------------------------------------------------------
(* What happens around the handlers *)

\* A store executes a write whose caller has given up, or refuses it: the cluster or
\* the keyring to be created is there, or the token to be updated has gone.
LateWrite(w) ==
    LET r == w.by
        t == TokenOf[r]
        others == late \ {w}
    IN  \/ /\ w.write = "createCluster" /\ MayCreate
           /\ StoreCluster(NewCluster(r), others)
           /\ UNCHANGED <<tokens, keyring, objects>>
        \/ /\ w.write = "editUpdateCluster"
           /\ StoreCluster(EditedCluster(r), others)
           /\ UNCHANGED <<tokens, keyring, objects>>
        \/ /\ w.write \in {"createUpdateToken", "editUpdateToken"} /\ UpdateTokenFinds(t)
           /\ StoreToken(t, w.write = "createUpdateToken", others)
           /\ UNCHANGED <<cluster, keyring, objects>>
        \/ /\ w.write = "put" \/ (w.write = "putCreate" /\ ~KeyringFound)
           /\ StoreKeyring(Merge(r), others)
           /\ UNCHANGED <<tokens, cluster, objects>>
        \/ /\ w.write = "installSecret"
           /\ secrets' = secrets \cup {r} /\ late' = others
           /\ UNCHANGED <<stores, logging>>
        \/ /\ w.write = "installCluster"
           /\ logging' = logging \cup {r} /\ late' = others
           /\ UNCHANGED <<stores, secrets>>
        \/ /\ \/ w.write = "createCluster" /\ ~MayCreate
              \/ w.write = "putCreate" /\ KeyringFound
              \/ w.write \in {"createUpdateToken", "editUpdateToken"} /\ ~UpdateTokenFinds(t)
           /\ late' = others
           /\ UNCHANGED <<stores, objects>>

LateStore ==
    /\ \E w \in late : LateWrite(w)
    /\ UNCHANGED <<backend, pc, mayJoin, read, faults, deletes, history>>

\* The management API deletes the cluster object, and only that.
DeleteCluster ==
    /\ deletes < MaxDeletes
    /\ deletes' = deletes + 1
    /\ StoreCluster(NoCluster, late)
    /\ settled' = {}
    /\ crowded' = crowded \cup {r \in Requests : InFlight(r)}
    /\ UNCHANGED <<backend, tokens, keyring, objects, pc, mayJoin, read, faults>>

\* The token is removed from its store.
DeleteToken(t) ==
    /\ tokens[t].state # "gone"
    /\ tokens' = [tokens EXCEPT ![t].state = "gone"]
    /\ UNCHANGED <<backend, cluster, keyring, objects, pc, mayJoin, read, late, faults, deletes, history>>

RevokeBootstrapToken(t) == DeleteToken(t)

\* An expired token is collected, in a goroutine of a call that found it.
garbageCollectToken(t) == tokens[t].state = "expired" /\ DeleteToken(t)

\* The time of the token is over: etcd removes it with its lease.
TokenExpires(t) ==
    /\ tokens[t].state = "live"
    /\ tokens' = [tokens EXCEPT ![t].state = IF backend = "crds" THEN "expired" ELSE "gone"]
    /\ UNCHANGED <<backend, cluster, keyring, objects, pc, mayJoin, read, late, faults, deletes, history>>

TokenEnds(t) == RevokeBootstrapToken(t) \/ garbageCollectToken(t) \/ TokenExpires(t)

Handler(r) ==
    \/ GetToken(r) \/ GetCluster(r) \/ CanInstall(r)
    \/ CreateCluster(r) \/ CreateUpdateToken(r)
    \/ EditUpdateToken(r) \/ EditUpdateCluster(r) \/ EditGetKeyring(r)
    \/ PutKeyring(r) \/ CreateKeyring(r)
    \/ InstallCapabilities(r) \/ InstallSecret(r) \/ InstallLoggingCluster(r) \/ InstallFatal(r)

\* Every request has been answered.
Finished == (\A r \in Requests : Done(r)) /\ UNCHANGED vars

Next ==
    \/ \E r \in Requests : HandleBootstrapAuth(r) \/ Handler(r)
    \/ LateStore
    \/ DeleteCluster
    \/ \E t \in Tokens : TokenEnds(t)
    \/ Finished

Spec == Init /\ [][Next]_vars

-----------------------------------------------------------------------------
(* Properties *)

\* A bootstrap that ran alone and was answered 200 stays good until the cluster
\* is deleted: whatever requests, concurrent with each other, failing or cut
\* short, come after it, and whenever the stores execute what these have left
\* under way, the cluster keeps its capability and the gateway its key. On etcd,
\* alone means also that nothing was under way when it began.
SettledKept ==
    \A r \in settled :
        /\ cluster.exists
        /\ CapOf[r] \in cluster.caps
        /\ r \in keyring.keys

\* A capability for which the server answered 200 is on the cluster, unless the
\* cluster was deleted (server.go: an existing cluster "will be updated with
\* the new capability"). Does not hold on etcd, where two requests may both create
\* the cluster.
AckedCapabilityKept ==
    deletes = 0 =>
        \A r \in Requests : pc[r] = "200" => cluster.exists /\ CapOf[r] \in cluster.caps

\* With custom resources, whose Create fails if there is a cluster, it is so
\* however many requests create and edit the cluster at once; and the agent that
\* created the cluster keeps its key, whatever edits race with each other or
\* with the rest of its own bootstrap.
CrdsAckedKept ==
    backend = "crds" /\ deletes = 0 =>
        /\ AckedCapabilityKept
        /\ \A r \in Requests : pc[r] = "200" /\ read[r] = {} => r \in keyring.keys

\* handleGetOpensearchDetails of the logging plugin has credentials for a cluster
\* only if exactly one secret has its label.
DetailsServed == Cardinality(secrets) = 1

\* An installation of logs that ran alone and was answered 200 is one the cluster can
\* use, for good: not even a cluster that is deleted and joins again ends with a
\* second secret, unless an installation was cut off after it made its secret.
InstalledIsServed ==
    \A r \in Requests \ crowded :
        pc[r] = "200" /\ CapOf[r] = Logs =>
            DetailsServed \/ \E q \in secrets : pc[q] = "dead"

\* capability/plugin.go says that CanInstall "returns an error if installing the
\* capability would fail". Does not hold: deleting a cluster leaves its
\* LoggingCluster, CanInstall does not look for it, and Install then ends the gateway.
CanInstallPredicts ==
    \A r \in Requests : pc[r] = "install" /\ CapOf[r] = Logs => NoLoggingCluster(r)

\* With custom resources, an existing cluster changes only at the hands of a
\* request whose token was seen to have the capability to join it, in its
\* handler or by a write that the handler has left under way.
EditNeedsJoin ==
    [][backend = "crds" /\ cluster.exists /\ cluster'.exists /\ cluster' # cluster
          => \E r \in Requests :
                /\ mayJoin[r]
                /\ pc'[r] # pc[r] \/ \E w \in late \ late' : w.by = r]_vars

\* A cluster without a keyring, which no agent can use and no request with the
\* same capability can repair, never goes unreported: a request is still at
\* work on it, was answered with the error that stopped it, or died with the
\* gateway.
HalfBootstrapReported ==
    cluster.exists /\ ~keyring.exists =>
        \E r \in Requests :
            pc[r] \in {"createUpdateToken", "put", "putCreate", "failed", "dead"}

\* One of the keys of the keyring verifies what was signed with the key of r.
Try(r) == r \in keyring.keys

\* The gateway accepts a request signed with the key of r: the authentication
\* middleware (pkg/auth/cluster) looks the ID's keyring up and tries its keys.
Accepts(r) == KeyringFound /\ Try(r)

\* docs/content/en/guides/clusters.md: "Once deleted, the downstream cluster
\* will no longer have permissions to access the Opni Gateway API". Does not hold:
\* the keyring stays, and only the keyring is asked for.
DeletedLosesAccess ==
    deletes > 0 /\ ~cluster.exists /\ (\A q \in Requests : ~InFlight(q))
        => \A r \in Requests : ~Accepts(r)
=============================================================================
