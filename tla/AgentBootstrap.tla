--------------------------- MODULE AgentBootstrap ---------------------------
(***************************************************************************)
(* One agent bootstrapping against the gateway: pkg/agent/agent.go         *)
(* (New, bootstrap, loadKeyring) and pkg/bootstrap/client.go (Bootstrap,   *)
(* Finalize), composed with the bootstrap server of module Bootstrap. Each *)
(* of the agent's attempts is a request of its own, with a key of its own. *)
(* The agent may crash and be restarted by its supervisor at any point, and *)
(* its HTTP client gives up after ten seconds; in both cases the handler   *)
(* of the request keeps running in the gateway.                            *)
(***************************************************************************)
EXTENDS Bootstrap

LOCAL INSTANCE SequencesExt
Cred == INSTANCE Credentials

CONSTANTS AgentToken,  \* the token in the agent's configuration
          MaxCrashes,  \* bound on agent crashes
          None         \* no attempt

ASSUME AgentBootstrapAssumption ==
    /\ \A r \in Requests : TokenOf[r] = AgentToken
    /\ MaxCrashes \in Nat
    /\ None \notin Requests

VARIABLES
    apc,         \* where the agent process is
    attempt,     \* the request the agent waits for, or whose key it holds
    stored,      \* requests whose key the agent has persisted: {} or one
    configured,  \* the configuration still holds the bootstrap token
    abandoned,   \* history: requests left behind while in flight
    crashes

agentVars == <<apc, attempt, stored, configured, abandoned, crashes>>
allVars == <<vars, agentVars>>

AgentInit ==
    /\ Init
    /\ apc = "down"
    /\ attempt = None
    /\ stored = {}
    /\ configured = TRUE
    /\ abandoned = {}
    /\ crashes = 0

-----------------------------------------------------------------------------
\* The process ends with an error, or is killed: nothing in memory survives.
GoDown ==
    /\ apc' = "down"
    /\ attempt' = None
    /\ abandoned' = abandoned \cup {r \in {attempt} \ {None} : InFlight(r)}

\* A call of the agent to its own store or to the Kubernetes API fails.
AgentFault ==
    /\ faults < MaxFaults
    /\ faults' = faults + 1
    /\ UNCHANGED <<backend, stores, objects, pc, mayJoin, read, late, deletes, history>>

\* The supervisor starts the process: with a bootstrapper if the configuration
\* has a token, otherwise to load the keyring.
Start ==
    /\ apc = "down"
    /\ apc' = IF configured THEN "check" ELSE "load"
    /\ UNCHANGED <<vars, attempt, stored, configured, abandoned, crashes>>

\* Mutant: the stored keyring is not looked for.
AlwaysJoin ==
    /\ apc = "check"
    /\ \/ apc' = "join" /\ UNCHANGED <<vars, attempt, abandoned>>
       \/ AgentFault /\ GoDown
    /\ UNCHANGED <<stored, configured, crashes>>

\* Mutant: a stored keyring is an error while there is still a token.
RefuseStored ==
    /\ apc = "check"
    /\ \/ /\ IF stored = {}
             THEN apc' = "join" /\ UNCHANGED <<attempt, abandoned>>
             ELSE GoDown
          /\ UNCHANGED vars
       \/ AgentFault /\ GoDown
    /\ UNCHANGED <<stored, configured, crashes>>

\* bootstrap: a keyring that is already stored is used as it is.
CheckKeyring ==
    /\ apc = "check"
    /\ \/ /\ apc' = IF stored = {} THEN "join" ELSE "finalize"
          /\ UNCHANGED <<vars, attempt, abandoned>>
       \/ AgentFault /\ GoDown
    /\ UNCHANGED <<stored, configured, crashes>>

\* POST /bootstrap/join answers with one signature for each listed token that
\* has not expired, or with 405 when there is none. The leaf certificate of
\* the gateway, whose key signs them, came with the answer.
ListTokens == {t \in Tokens : GetTokenFinds(t)}
GatewayKey == [type |-> "ed25519", pub |-> "gateway"]
Signatures ==
    [id \in {Cred!HexID(Cred!NewToken(t)) : t \in ListTokens} |->
        Cred!SignDetached(Cred!NewToken(id[2]), GatewayKey).val]

\* The signature by the agent's token is among them.
findValidSignature ==
    Cred!IsOk(Cred!FindValidSignature(Cred!NewToken(AgentToken), Signatures, GatewayKey.pub))

\* Without a signature by its token, or if the call fails, the agent ends.
Join ==
    /\ apc = "join"
    /\ \/ /\ findValidSignature
          /\ apc' = "send"
          /\ UNCHANGED <<vars, attempt, abandoned>>
       \/ /\ ~findValidSignature
          /\ GoDown
          /\ UNCHANGED vars
       \/ AgentFault /\ GoDown
    /\ UNCHANGED <<stored, configured, crashes>>

\* POST /bootstrap/auth, with a fresh key pair.
SendAuth ==
    /\ apc = "send"
    /\ \E r \in Requests :
          /\ HandleBootstrapAuth(r)
          /\ attempt' = r
    /\ apc' = "wait"
    /\ UNCHANGED <<stored, configured, abandoned, crashes>>

\* Mutant: the status of the answer is not looked at.
AnyAnswer ==
    /\ apc = "wait" /\ Done(attempt)
    /\ apc' = "persist"
    /\ UNCHANGED <<vars, attempt, stored, configured, abandoned, crashes>>

\* The answer arrives: 200 gives the agent its key, anything else ends it, and
\* so does a connection cut by the end of the gateway.
ReceiveAnswer ==
    /\ apc = "wait" /\ Done(attempt)
    /\ IF pc[attempt] = "200"
       THEN apc' = "persist" /\ UNCHANGED <<attempt, abandoned>>
       ELSE GoDown
    /\ UNCHANGED <<vars, stored, configured, crashes>>

\* http.Client gives up (10 seconds), or the answer is lost on the way.
ClientTimeout ==
    /\ apc = "wait"
    /\ GoDown
    /\ UNCHANGED <<vars, stored, configured, crashes>>

\* The Put of the keyring is retried until it succeeds.
PersistKeyring ==
    /\ apc = "persist"
    /\ \/ /\ stored' = {attempt}
          /\ apc' = "finalize"
          /\ UNCHANGED vars
       \/ AgentFault /\ UNCHANGED <<apc, stored>>
    /\ UNCHANGED <<attempt, configured, abandoned, crashes>>

\* The token is erased from the agent-config secret.
EraseBootstrapTokens ==
    \/ configured' = FALSE /\ UNCHANGED vars
    \/ AgentFault /\ UNCHANGED configured

\* An error of Finalize is logged.
Finalize ==
    /\ apc = "finalize"
    /\ EraseBootstrapTokens
    /\ apc' = "load"
    /\ UNCHANGED <<attempt, stored, abandoned, crashes>>

LoadKeyring ==
    /\ apc = "load"
    /\ \/ /\ stored # {}
          /\ apc' = "running"
          /\ UNCHANGED <<vars, attempt, abandoned>>
       \/ /\ stored = {}
          /\ GoDown
          /\ UNCHANGED vars
       \/ AgentFault /\ GoDown
    /\ UNCHANGED <<stored, configured, crashes>>

Crash ==
    /\ apc # "down" /\ crashes < MaxCrashes
    /\ crashes' = crashes + 1
    /\ GoDown
    /\ UNCHANGED <<vars, stored, configured>>

-----------------------------------------------------------------------------
Agent ==
    \/ Start \/ CheckKeyring \/ Join \/ SendAuth \/ ReceiveAnswer
    \/ PersistKeyring \/ Finalize \/ LoadKeyring

\* The gateway and its surroundings, as in module Bootstrap except that
\* requests come from the agent.
Gateway ==
    /\ \/ \E r \in Requests : Handler(r)
       \/ LateStore
       \/ DeleteCluster
       \/ \E t \in Tokens : TokenEnds(t)
    /\ UNCHANGED agentVars

\* The agent runs, or it has used up the attempts of this model.
Quiet ==
    /\ apc = "running" \/ (apc = "send" /\ \A r \in Requests : pc[r] # "idle")
    /\ UNCHANGED allVars

AgentNext ==
    \/ Agent \/ ClientTimeout \/ Crash \/ Gateway \/ Quiet

AgentSpec == AgentInit /\ [][AgentNext]_allVars

\* The supervisor restarts the agent, and the agent's calls return.
AgentFairSpec == AgentSpec /\ WF_allVars(Agent)

-----------------------------------------------------------------------------
(* The credentials the two sides end up with.                              *)

\* The key pairs of the two sides of request r.
AgentPair(r) == Cred!NewEphemeralKeyPair(<<"agent", r>>)
GatewayPair(r) == Cred!NewEphemeralKeyPair(<<"gateway", r>>)

Pins == <<Cred!NewPin([key |-> "ca", issuer |-> "ca"], "b2b256").val>>

\* What Bootstrap returns to the agent for the answer to r.
AgentKeyring(r) ==
    Cred!NewKeyring(<<
        Cred!NewSharedKeys(Cred!DeriveSharedSecret(AgentPair(r),
            [PublicKey |-> GatewayPair(r).PublicKey, PeerType |-> "server"]).val),
        Cred!NewPKPKey(Pins)>>).val

\* What the gateway derived for r.
GatewaySharedKeys(r) ==
    Cred!NewSharedKeys(Cred!DeriveSharedSecret(GatewayPair(r),
        [PublicKey |-> AgentPair(r).PublicKey, PeerType |-> "client"]).val)

\* The stored keyrings of the gateway: at most the one of the agent's ID.
Keyrings ==
    [id \in {i \in {"uid"} : keyring.exists} |->
        Cred!NewKeyring(SetToSeq({GatewaySharedKeys(q) : q \in keyring.keys})).val]

\* The answer of the middleware to a request of the agent, stored keyring read
\* back and client made as in New.
PushAnswer(r) ==
    LET kr == Cred!Unmarshal(Cred!Marshal(AgentKeyring(r))).val
        client == Cred!NewGatewayHTTPClient(<<"https:", "//gateway", "/">>, "uid", kr)
        nonce == [version |-> 4]
    IN  IF ~Cred!IsOk(client) THEN "none"
        ELSE Cred!Handle(Cred!Do(client.val, <<"/", "api/agent/push">>, "body", nonce),
                         Keyrings).status

-----------------------------------------------------------------------------
(* Properties *)

\* An agent that runs sends requests the gateway's middleware lets through: the
\* client made from its stored keyring signs them with a key that verifies
\* under the keyring the gateway stored, in spite of crashes,
\* client timeouts, failing stores and the end of the gateway process, as long
\* as nobody deletes the cluster. On etcd this needs, in addition, that no
\* request was left behind in flight: its handler may overwrite the keyring
\* of the request that succeeded.
RunningAgentAccepted ==
    apc = "running" /\ deletes = 0 /\ (backend = "etcd" => abandoned = {})
        => \A r \in stored : PushAnswer(r) = "next"

\* An agent that has persisted a keyring never bootstraps again, and never
\* replaces the keyring, however often it is restarted.
BootstrapsOnce ==
    [][stored # {} => /\ stored' = stored
                      /\ \A r \in Requests : pc[r] = "idle" => pc'[r] = "idle"]_allVars

\* An agent that has persisted its keyring ends up running, wherever its
\* finalization was interrupted.
PersistedAgentRuns == stored # {} ~> apc = "running"
=============================================================================
