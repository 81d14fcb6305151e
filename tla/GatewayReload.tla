---------------------------- MODULE GatewayReload ----------------------------
(***************************************************************************)
(* The life of a gateway process (pkg/opnim/commands/gateway.go) with its  *)
(* Lifecycler (pkg/config/lifecycler.go): each generation loads the config *)
(* file, starts the management and API servers, and serves until an        *)
(* UpdateConfig call signals a reload; then its context is cancelled, the  *)
(* servers shut down and the next generation starts.                       *)
(*                                                                         *)
(* A generation's servers listen on the same addresses as the last one's.  *)
(* A listen that fails ends the process. The context's wait group is not   *)
(* state here, because waitctx.Wait does not wait for it.                  *)
(***************************************************************************)
EXTENDS Naturals

CONSTANTS Updaters,  \* calls of UpdateConfig, each with a config of its own
          File,      \* the config in the file
          None,
          MaxGens    \* bound on generations

ASSUME GatewayReloadAssumption == MaxGens \in Nat \ {0} /\ None \notin Updaters

Gens == 1 .. MaxGens

VARIABLES
    gen, main,   \* the current generation, and where its run() is
    objects,     \* objects[g]: the object list of its Lifecycler
    reader,      \* reader[g]: its goroutine that waits for the reload signal
    cancelled,   \* generations whose context is cancelled
    mgmt, api,   \* state of their management and API servers
    shutter,     \* their goroutine that shuts the API server down
    webui,       \* state of their UI server, which holds its mutex while it serves
    uiShutter,   \* their goroutine that shuts the UI server down
    call, answer \* of each UpdateConfig: the generation that serves it, the outcome

process == <<gen, main>>
uis == <<webui, uiShutter>>
servers == <<mgmt, api, shutter, cancelled, uis>>
calls == <<call, answer>>
vars == <<process, objects, reader, servers, calls>>

Alive == main # "exited"

Init ==
    /\ gen = 1 /\ main = "load"
    /\ objects = [g \in Gens |-> None]
    /\ reader = [g \in Gens |-> "none"] /\ cancelled = {}
    /\ mgmt = [g \in Gens |-> "none"] /\ api = [g \in Gens |-> "none"]
    /\ shutter = [g \in Gens |-> "none"]
    /\ webui = [g \in Gens |-> "none"] /\ uiShutter = [g \in Gens |-> "none"]
    /\ call = [u \in Updaters |-> 0] /\ answer = [u \in Updaters |-> "none"]

-----------------------------------------------------------------------------
(* run() *)

Load ==
    /\ main = "load"
    /\ objects' = [objects EXCEPT ![gen] = File]
    /\ mgmt' = [mgmt EXCEPT ![gen] = "starting"]
    /\ reader' = [reader EXCEPT ![gen] = "starting"]
    /\ main' = "built"
    /\ UNCHANGED <<gen, cancelled, api, shutter, uis, calls>>

\* Gateway.ListenAndServe: first the goroutines that will shut the servers down
\* and the one that starts the UI server.
ArmShutdown ==
    /\ main = "built"
    /\ shutter' = [shutter EXCEPT ![gen] = "armed"]
    /\ webui' = [webui EXCEPT ![gen] = "starting"]
    /\ uiShutter' = [uiShutter EXCEPT ![gen] = "armed"]
    /\ main' = "routes"
    /\ UNCHANGED <<gen, objects, reader, cancelled, mgmt, api, calls>>

\* Then, once the plugins' routes are set up, the listener.
ListenApi ==
    /\ main = "routes"
    /\ IF \E g \in Gens : api[g] = "up"
       THEN main' = "exited" /\ UNCHANGED api
       ELSE main' = "listening" /\ api' = [api EXCEPT ![gen] = "up"]
    /\ UNCHANGED <<gen, objects, reader, cancelled, mgmt, shutter, uis, calls>>

\* The API server returns when it was shut down.
ApiReturns ==
    /\ main = "listening" /\ api[gen] = "stopped"
    /\ main' = "drain"
    /\ UNCHANGED <<gen, objects, reader, servers, calls>>

\* Mutant: run() ends with the reload signal, not with the server.
LeavesListening ==
    /\ main \in {"listening", "drain"} /\ reader[gen] = "closed"
    /\ main' = "wait"
    /\ UNCHANGED <<gen, objects, reader, servers, calls>>

AwaitReloadC ==
    /\ main = "drain" /\ reader[gen] = "closed"
    /\ main' = "wait"
    /\ UNCHANGED <<gen, objects, reader, servers, calls>>

\* waitctx.Wait starts a goroutine that waits, and returns.
WaitAndReload ==
    /\ main = "wait" /\ gen < MaxGens
    /\ gen' = gen + 1 /\ main' = "load"
    /\ UNCHANGED <<objects, reader, servers, calls>>

-----------------------------------------------------------------------------
(* The goroutines of generation g *)

\* The management server cannot listen while an older one does: Fatal.
ListenMgmt(g) ==
    /\ mgmt[g] = "starting"
    /\ IF \E h \in Gens : mgmt[h] = "up"
       THEN main' = "exited" /\ UNCHANGED mgmt
       ELSE mgmt' = [mgmt EXCEPT ![g] = "up"] /\ UNCHANGED main
    /\ UNCHANGED <<gen, objects, reader, cancelled, api, shutter, uis, calls>>

StopMgmt(g) ==
    /\ mgmt[g] = "up" /\ g \in cancelled
    /\ mgmt' = [mgmt EXCEPT ![g] = "stopped"]
    /\ UNCHANGED <<process, objects, reader, cancelled, api, shutter, uis, calls>>

\* Shutting down a server that does not listen yet has no effect.
ShutdownApi(g) ==
    /\ shutter[g] = "armed" /\ g \in cancelled
    /\ shutter' = [shutter EXCEPT ![g] = "done"]
    /\ api' = IF api[g] = "up" THEN [api EXCEPT ![g] = "stopped"] ELSE api
    /\ UNCHANGED <<process, objects, reader, cancelled, mgmt, uis, calls>>

\* A UI server whose address is taken is given up with a warning.
ListenWebUI(g) ==
    /\ webui[g] = "starting"
    /\ webui' = [webui EXCEPT ![g] = IF \E h \in Gens : webui[h] = "up" THEN "failed" ELSE "up"]
    /\ UNCHANGED <<process, objects, reader, cancelled, mgmt, api, shutter, uiShutter, calls>>

\* Shutdown takes the mutex that ListenAndServe holds while it serves. Before
\* that, or after a failed listen, there is no server to shut down.
ShutdownWebUI(g) ==
    /\ uiShutter[g] = "armed" /\ g \in cancelled /\ webui[g] # "up"
    /\ uiShutter' = [uiShutter EXCEPT ![g] = "done"]
    /\ UNCHANGED <<process, objects, reader, cancelled, mgmt, api, shutter, webui, calls>>

ReadReloadC(g) ==
    /\ reader[g] = "starting"
    /\ reader' = [reader EXCEPT ![g] = "waiting"]
    /\ UNCHANGED <<process, objects, servers, calls>>

\* Mutant: run() is not told.
CancelsSilently(g) ==
    /\ reader[g] = "received" /\ g \notin cancelled
    /\ cancelled' = cancelled \cup {g}
    /\ UNCHANGED <<process, objects, reader, mgmt, api, shutter, uis, calls>>

Cancel(g) ==
    /\ reader[g] = "received"
    /\ cancelled' = cancelled \cup {g} /\ reader' = [reader EXCEPT ![g] = "closed"]
    /\ UNCHANGED <<process, objects, mgmt, api, shutter, uis, calls>>

-----------------------------------------------------------------------------
(* UpdateConfig, with UpdateObjectList of the Lifecycler *)

SetObjects(u, g) ==
    /\ call[u] = 0 /\ mgmt[g] = "up"
    /\ call' = [call EXCEPT ![u] = g]
    /\ objects' = [objects EXCEPT ![g] = u]
    /\ UNCHANGED <<process, reader, servers, answer>>

\* Mutant: the signal is kept for a reader that does not wait yet.
SignalBuffered(u) ==
    /\ call[u] # 0 /\ answer[u] = "none"
    /\ answer' = [answer EXCEPT ![u] = "ok"]
    /\ reader' = [reader EXCEPT ![call[u]] = IF @ = "closed" THEN @ ELSE "received"]
    /\ UNCHANGED <<process, objects, servers, call>>

\* Without a reader the call fails, but the objects were replaced.
Signal(u) ==
    /\ call[u] # 0 /\ answer[u] = "none"
    /\ IF reader[call[u]] = "waiting"
       THEN /\ answer' = [answer EXCEPT ![u] = "ok"]
            /\ reader' = [reader EXCEPT ![call[u]] = "received"]
       ELSE answer' = [answer EXCEPT ![u] = "error"] /\ UNCHANGED reader
    /\ UNCHANGED <<process, objects, servers, call>>

-----------------------------------------------------------------------------
Run == Load \/ ArmShutdown \/ ListenApi \/ ApiReturns \/ AwaitReloadC \/ WaitAndReload
Goroutines(g) ==
    \/ ListenMgmt(g) \/ StopMgmt(g) \/ ShutdownApi(g)
    \/ ListenWebUI(g) \/ ShutdownWebUI(g)
    \/ ReadReloadC(g) \/ Cancel(g)

Next ==
    /\ Alive
    /\ \/ Run
       \/ \E g \in Gens : Goroutines(g)
       \/ \E u \in Updaters : Signal(u) \/ \E g \in Gens : SetObjects(u, g)

Spec == Init /\ [][Next]_vars

\* Every goroutine that can run does.
FairSpec ==
    /\ Spec
    /\ WF_vars(Alive /\ Run)
    /\ \A g \in Gens : WF_vars(Alive /\ Goroutines(g))

-----------------------------------------------------------------------------
(* Properties *)

\* A generation is reloaded for one update only: of concurrent UpdateConfig
\* calls it serves, one at most succeeds.
OneReloadPerGeneration ==
    \A u, v \in Updaters : u # v /\ answer[u] = "ok" /\ answer[v] = "ok" => call[u] # call[v]

\* The API server of the last generation has stopped when the next one starts,
\* so a reload never fails for its address.
ApiAddressFree == main = "load" => \A g \in Gens : api[g] # "up"

\* A generation that is serving when an update succeeds is replaced, unless a
\* listen fails.
ReloadFinishes ==
    \A u \in Updaters, g \in 1 .. MaxGens - 1 :
        (answer[u] = "ok" /\ call[u] = g /\ api[g] = "up" /\ g \notin cancelled) ~> (gen > g \/ ~Alive)

\* gateway.go: "waiting for servers to shut down" -- the servers of a generation
\* have shut down before the next one is loaded. Does not hold: waitctx.Wait only
\* starts a goroutine that waits, and returns at once.
ServersShutDown == main = "load" => \A g \in 1 .. gen - 1 : mgmt[g] # "up"

\* gateway.go: "shutting down ui server" -- the UI server of a cancelled
\* generation stops. Does not hold: ListenAndServe keeps the mutex that Shutdown
\* takes first.
UIShutDown == \A g \in Gens : (g \in cancelled /\ webui[g] = "up") ~> (webui[g] # "up" \/ ~Alive)

\* config_test.go: "should update the config" -- after a successful update the
\* gateway's config is the one it set, until another update. Does not hold: the
\* next generation reads the config file again.
UpdateKept ==
    \A u \in Updaters : answer[u] = "ok" /\ main = "listening" =>
        \/ objects[gen] = u
        \/ \E v \in Updaters \ {u} : call[v] >= call[u]
=============================================================================
