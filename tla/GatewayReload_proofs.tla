------------------------- MODULE GatewayReload_proofs -------------------------
(***************************************************************************)
(* Proofs about GatewayReload, for any number of generations and of         *)
(* concurrent UpdateConfig calls. IInv says what is untouched before a      *)
(* generation is loaded, when its API server can be up, and what a          *)
(* successful update has done to the reader of its generation.              *)
(***************************************************************************)
EXTENDS GatewayReload, TLAPS

MainStates == {"load", "built", "routes", "listening", "drain", "wait", "exited"}
ReaderStates == {"none", "starting", "waiting", "received", "closed"}
ApiStates == {"none", "up", "stopped"}

\* The type of what the invariant is about.
TypeInv ==
    /\ gen \in Gens /\ main \in MainStates
    /\ reader \in [Gens -> ReaderStates]
    /\ api \in [Gens -> ApiStates]
    /\ call \in [Updaters -> 0 .. MaxGens]
    /\ answer \in [Updaters -> {"none", "ok", "error"}]

\* A generation that was not loaded has no reader.
LoadInv ==
    /\ \A g \in Gens : g > gen => reader[g] = "none"
    /\ main = "load" => reader[gen] = "none"

\* Only the current generation's API server is up, and only while run() is in
\* ListenAndServe or the process has ended.
ApiInv == \A g \in Gens : api[g] = "up" => g = gen /\ main \in {"listening", "exited"}

\* A successful update was handed to the reader of its generation, which never
\* waits again.
SignalInv ==
    \A u \in Updaters :
        answer[u] = "ok" => call[u] \in Gens /\ reader[call[u]] \in {"received", "closed"}

IInv == TypeInv /\ LoadInv /\ ApiInv /\ SignalInv /\ OneReloadPerGeneration

-----------------------------------------------------------------------------
LEMMA InitIInv == Init => IInv
  <1> SUFFICES ASSUME Init PROVE IInv
    OBVIOUS
  <1>1. TypeInv
    BY GatewayReloadAssumption DEF Init, TypeInv, Gens, MainStates, ReaderStates, ApiStates
  <1>2. LoadInv
    BY <1>1 DEF Init, LoadInv, TypeInv
  <1>3. ApiInv /\ SignalInv /\ OneReloadPerGeneration
    BY DEF Init, ApiInv, SignalInv, OneReloadPerGeneration
  <1> QED BY <1>1, <1>2, <1>3 DEF IInv

LEMMA NextIInv == IInv /\ [Next]_vars => IInv'
  <1> SUFFICES ASSUME IInv, [Next]_vars PROVE IInv'
    OBVIOUS
  <1> USE GatewayReloadAssumption DEF Gens
  <1>1. CASE Load
    <2>1. TypeInv'
      BY <1>1 DEF Load, IInv, TypeInv, MainStates, ReaderStates, calls
    <2>2. LoadInv'
      BY <1>1 DEF Load, IInv, TypeInv, LoadInv
    <2>3. ApiInv'
      BY <1>1 DEF Load, IInv, TypeInv, ApiInv
    <2>4. SignalInv' /\ OneReloadPerGeneration'
      BY <1>1 DEF Load, IInv, TypeInv, LoadInv, SignalInv, OneReloadPerGeneration, calls
    <2> QED BY <2>1, <2>2, <2>3, <2>4 DEF IInv
  <1>2. CASE ArmShutdown
    BY <1>2 DEF ArmShutdown, IInv, TypeInv, LoadInv, ApiInv, SignalInv, OneReloadPerGeneration,
                MainStates, calls
  <1>3. CASE ListenApi
    <2>1. TypeInv'
      BY <1>3 DEF ListenApi, IInv, TypeInv, MainStates, ApiStates, calls
    <2>2. ApiInv'
      BY <1>3 DEF ListenApi, IInv, TypeInv, ApiInv
    <2>3. LoadInv' /\ SignalInv' /\ OneReloadPerGeneration'
      BY <1>3 DEF ListenApi, IInv, TypeInv, LoadInv, SignalInv, OneReloadPerGeneration, calls
    <2> QED BY <2>1, <2>2, <2>3 DEF IInv
  <1>4. CASE ApiReturns \/ AwaitReloadC
    BY <1>4 DEF ApiReturns, AwaitReloadC, IInv, TypeInv, LoadInv, ApiInv, SignalInv,
                OneReloadPerGeneration, MainStates, servers, calls
  <1>5. CASE WaitAndReload
    <2>1. TypeInv'
      BY <1>5 DEF WaitAndReload, IInv, TypeInv, MainStates, servers, calls
    <2>2. LoadInv' /\ ApiInv'
      BY <1>5 DEF WaitAndReload, IInv, TypeInv, LoadInv, ApiInv, servers
    <2>3. SignalInv' /\ OneReloadPerGeneration'
      BY <1>5 DEF WaitAndReload, IInv, SignalInv, OneReloadPerGeneration, calls
    <2> QED BY <2>1, <2>2, <2>3 DEF IInv
  <1>6. ASSUME NEW g \in Gens, ListenMgmt(g) PROVE IInv'
    BY <1>6 DEF ListenMgmt, IInv, TypeInv, LoadInv, ApiInv, SignalInv, OneReloadPerGeneration,
                MainStates, calls
  <1>7. ASSUME NEW g \in Gens, StopMgmt(g) \/ ListenWebUI(g) \/ ShutdownWebUI(g) PROVE IInv'
    BY <1>7 DEF StopMgmt, ListenWebUI, ShutdownWebUI, IInv, TypeInv, LoadInv, ApiInv, SignalInv,
                OneReloadPerGeneration, process, calls
  <1>8. ASSUME NEW g \in Gens, ShutdownApi(g) PROVE IInv'
    <2>1. TypeInv' /\ ApiInv'
      BY <1>8 DEF ShutdownApi, IInv, TypeInv, ApiInv, ApiStates, process, calls
    <2>2. LoadInv' /\ SignalInv' /\ OneReloadPerGeneration'
      BY <1>8 DEF ShutdownApi, IInv, LoadInv, SignalInv, OneReloadPerGeneration, process, calls
    <2> QED BY <2>1, <2>2 DEF IInv
  <1>9. ASSUME NEW g \in Gens, ReadReloadC(g) \/ Cancel(g) PROVE IInv'
    <2>1. TypeInv'
      BY <1>9 DEF ReadReloadC, Cancel, IInv, TypeInv, ReaderStates, process, servers, calls
    <2>2. LoadInv'
      BY <1>9 DEF ReadReloadC, Cancel, IInv, TypeInv, LoadInv, process
    <2>3. ApiInv'
      BY <1>9 DEF ReadReloadC, Cancel, IInv, ApiInv, process, servers
    <2>4. SignalInv'
      <3> SUFFICES ASSUME NEW u \in Updaters, answer'[u] = "ok"
                   PROVE  call'[u] \in Gens /\ reader'[call'[u]] \in {"received", "closed"}
        BY DEF SignalInv
      <3>1. answer[u] = "ok" /\ call' = call
        BY <1>9 DEF ReadReloadC, Cancel, calls
      <3>2. call[u] \in Gens /\ reader[call[u]] \in {"received", "closed"}
        BY <3>1 DEF IInv, SignalInv
      <3> QED BY <1>9, <3>1, <3>2 DEF ReadReloadC, Cancel, IInv, TypeInv
    <2>5. OneReloadPerGeneration'
      BY <1>9 DEF ReadReloadC, Cancel, IInv, OneReloadPerGeneration, calls
    <2> QED BY <2>1, <2>2, <2>3, <2>4, <2>5 DEF IInv
  <1>10. ASSUME NEW u \in Updaters, NEW g \in Gens, SetObjects(u, g) PROVE IInv'
    <2>1. TypeInv'
      BY <1>10 DEF SetObjects, IInv, TypeInv, process, servers
    <2>2. LoadInv' /\ ApiInv'
      BY <1>10 DEF SetObjects, IInv, LoadInv, ApiInv, process, servers
    <2>3. answer[u] # "ok"
      BY <1>10 DEF SetObjects, IInv, SignalInv
    <2>4. SignalInv' /\ OneReloadPerGeneration'
      BY <1>10, <2>3 DEF SetObjects, IInv, TypeInv, SignalInv, OneReloadPerGeneration
    <2> QED BY <2>1, <2>2, <2>4 DEF IInv
  <1>11. ASSUME NEW u \in Updaters, Signal(u) PROVE IInv'
    <2>1. call[u] \in Gens
      BY <1>11 DEF Signal, IInv, TypeInv
    <2>2. TypeInv'
      BY <1>11, <2>1 DEF Signal, IInv, TypeInv, ReaderStates, process, servers
    <2>3. LoadInv' /\ ApiInv'
      BY <1>11, <2>1 DEF Signal, IInv, TypeInv, LoadInv, ApiInv, process, servers
    <2>4. SignalInv'
      BY <1>11, <2>1 DEF Signal, IInv, TypeInv, SignalInv
    <2>5. OneReloadPerGeneration'
      BY <1>11, <2>1 DEF Signal, IInv, TypeInv, SignalInv, OneReloadPerGeneration
    <2> QED BY <2>2, <2>3, <2>4, <2>5 DEF IInv
  <1>12. CASE UNCHANGED vars
    BY <1>12 DEF vars, process, servers, calls, IInv, TypeInv, LoadInv, ApiInv, SignalInv,
                 OneReloadPerGeneration
  <1> QED
    BY <1>1, <1>2, <1>3, <1>4, <1>5, <1>6, <1>7, <1>8, <1>9, <1>10, <1>11, <1>12
    DEF Next, Run, Goroutines

LEMMA SpecIInv == Spec => []IInv
  BY InitIInv, NextIInv, PTL DEF Spec

-----------------------------------------------------------------------------
\* Of any number of concurrent UpdateConfig calls (pkg/management/config.go) that
\* one generation serves, one at most is told that it succeeded.
THEOREM ReloadOnePerGeneration == Spec => []OneReloadPerGeneration
  <1>1. IInv => OneReloadPerGeneration
    BY DEF IInv
  <1> QED BY SpecIInv, <1>1, PTL

\* Whenever run() loads a configuration (pkg/opnim/commands/gateway.go), the API
\* server of every earlier generation has left its address.
THEOREM ReloadApiAddressFree == Spec => []ApiAddressFree
  <1>1. IInv => ApiAddressFree
    BY DEF IInv, ApiInv, ApiAddressFree
  <1> QED BY SpecIInv, <1>1, PTL

\* A reload never ends the process for the address of the API server: ListenApi
\* finds it free, whatever the goroutines of earlier generations still do.
ApiListens == [][ListenApi => main' = "listening"]_vars

\* The API server of every generation gets its address.
THEOREM ReloadApiListens == Spec => ApiListens
  <1>1. IInv /\ [Next]_vars => [ListenApi => main' = "listening"]_vars
    BY DEF IInv, ApiInv, ListenApi
  <1> QED BY SpecIInv, <1>1, PTL DEF Spec, ApiListens
=============================================================================
