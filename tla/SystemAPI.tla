------------------------------ MODULE SystemAPI ------------------------------
(***************************************************************************)
(* How the gateway lends its management API and a key-value store to a     *)
(* plugin process (pkg/plugins/apis/system): serveSystemApi starts a       *)
(* server for the one plugin, calls the plugin, which dials back and runs  *)
(* a callback, and stops the server when that call returns. A session is   *)
(* one such loan. The key-value store is etcd with one prefix per plugin   *)
(* (pkg/storage/etcd/kv_store.go).                                         *)
(*                                                                         *)
(* A path is the sequence of its pieces, "/" among them; path.Join and the *)
(* prefix queries of etcd work on these sequences.                         *)
(***************************************************************************)
EXTENDS Naturals, Sequences, SequencesExt

CONSTANTS Plugins,
          Module,    \* per plugin: its module path
          Valid,     \* plugins whose module path module.CheckPath accepts
          Order,     \* the system plugins that the gateway has loaded, in order
          Sessions,  \* a subset of Plugins \X {"mgmt", "kv"}
          Keys,      \* keys that plugins use, without a trailing "/"
          Asked,     \* prefixes that plugins ask for
          Values,    \* values that plugins put; 0 is none of them
          Old,       \* per plugin: what it put before this gateway started
          MaxOps     \* calls of the store in one session

\* The prefix under which KeyValueStore(ns) keeps its keys.
Prefix(ns) == ns \o <<"/", "kv">>

\* No store's prefix contains another's, as is the case for the plugins that
\* the repository builds.
ASSUME SystemAssumption ==
    /\ 0 \notin Values /\ Old \in [Plugins -> [Keys -> Values \cup {0}]]
    /\ Sessions \subseteq Plugins \X {"mgmt", "kv"}
    /\ \A s \in Sessions : s[1] \in ToSet(Order)
    /\ \A p \in ToSet(Order) : <<p, "kv">> \in Sessions
    /\ \A p, q \in Plugins : p # q => ~IsPrefix(Prefix(Module[p]), Prefix(Module[q]))

VARIABLES main,    \* serveSystemApi
          acc,     \* the goroutine in broker.AcceptAndServe
          stopper, \* the goroutine that waits for the context
          srv,     \* the server: "nil", "new", "stopped"
          cb,      \* the plugin's callback
          done,    \* sessions whose call to the plugin returned
          held,    \* plugins that keep the management client in a Future
          up,      \* plugin processes that run
          gone,    \* plugins whose context in the gateway is done
          kv,      \* the contents of etcd
          late,    \* puts that failed and that etcd may yet execute
          mine,    \* history: what a plugin put with success
          tried,   \* history: the keys of its puts that failed
          ops,     \* per session: calls of the store so far
          reply    \* per plugin: the last answer of the store

store == <<kv, late, mine, tried, ops, reply>>
control == <<main, acc, stopper, srv, cb, done, held, up, gone>>
vars == <<control, store>>

\* The plugins that the gateway has loaded; etcd may have data of others.
Loaded == ToSet(Order)

\* A path that nobody wrote to has the value 0.
OldPath(p, k) == Prefix(Module[p]) \o <<"/">> \o k
Paths == {OldPath(p, k) : p \in Plugins, k \in Keys}
OldValue(x) ==
    LET at == CHOOSE pk \in Plugins \X Keys : x = OldPath(pk[1], pk[2]) IN Old[at[1]][at[2]]

Init ==
    /\ main = [s \in Sessions |-> "start"] /\ acc = [s \in Sessions |-> "none"]
    /\ stopper = [s \in Sessions |-> "none"] /\ srv = [s \in Sessions |-> "nil"]
    /\ cb = [s \in Sessions |-> "none"] /\ done = {} /\ held = {}
    /\ up = Loaded /\ gone = {}
    /\ kv = [x \in Paths |-> OldValue(x)] /\ mine = Old
    /\ late = {} /\ tried = [p \in Plugins |-> {}]
    /\ ops = [s \in Sessions |-> 0] /\ reply = [p \in Plugins |-> <<>>]

-----------------------------------------------------------------------------
(* The gateway *)

\* Gateway.ListenAndServe goes through the plugins one after the other to serve
\* the store.
InTurn(s) ==
    main[s] = "start" /\ (s[2] = "kv" =>
        \A i, j \in DOMAIN Order : i < j /\ Order[j] = s[1] => main[<<Order[i], "kv">>] # "start")

\* Gateway.ListenAndServe: no store for a plugin with a malformed name.
Skip(s) ==
    /\ InTurn(s) /\ s[2] = "kv" /\ s[1] \notin Valid
    /\ main' = [main EXCEPT ![s] = "returned"]
    /\ UNCHANGED <<acc, stopper, srv, cb, done, held, up, gone, store>>

\* serveSystemApi starts its goroutines; the call reaches the plugin if it runs.
Serve(s) ==
    /\ InTurn(s) /\ (s[2] = "kv" => s[1] \in Valid)
    /\ main' = [main EXCEPT ![s] = "select"]
    /\ acc' = [acc EXCEPT ![s] = "accept"]
    /\ cb' = [cb EXCEPT ![s] = IF s[1] \in up THEN "dial" ELSE "dead"]
    /\ UNCHANGED <<stopper, srv, done, held, up, gone, store>>

\* KeyValueStore(ns) gives no store: ListenAndServe returns its error, and the
\* process ends. (That of etcd never fails; with custom resources there is none,
\* and the call panics.) The servers and the plugins' contexts end with it.
NoStore(s) ==
    /\ InTurn(s) /\ s[2] = "kv" /\ s[1] \in Valid
    /\ main' = [t \in Sessions |-> "ended"] /\ acc' = [t \in Sessions |-> "none"]
    /\ stopper' = [t \in Sessions |-> "none"] /\ srv' = [t \in Sessions |-> "nil"]
    /\ gone' = Loaded
    /\ UNCHANGED <<cb, done, held, up, store>>

\* broker.Accept; when it fails no server is made.
Accept(s) ==
    /\ acc[s] = "accept"
    /\ \E r \in {"accepted", "failed"} : acc' = [acc EXCEPT ![s] = r]
    /\ UNCHANGED <<main, stopper, srv, cb, done, held, up, gone, store>>

\* The function given to AcceptAndServe: make the server, close srvLock.
NewServer(s) ==
    /\ acc[s] = "accepted"
    /\ srv' = [srv EXCEPT ![s] = "new"]
    /\ stopper' = [stopper EXCEPT ![s] = "wait"]
    /\ acc' = [acc EXCEPT ![s] = "register"]
    /\ UNCHANGED <<main, cb, done, held, up, gone, store>>

\* regCallback, then Serve, which returns at once when the server is stopped.
RegisterAndServe(s) ==
    /\ acc[s] = "register"
    /\ acc' = [acc EXCEPT ![s] = "serve"]
    /\ UNCHANGED <<main, stopper, srv, cb, done, held, up, gone, store>>

\* The goroutine of the context; once.Do makes the second Stop a no-op.
StopOnDone(s) ==
    /\ stopper[s] = "wait" /\ s[1] \in gone
    /\ stopper' = [stopper EXCEPT ![s] = "ended"]
    /\ srv' = [srv EXCEPT ![s] = "stopped"]
    /\ UNCHANGED <<main, acc, cb, done, held, up, gone, store>>

\* The call to the plugin returns: with its answer, or with an error.
CallReturns(s) ==
    /\ main[s] \in {"select", "lock"} /\ s \notin done
    /\ cb[s] \in {"returned", "dead"} \/ s[1] \in gone
    /\ done' = done \cup {s}
    /\ UNCHANGED <<main, acc, stopper, srv, cb, held, up, gone, store>>

CallIsOver(s) == s[1] \in gone \/ s \in done

Select(s) ==
    /\ main[s] = "select" /\ CallIsOver(s)
    /\ main' = [main EXCEPT ![s] = "lock"]
    /\ UNCHANGED <<acc, stopper, srv, cb, done, held, up, gone, store>>

\* Mutant: no srvLock; a server that is not there yet needs no stop.
NoLock(s) == TRUE
\* Mutant: the channel is closed by nobody.
LockNeverClosed(s) == FALSE
SrvLockClosed(s) == srv[s] # "nil"

Return(s) ==
    /\ main[s] = "lock" /\ SrvLockClosed(s)
    /\ main' = [main EXCEPT ![s] = "returned"]
    /\ srv' = [srv EXCEPT ![s] = IF @ = "nil" THEN @ ELSE "stopped"]
    /\ UNCHANGED <<acc, stopper, cb, done, held, up, gone, store>>

\* The context of the plugin's connection: it exited, or the gateway ends it.
ContextDone(p) ==
    /\ p \notin gone
    /\ gone' = gone \cup {p}
    /\ UNCHANGED <<main, acc, stopper, srv, cb, done, held, up, store>>

-----------------------------------------------------------------------------
(* The plugin *)

\* broker.Dial succeeds once the gateway has accepted, and gives up after a
\* while. The management client is put into a Future.
Dial(s) ==
    /\ cb[s] = "dial"
    /\ \/ /\ acc[s] \in {"accepted", "register", "serve"}
          /\ cb' = [cb EXCEPT ![s] = "use"]
          /\ held' = IF s[2] = "mgmt" THEN held \cup {s[1]} ELSE held
       \/ cb' = [cb EXCEPT ![s] = "returned"] /\ UNCHANGED held
    /\ UNCHANGED <<main, acc, stopper, srv, done, up, gone, store>>

\* UseManagementAPI of cortex and logging waits for the end of the process;
\* UseKeyValueStore returns.
CallbackMayReturn(s) == s[2] = "kv"

\* The calls that a callback made, and the last answer, end with it; whether
\* its late puts are executed after that, nobody sees.
Forget(p) ==
    /\ ops' = [s \in Sessions |-> IF s[1] = p THEN 0 ELSE ops[s]]
    /\ reply' = [reply EXCEPT ![p] = <<>>]
    /\ late' = {w \in late : w[1] # p} /\ tried' = [tried EXCEPT ![p] = {}]
    /\ UNCHANGED <<kv, mine>>

\* The callback returns, and the deferred Close ends the connection.
CallbackReturns(s) ==
    /\ cb[s] = "use" /\ CallbackMayReturn(s)
    /\ cb' = [cb EXCEPT ![s] = "returned"] /\ Forget(s[1])
    /\ UNCHANGED <<main, acc, stopper, srv, done, held, up, gone>>

Exit(p) ==
    /\ p \in up
    /\ up' = up \ {p} /\ held' = held \ {p}
    /\ cb' = [s \in Sessions |-> IF s[1] = p /\ cb[s] # "none" THEN "dead" ELSE cb[s]]
    /\ Forget(p)
    /\ UNCHANGED <<main, acc, stopper, srv, done, gone>>

-----------------------------------------------------------------------------
(* The key-value store *)

KeyValueStore(p) == Prefix(Module[p])

Path(p, key) == KeyValueStore(p) \o <<"/">> \o key

\* path.Join drops a trailing "/", and an empty last element.
Clean(key) == IF key # <<>> /\ key[Len(key)] = "/" THEN Front(key) ELSE key
Join(prefix, key) == IF Clean(key) = <<>> THEN prefix ELSE prefix \o <<"/">> \o Clean(key)

\* A call of the store is answered while the server serves and the connection
\* is open.
Calls(s) ==
    /\ s[2] = "kv" /\ cb[s] = "use" /\ acc[s] = "serve" /\ srv[s] = "new"
    /\ ops[s] < MaxOps
    /\ ops' = [ops EXCEPT ![s] = @ + 1]

Store(x, val) == kv' = [y \in DOMAIN kv \cup {x} |-> IF y = x THEN val ELSE kv[y]]

Put(s, key, val) ==
    /\ Calls(s)
    /\ Store(Path(s[1], key), val)
    /\ mine' = [mine EXCEPT ![s[1]][key] = val]
    /\ reply' = [reply EXCEPT ![s[1]] = <<>>]
    /\ UNCHANGED <<late, tried, control>>

\* Put returns an error, of etcd or of the timeout; etcd executes it before the
\* next call, or later, or never.
PutFails(s, key, val) ==
    /\ Calls(s)
    /\ late' = late \cup {<<s[1], key, val>>}
    /\ tried' = [tried EXCEPT ![s[1]] = @ \cup {key}]
    /\ reply' = [reply EXCEPT ![s[1]] = <<>>]
    /\ UNCHANGED <<kv, mine, control>>

LatePut(w) ==
    /\ Store(Path(w[1], w[2]), w[3]) /\ late' = late \ {w}
    /\ UNCHANGED <<mine, tried, ops, reply, control>>

Get(s, key) ==
    LET x == Path(s[1], key)
    IN  /\ Calls(s)
        /\ reply' = [reply EXCEPT ![s[1]] = <<"get", key, IF x \in DOMAIN kv THEN kv[x] ELSE 0>>]
        /\ UNCHANGED <<kv, late, mine, tried, control>>

\* Get and ListKeys return an error of etcd or of the timeout.
ReadFails(s) ==
    /\ Calls(s)
    /\ reply' = [reply EXCEPT ![s[1]] = <<>>]
    /\ UNCHANGED <<kv, late, mine, tried, control>>

\* Mutant: the prefix stays in the names.
KeepsPrefix(p, x) == x
TrimPrefix(p, x) ==
    LET root == KeyValueStore(p) \o <<"/">>
    IN  IF IsPrefix(root, x) THEN SubSeq(x, Len(root) + 1, Len(x)) ELSE x

ListKeys(s, prefix) ==
    LET p == s[1]
        found == {x \in DOMAIN kv : kv[x] # 0 /\ IsPrefix(Join(KeyValueStore(p), prefix), x)}
    IN  /\ Calls(s)
        /\ reply' = [reply EXCEPT ![p] = <<"list", prefix, {TrimPrefix(p, x) : x \in found}>>]
        /\ UNCHANGED <<kv, late, mine, tried, control>>

-----------------------------------------------------------------------------
Gateway(s) ==
    \/ Skip(s) \/ NoStore(s) \/ Serve(s) \/ Accept(s) \/ NewServer(s) \/ RegisterAndServe(s)
    \/ StopOnDone(s) \/ CallReturns(s) \/ Select(s) \/ Return(s)

StoreCall(s) ==
    \/ \E key \in Keys : Get(s, key)
    \/ \E key \in Keys, val \in Values : Put(s, key, val) \/ PutFails(s, key, val)
    \/ ReadFails(s)
    \/ \E prefix \in Asked : ListKeys(s, prefix)

Callback(s) == Dial(s) \/ CallbackReturns(s)

Next ==
    \/ \E s \in Sessions : Gateway(s) \/ Callback(s) \/ StoreCall(s)
    \/ \E p \in Loaded : ContextDone(p) \/ Exit(p)
    \/ \E w \in late : LatePut(w)

Spec == Init /\ [][Next]_vars

\* The gateway's goroutines run; nothing is assumed of the plugins.
Fairness == \A s \in Sessions : WF_vars(Gateway(s))

LiveSpec == Spec /\ Fairness

-----------------------------------------------------------------------------
(* Properties *)

\* When serveSystemApi has returned, no server of it is left and none comes
\* later: the callback's end and the server's start race.
NothingLeftServing ==
    \A s \in Sessions : main[s] = "returned" =>
        srv[s] = "stopped" \/ (s[2] = "kv" /\ s[1] \notin Valid)

\* ListKeys answers with the plugin's own keys, named as it named them, that
\* begin with the prefix: all that it put with success, and of those whose put
\* failed the ones that etcd executed. path.Join takes a trailing "/" off the
\* prefix.
ListsOwnKeys ==
    \A p \in Plugins : reply[p] # <<>> /\ reply[p][1] = "list" =>
        LET asked == reply[p][2]
            prefix == IF asked # <<>> /\ asked[Len(asked)] = "/" THEN Front(asked) ELSE asked
            put == {k \in Keys : mine[p][k] # 0 /\ IsPrefix(prefix, k)}
            unsure == {k \in tried[p] : IsPrefix(prefix, k)}
        IN  put \subseteq reply[p][3] /\ reply[p][3] \subseteq put \cup unsure

\* serveSystemApi returns after the plugin has gone, unless the process ends or
\* the broker could not accept: then nobody closes srvLock.
ServeEnds ==
    \A s \in Sessions : (s[1] \in gone /\ main[s] # "start") ~>
        (main[s] \in {"returned", "ended"} \/ acc[s] = "failed")
=============================================================================
