---------------------------- MODULE RuleNotifier ----------------------------
(***************************************************************************)
(* The rule update notifier of the agent (pkg/rules/notifier.go,           *)
(* periodic.go): receivers subscribe with NotifyC and unsubscribe by       *)
(* cancelling their context, while FetchRules looks the rule groups up and *)
(* puts a changed list on every subscribed channel that has room.          *)
(*                                                                         *)
(* A list of rule groups is a number, 0 for the empty list. NotifyC, the   *)
(* removal of a channel and the wait for a first receiver hold channelsMu  *)
(* throughout and are one step each. So is the end of FetchRules: what it  *)
(* does before it takes channelsMu is guarded by latestMu, which nothing   *)
(* but FetchRules uses.                                                    *)
(***************************************************************************)
EXTENDS Naturals, Sequences

CONSTANTS Receivers,  \* calls of NotifyC
          Fetchers,   \* goroutines that call FetchRules over and over
          BufCap,     \* capacity of a channel (3)
          MaxChanges  \* bound on changes of the rule groups in the cluster

ASSUME RuleNotifierAssumption == BufCap \in Nat \ {0} /\ MaxChanges \in Nat

VARIABLES
    groups,      \* the rule groups in the cluster
    latest,      \* the list FetchRules found last
    subscribed,  \* receivers whose channel is in updateChannels
    rpc,         \* "out", "in", "cancelled" or "gone": the state of a receiver
    buf,         \* buf[r]: contents of the channel of r
    fpc,         \* where each fetcher is
    found,       \* found[f]: what FindGroups returned
    heard,       \* history: the list r's channel was given last, or the latest when r came
    dropped      \* history: receivers whose channel was full at the last update

receivers == <<subscribed, rpc, buf, heard, dropped>>
vars == <<groups, latest, receivers, fpc, found>>

Lists == 0 .. MaxChanges

TypeOK ==
    /\ groups \in Lists /\ latest \in Lists
    /\ subscribed \in SUBSET Receivers
    /\ rpc \in [Receivers -> {"out", "in", "cancelled", "gone"}]
    /\ buf \in [Receivers -> Seq(Lists)]
    /\ \A r \in Receivers : Len(buf[r]) <= BufCap
    /\ fpc \in [Fetchers -> {"idle", "start", "waiting", "find", "deliver", "ended"}]
    /\ found \in [Fetchers -> Lists]
    /\ heard \in [Receivers -> Lists]
    /\ dropped \in SUBSET Receivers

Init ==
    /\ groups \in Lists
    /\ latest = 0
    /\ subscribed = {}
    /\ rpc = [r \in Receivers |-> "out"]
    /\ buf = [r \in Receivers |-> <<>>]
    /\ fpc = [f \in Fetchers |-> "idle"]
    /\ found = [f \in Fetchers |-> 0]
    /\ heard = [r \in Receivers |-> 0]
    /\ dropped = {}

-----------------------------------------------------------------------------
\* Somebody edits the rules.
RulesChange ==
    /\ groups < MaxChanges
    /\ groups' = groups + 1
    /\ UNCHANGED <<latest, receivers, fpc, found>>

\* Mutant: only the very first receiver wakes up the fetchers.
BroadcastOnce ==
    fpc' = IF \A r \in Receivers : rpc[r] = "out"
           THEN [f \in Fetchers |-> IF fpc[f] = "waiting" THEN "start" ELSE fpc[f]]
           ELSE fpc

\* The condition variable: the first channel in the list wakes up the fetchers.
Broadcast ==
    fpc' = IF subscribed = {}
           THEN [f \in Fetchers |-> IF fpc[f] = "waiting" THEN "start" ELSE fpc[f]]
           ELSE fpc

NotifyC(r) ==
    /\ rpc[r] = "out"
    /\ rpc' = [rpc EXCEPT ![r] = "in"]
    /\ subscribed' = subscribed \cup {r}
    /\ Broadcast
    /\ heard' = [heard EXCEPT ![r] = latest]
    /\ UNCHANGED <<groups, latest, buf, found, dropped>>

\* The receiver's context is cancelled; a goroutine then removes its channel.
Cancel(r) ==
    /\ rpc[r] = "in"
    /\ rpc' = [rpc EXCEPT ![r] = "cancelled"]
    /\ UNCHANGED <<groups, latest, subscribed, buf, fpc, found, heard, dropped>>

RemoveChannel(r) ==
    /\ rpc[r] = "cancelled"
    /\ rpc' = [rpc EXCEPT ![r] = "gone"]
    /\ subscribed' = subscribed \ {r}
    /\ UNCHANGED <<groups, latest, buf, fpc, found, heard, dropped>>

Receive(r) ==
    /\ buf[r] # <<>>
    /\ buf' = [buf EXCEPT ![r] = Tail(@)]
    /\ UNCHANGED <<groups, latest, subscribed, rpc, fpc, found, heard, dropped>>

-----------------------------------------------------------------------------
(* FetchRules *)

Fetch(f, l) == fpc' = [fpc EXCEPT ![f] = l]

\* The periodic notifier calls FetchRules at once, and then at every tick.
Tick(f) ==
    /\ fpc[f] = "idle"
    /\ Fetch(f, "start")
    /\ UNCHANGED <<groups, latest, receivers, found>>

\* Between two calls the loop sees that its context is cancelled.
TickerStops(f) ==
    /\ fpc[f] = "idle"
    /\ Fetch(f, "ended")
    /\ UNCHANGED <<groups, latest, receivers, found>>

\* Without a channel in the list, wait for one.
AwaitReceiver(f) ==
    /\ fpc[f] = "start"
    /\ Fetch(f, IF subscribed = {} THEN "waiting" ELSE "find")
    /\ UNCHANGED <<groups, latest, receivers, found>>

\* FindGroups asks the Kubernetes API; after an error FetchRules returns.
FindGroups(f) ==
    /\ fpc[f] = "find"
    /\ found' = [found EXCEPT ![f] = groups]
    /\ Fetch(f, "deliver")
    /\ UNCHANGED <<groups, latest, receivers>>

FindGroupsFails(f) ==
    /\ fpc[f] = "find"
    /\ Fetch(f, "idle")
    /\ UNCHANGED <<groups, latest, receivers, found>>

\* Mutant: one receiver that does not keep up holds the update from all.
AllHaveRoom(r) == r \in subscribed /\ \A q \in subscribed : Len(buf[q]) < BufCap

HasRoom(r) == r \in subscribed /\ Len(buf[r]) < BufCap

Modified(f) == found[f] # latest

Deliver(f) ==
    /\ fpc[f] = "deliver"
    /\ Fetch(f, "idle")
    /\ IF Modified(f)
       THEN /\ latest' = found[f]
            /\ buf' = [r \in Receivers |->
                          IF HasRoom(r) THEN Append(buf[r], found[f]) ELSE buf[r]]
            /\ heard' = [r \in Receivers |-> IF HasRoom(r) THEN found[f] ELSE heard[r]]
            /\ dropped' = {r \in subscribed : Len(buf[r]) = BufCap}
       ELSE UNCHANGED <<latest, buf, heard, dropped>>
    /\ UNCHANGED <<groups, subscribed, rpc, found>>

-----------------------------------------------------------------------------
FetchRules(f) == Tick(f) \/ AwaitReceiver(f) \/ FindGroups(f) \/ Deliver(f)

\* The receivers have left: the fetchers wait, whatever becomes of their
\* context, or have ended.
Abandoned ==
    /\ \A r \in Receivers : rpc[r] = "gone" /\ buf[r] = <<>>
    /\ \A f \in Fetchers : fpc[f] \in {"waiting", "ended"}
    /\ UNCHANGED vars

Next ==
    \/ RulesChange
    \/ \E r \in Receivers : NotifyC(r) \/ Cancel(r) \/ RemoveChannel(r) \/ Receive(r)
    \/ \E f \in Fetchers : FetchRules(f) \/ FindGroupsFails(f) \/ TickerStops(f)
    \/ Abandoned

Spec == Init /\ [][Next]_vars

-----------------------------------------------------------------------------
(* Properties *)

\* No wakeup is lost: a fetcher waits only while there is no receiver, however
\* receivers come and go.
NoLostWakeup == \A f \in Fetchers : fpc[f] = "waiting" => subscribed = {}

\* A subscribed receiver that takes its updates in time is never left behind:
\* unless the last update was dropped because its channel was full, its
\* channel was given the latest list, or nothing changed since it subscribed.
SubscriberCurrent == \A r \in subscribed \ dropped : heard[r] = latest

\* Nothing is put on the channel of a receiver that was removed, although the
\* channel is not closed (notifier_test.go: "should handle deleting receivers").
NothingAfterRemoval ==
    [][\A r \in Receivers : rpc[r] = "gone" => Len(buf'[r]) <= Len(buf[r])]_vars

\* types.go: the channel "will initially contain the latest rule group list". Does
\* not hold: NotifyC makes an empty channel, and only changes are sent.
InitiallyLatest ==
    [][\A r \in Receivers : rpc[r] = "out" /\ rpc'[r] = "in" /\ latest # 0
          => buf'[r] = <<latest>>]_vars
=============================================================================
