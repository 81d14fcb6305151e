--------------------------- MODULE RemoteCollector ---------------------------
(***************************************************************************)
(* The metrics a plugin offers to the gateway's metrics endpoint           *)
(* (pkg/metrics/collector/remote.go). Describe and Collect of the server   *)
(* are the same but for what they gather: a goroutine lets each registered *)
(* collector send its items on a channel and then closes done; the handler *)
(* selects on the channel and on done. A read lock is held meanwhile, and  *)
(* MustRegister takes the write lock. The client gives up after 2 seconds, *)
(* which the handler does not notice.                                      *)
(***************************************************************************)
EXTENDS Naturals, SequencesExt

CONSTANTS Calls,        \* gRPC calls of Describe or Collect, again and again
          Collectors,   \* collectors that are registered while calls are served
          PerCollector, \* items of a collector
          Cap           \* capacity of the channel (1000)

VARIABLES
    collectors,    \* the registered collectors, in order
    register,      \* per collector: the call of MustRegister
    handler,       \* per call: the handler
    sent, done,    \* per call: items sent by the goroutine, and whether it ended
    channel, list, \* per call: the buffered items and the ones received
    gathers,       \* per call: the collectors when it was served
    client         \* per call: the gateway's side

handlers == <<handler, sent, done, channel, list, gathers>>
vars == <<collectors, register, handlers, client>>

Item(k, i) == <<k, i>>
ItemsOf(ks) == FlattenSeq([j \in DOMAIN ks |-> [i \in 1 .. PerCollector |-> Item(ks[j], i)]])
Items == ItemsOf(collectors)

Readers == {c \in Calls : handler[c] = "reading"}

Init ==
    /\ collectors = <<>> /\ register = [k \in Collectors |-> "none"]
    /\ handler = [c \in Calls |-> "idle"] /\ client = [c \in Calls |-> "idle"]
    /\ sent = [c \in Calls |-> 0] /\ done = [c \in Calls |-> FALSE]
    /\ channel = [c \in Calls |-> <<>>] /\ list = [c \in Calls |-> <<>>]
    /\ gathers = [c \in Calls |-> <<>>]

-----------------------------------------------------------------------------
(* MustRegister *)

Register(k) ==
    /\ register[k] = "none"
    /\ register' = [register EXCEPT ![k] = "waiting"]
    /\ UNCHANGED <<collectors, handlers, client>>

Registered(k) ==
    /\ register[k] = "waiting" /\ Readers = {}
    /\ register' = [register EXCEPT ![k] = "registered"]
    /\ collectors' = Append(collectors, k)
    /\ UNCHANGED <<handlers, client>>

-----------------------------------------------------------------------------
(* Describe and Collect *)

Call(c) ==
    /\ client[c] \in {"idle", "answered", "invalid"} /\ handler[c] \in {"idle", "answered"}
    /\ client' = [client EXCEPT ![c] = "waiting"]
    /\ handler' = [handler EXCEPT ![c] = "called"]
    /\ UNCHANGED <<collectors, register, sent, done, channel, list, gathers>>

\* RLock waits for a writer that is waiting.
NoWriterWaits == \A k \in Collectors : register[k] # "waiting"

\* Mutant: a channel is used again with what was left in it.
ReusedChannel(c) == channel[c]

\* The channel comes from a pool that nothing is ever put into.
NewChannel(c) == <<>>

Serve(c) ==
    /\ handler[c] = "called" /\ NoWriterWaits
    /\ handler' = [handler EXCEPT ![c] = "reading"]
    /\ channel' = [channel EXCEPT ![c] = NewChannel(c)]
    /\ sent' = [sent EXCEPT ![c] = 0] /\ done' = [done EXCEPT ![c] = FALSE]
    /\ list' = [list EXCEPT ![c] = <<>>] /\ gathers' = [gathers EXCEPT ![c] = collectors]
    /\ UNCHANGED <<collectors, register, client>>

\* The goroutine: it has ended when the handler answers.
Send(c) ==
    /\ handler[c] = "reading" /\ sent[c] < Len(Items) /\ Len(channel[c]) < Cap
    /\ channel' = [channel EXCEPT ![c] = Append(@, Items[sent[c] + 1])]
    /\ sent' = [sent EXCEPT ![c] = @ + 1]
    /\ UNCHANGED <<collectors, register, handler, done, list, gathers, client>>

CloseDone(c) ==
    /\ handler[c] = "reading" /\ ~done[c] /\ sent[c] = Len(Items)
    /\ done' = [done EXCEPT ![c] = TRUE]
    /\ UNCHANGED <<collectors, register, handler, sent, channel, list, gathers, client>>

Receive(c) ==
    /\ handler[c] = "reading" /\ channel[c] # <<>>
    /\ list' = [list EXCEPT ![c] = Append(@, Head(channel[c]))]
    /\ channel' = [channel EXCEPT ![c] = Tail(@)]
    /\ UNCHANGED <<collectors, register, handler, sent, done, gathers, client>>

\* select takes any case that is ready: done too while items are buffered.
Answer(c) ==
    /\ handler[c] = "reading" /\ done[c]
    /\ handler' = [handler EXCEPT ![c] = "answered"]
    /\ client' = IF client[c] = "waiting" THEN [client EXCEPT ![c] = "answered"] ELSE client
    /\ UNCHANGED <<collectors, register, sent, done, channel, list, gathers>>

\* After 2 seconds the client reports an invalid metric.
ClientTimeout(c) ==
    /\ client[c] = "waiting"
    /\ client' = [client EXCEPT ![c] = "invalid"]
    /\ UNCHANGED <<collectors, register, handlers>>

-----------------------------------------------------------------------------
Handle(c) == Serve(c) \/ Send(c) \/ CloseDone(c) \/ Receive(c) \/ Answer(c)

Next ==
    \/ \E k \in Collectors : Register(k) \/ Registered(k)
    \/ \E c \in Calls : Call(c) \/ Handle(c) \/ ClientTimeout(c)

-----------------------------------------------------------------------------
(* Properties *)

\* An answer is items of the collectors that were registered when the call was
\* served, in order and without a gap, and it lacks no more of the last ones than the
\* channel holds, however scrapes, registrations and timeouts overlap.
AnswerIsPrefix ==
    \A c \in Calls : handler[c] = "answered" =>
        /\ IsPrefix(list[c], ItemsOf(gathers[c]))
        /\ Len(ItemsOf(gathers[c])) - Len(list[c]) <= Cap

\* remote_test.go: "should collect metrics from remote collectors" -- a call that
\* is answered collected every item of the registered collectors. Does not hold:
\* the handler may see done while the channel still holds items.
AllCollected == \A c \in Calls : handler[c] = "answered" => Len(list[c]) = sent[c]
=============================================================================
