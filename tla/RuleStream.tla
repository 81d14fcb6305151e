----------------------------- MODULE RuleStream -----------------------------
(***************************************************************************)
(* The agent's rule stream (pkg/agent/rules.go) on top of the notifier:    *)
(* a forwarder starts a goroutine per update that marshals it onto a       *)
(* buffered channel, the main loop moves the documents to `pending', and   *)
(* a sender posts them to the gateway until every one is accepted, unless  *)
(* another update arrives while it backs off.                              *)
(*                                                                         *)
(* Everything runs under one context: cancelling it is Cancel(Stream) of   *)
(* the notifier. A panic ends the agent, so no action follows it.          *)
(***************************************************************************)
EXTENDS RuleNotifier

CONSTANTS Stream,  \* the agent's own receiver
          Size     \* Size[l]: number of documents list l is marshalled to

ASSUME RuleStreamAssumption == Stream \in Receivers /\ Size \in [Lists -> Nat]

VARIABLES
    marshalling,  \* lists that a goroutine marshals or waits to hand over
    docsC,        \* channel groupYamlDocs
    main,         \* main loop: "select", "push", "returned" or "panicked"
    moving,       \* list the main loop is about to push
    pending,      \* channel pending, of capacity 1
    closed,       \* pending is closed
    sender,       \* sender: "take", "send", "backoff" or "ended"
    sending,      \* list the sender is at
    next,         \* documents of it accepted in this attempt
    accepted,     \* history: <<list, document>> pairs the gateway accepted
    sent,         \* history: lists reported as sent
    replaced      \* history: lists given up for another during backoff

stream == <<marshalling, docsC, main, moving, pending, closed>>
sends == <<sender, sending, next, accepted, sent, replaced>>
allVars == <<vars, stream, sends>>

Cancelled == rpc[Stream] \in {"cancelled", "gone"}
Alive == main # "panicked"

StreamInit ==
    /\ Init
    /\ marshalling = {} /\ docsC = <<>> /\ main = "select" /\ moving = 0
    /\ pending = <<>> /\ closed = FALSE
    /\ sender = "take" /\ sending = 0 /\ next = 0
    /\ accepted = {} /\ sent = {} /\ replaced = {}

-----------------------------------------------------------------------------
(* streamRuleGroupUpdates *)

\* The forwarder takes an update and starts a goroutine for it. It ignores the
\* context, and its channel is never closed.
Forward ==
    /\ Receive(Stream)
    /\ marshalling' = marshalling \cup {Head(buf[Stream])}
    /\ UNCHANGED <<docsC, main, moving, pending, closed, sends>>

\* The goroutines hand over in any order.
HandOver(l) ==
    /\ l \in marshalling
    /\ Len(docsC) < BufCap
    /\ docsC' = Append(docsC, l)
    /\ marshalling' = marshalling \ {l}
    /\ UNCHANGED <<vars, main, moving, pending, closed, sends>>

-----------------------------------------------------------------------------
(* streamRulesToGateway: the main loop *)

MainTakes ==
    /\ main = "select" /\ docsC # <<>>
    /\ main' = "push" /\ moving' = Head(docsC) /\ docsC' = Tail(docsC)
    /\ UNCHANGED <<vars, marshalling, pending, closed, sends>>

MainReturns ==
    /\ main = "select" /\ Cancelled
    /\ main' = "returned"
    /\ UNCHANGED <<vars, marshalling, docsC, moving, pending, closed, sends>>

\* Mutant: a full channel drops the update.
DropsWhenFull ==
    /\ main = "push" /\ ~closed
    /\ main' = "select"
    /\ pending' = IF pending = <<>> THEN <<moving>> ELSE pending
    /\ UNCHANGED <<vars, marshalling, docsC, moving, closed, sends>>

\* The push waits for room.
MainPushes ==
    /\ main = "push" /\ ~closed /\ pending = <<>>
    /\ main' = "select" /\ pending' = <<moving>>
    /\ UNCHANGED <<vars, marshalling, docsC, moving, closed, sends>>

\* A push to the channel the sender closed panics, whether it waits or begins.
MainPanics ==
    /\ main = "push" /\ closed
    /\ main' = "panicked"
    /\ UNCHANGED <<vars, marshalling, docsC, moving, pending, closed, sends>>

-----------------------------------------------------------------------------
(* streamRulesToGateway: the sender *)

SenderTakes ==
    /\ sender = "take" /\ pending # <<>>
    /\ sender' = "send" /\ sending' = Head(pending) /\ next' = 0
    /\ pending' = Tail(pending)
    /\ UNCHANGED <<vars, marshalling, docsC, main, moving, closed, accepted, sent, replaced>>

\* Mutant: the sender gives up on a failure.
EndsInBackoff ==
    /\ sender \in {"take", "backoff"} /\ (Cancelled \/ sender = "backoff")
    /\ sender' = "ended" /\ closed' = TRUE
    /\ UNCHANGED <<vars, marshalling, docsC, main, moving, pending,
                   sending, next, accepted, sent, replaced>>

SenderEnds ==
    /\ sender \in {"take", "backoff"} /\ Cancelled
    /\ sender' = "ended" /\ closed' = TRUE
    /\ UNCHANGED <<vars, marshalling, docsC, main, moving, pending,
                   sending, next, accepted, sent, replaced>>

PostAccepted(i) ==
    /\ sender = "send" /\ next = i /\ next < Size[sending]
    /\ next' = next + 1
    /\ accepted' = accepted \cup {<<sending, next>>}
    /\ UNCHANGED <<vars, stream, sender, sending, sent, replaced>>

PostFails ==
    /\ sender = "send" /\ next < Size[sending]
    /\ sender' = "backoff"
    /\ UNCHANGED <<vars, stream, sending, next, accepted, sent, replaced>>

AllSent ==
    /\ sender = "send" /\ next = Size[sending]
    /\ sender' = "take" /\ sent' = sent \cup {sending}
    /\ UNCHANGED <<vars, stream, sending, next, accepted, replaced>>

\* Mutant: the attempt on the new list resumes where the old one failed.
ResumesNewer ==
    /\ sender = "backoff" /\ pending # <<>>
    /\ sender' = "send" /\ sending' = Head(pending)
    /\ next' = IF next < Size[Head(pending)] THEN next ELSE Size[Head(pending)]
    /\ replaced' = replaced \cup {sending}
    /\ pending' = Tail(pending)
    /\ UNCHANGED <<vars, marshalling, docsC, main, moving, closed, accepted, sent>>

\* Another update arrives during the backoff: it replaces the one that failed.
RetryNewer ==
    /\ sender = "backoff" /\ pending # <<>>
    /\ sender' = "send" /\ sending' = Head(pending) /\ next' = 0
    /\ replaced' = replaced \cup {sending}
    /\ pending' = Tail(pending)
    /\ UNCHANGED <<vars, marshalling, docsC, main, moving, closed, accepted, sent>>

\* The backoff elapses: all documents of the list are sent again.
RetrySame ==
    /\ sender = "backoff"
    /\ sender' = "send" /\ next' = 0
    /\ UNCHANGED <<vars, stream, sending, accepted, sent, replaced>>

-----------------------------------------------------------------------------
\* The notifier may have other receivers besides the stream. Its loop stops with
\* the agent's context.
Notifier ==
    /\ \/ RulesChange
       \/ \E r \in Receivers : NotifyC(r) \/ Cancel(r) \/ RemoveChannel(r)
       \/ \E r \in Receivers \ {Stream} : Receive(r)
       \/ \E f \in Fetchers : FetchRules(f) \/ FindGroupsFails(f) \/ (TickerStops(f) /\ Cancelled)
    /\ UNCHANGED <<stream, sends>>

Main == MainTakes \/ MainReturns \/ MainPushes \/ MainPanics
Backoff == RetryNewer \/ RetrySame \/ (SenderEnds /\ sender = "backoff")
Documents == UNION {0 .. Size[l] - 1 : l \in Lists}

StreamNext ==
    /\ Alive
    /\ \/ Notifier \/ Forward \/ Main \/ Backoff
       \/ \E l \in Lists : HandOver(l)
       \/ SenderTakes \/ SenderEnds
       \/ \E i \in Documents : PostAccepted(i)
       \/ PostFails \/ AllSent

StreamSpec == StreamInit /\ [][StreamNext]_allVars

\* Goroutines that can run do run, a document that is posted over and over is
\* accepted over and over, and so are lookups of the rules answered.
StreamFairSpec ==
    /\ StreamSpec
    /\ WF_allVars(Alive /\ Forward) /\ WF_allVars(Alive /\ Main)
    /\ \A l \in Lists : WF_allVars(Alive /\ HandOver(l))
    /\ WF_allVars(Alive /\ SenderTakes) /\ WF_allVars(Alive /\ AllSent)
    /\ WF_allVars(Alive /\ Backoff)
    /\ WF_allVars(Alive /\ (PostFails \/ \E i \in Documents : PostAccepted(i)))
    /\ \A i \in Documents : SF_allVars(Alive /\ PostAccepted(i))
    /\ \A f \in Fetchers : /\ WF_allVars(Alive /\ FetchRules(f) /\ UNCHANGED <<stream, sends>>)
                           /\ SF_allVars(Alive /\ FindGroups(f) /\ UNCHANGED <<stream, sends>>)

-----------------------------------------------------------------------------
(* Properties *)

\* What the agent logs as successfully sent was accepted document by document,
\* whatever failed, was retried or was replaced on the way.
ReportedComplete ==
    \A l \in sent : \A i \in 0 .. Size[l] - 1 : <<l, i>> \in accepted

\* The send on the closed channel is reached only when the agent is shutting
\* down: no failure of the gateway panics the main loop.
PanicOnlyAtShutdown == main = "panicked" => Cancelled

\* When the rules stop changing, FetchRules finds the last of them for as long as
\* the stream listens.
FetchCatchesUp ==
    \A l \in Lists : <>[](groups = l /\ rpc[Stream] = "in") => <>[](latest = l)

\* Every update the forwarder took is sent to the gateway or replaced by
\* another one, as long as the agent runs.
EveryUpdateHandled ==
    \A l \in Lists : l \in marshalling ~> (l \in sent \cup replaced \/ Cancelled)

\* rules.go: "updated rules were received during backoff" -- what replaces a
\* list that could not be sent is newer. Does not hold: the goroutines that marshal
\* two updates may hand them over in the other order.
NewerReplaces == [][\A l \in replaced' \ replaced : sending' > l]_allVars
=============================================================================
