---------------------------- MODULE RuleAggregator ----------------------------
(***************************************************************************)
(* MultiTenantRuleAggregator of the cortex plugin                          *)
(* (plugins/cortex/pkg/cortex/aggregation.go): a request for rules is      *)
(* repeated once for each tenant the user may read, and the replies are    *)
(* merged into one. All of it happens in the one response object of the    *)
(* request, which every forwarded request overwrites. Requests share only  *)
(* the pool of buffers; here they follow one another.                      *)
(*                                                                         *)
(* A body is a sequence of tokens: <<tenant, number>> is a rule group, and *)
(* the punctuation and other texts are tuples of one string.               *)
(***************************************************************************)
EXTENDS Naturals, FiniteSets, SequencesExt

CONSTANTS Tenants,
          MaxGroups   \* rule groups of a tenant

Open == <<"open">>
Close == <<"close">>
Comma == <<",">>

\* What the ruler may answer for a tenant (external). "zstd" stands for an
\* encoding the aggregator does not know, "error" for a Prometheus status other
\* than success, "garbled" for a body that does not decode.
Replies ==
    [code : {200}, body : {"groups"}, n : 0 .. MaxGroups, enc : {"", "gzip"}]
    \cup [code : {200}, body : {"error", "garbled"}, n : {0}, enc : {"", "gzip"}]
    \cup [code : {200}, body : {"groups"}, n : {1}, enc : {"zstd"}]
    \cup [code : {404}, body : {"error"}, n : {0}, enc : {"", "gzip"}]
    \cup [code : {500}, body : {"error"}, n : {0}, enc : {""}]

\* The authorized cluster IDs come in any order.
Orders == UNION {{s \in [1 .. k -> Tenants] : IsInjective(s)} : k \in 0 .. Cardinality(Tenants)}

VARIABLES pc, format, ids,
          at,       \* the number of tenants asked
          buf,      \* the buffer
          count,    \* groupCount
          resp,     \* the response object: code, encoding header and body
          replies   \* history: what the tenants replied to this request

vars == <<pc, format, ids, at, buf, count, resp, replies>>

Empty == [code |-> 200, enc |-> "", body |-> <<>>]

Init ==
    /\ pc = "idle" /\ format = "json" /\ ids = <<>> /\ at = 0
    /\ buf = <<>> /\ count = 0 /\ resp = Empty /\ replies = <<>>

-----------------------------------------------------------------------------
\* Mutant: the pool hands out the buffer of an earlier request as it was left.
ReusedBuffers == {<<>>, buf}

\* No buffer is ever put back into the pool, so each one is new.
PoolBuffers == {<<>>}

Start ==
    /\ pc \in {"idle", "answered", "error"}
    /\ format' \in {"yaml", "json"} /\ ids' \in Orders
    /\ \E b \in PoolBuffers : buf' = Append(b, Open)
    /\ pc' = "asking" /\ at' = 0 /\ count' = 0 /\ resp' = Empty /\ replies' = <<>>

\* The body of tenant t's reply, decoded.
Decoded(t, reply) ==
    IF reply.body = "groups" THEN [i \in 1 .. reply.n |-> <<t, i>>] ELSE << <<reply.body>> >>

\* The forwarded response replaces the response object.
Forwarded(t, reply) == [code |-> reply.code, enc |-> reply.enc, body |-> Decoded(t, reply)]

\* A separator is written before each group but the first of the answer.
Separated(groups, before) ==
    FlattenSeq([i \in DOMAIN groups |->
        IF before + i > 1 THEN <<Comma, groups[i]>> ELSE <<groups[i]>>])

\* A code other than 200 and 404 is the answer, as it is.
Ends(reply) == reply.code \notin {200, 404}

Fails(f, reply) ==
    /\ reply.code = 200
    /\ reply.enc = "zstd" \/ (reply.body = "garbled" /\ (reply.enc = "gzip" \/ f = "json"))

\* cortex reports 404 if there are no groups.
Skips(f, reply) == reply.code = 404 \/ (reply.code = 200 /\ f = "json" /\ reply.body = "error")

AfterMerge(t, reply) == Empty

Merge(t, reply) ==
    LET groups == Decoded(t, reply)
    IN  /\ buf' = buf \o (IF format = "json" THEN Separated(groups, count) ELSE groups)
        /\ count' = IF format = "json" THEN count + Len(groups) ELSE count
        /\ resp' = AfterMerge(t, reply)

Ask(reply) ==
    LET t == ids[at + 1]
    IN  /\ pc = "asking" /\ at < Len(ids)
        /\ at' = at + 1 /\ replies' = Append(replies, reply)
        /\ pc' = IF Ends(reply) THEN "answered" ELSE IF Fails(format, reply) THEN "error" ELSE pc
        /\ IF Ends(reply) \/ Fails(format, reply) \/ Skips(format, reply)
           THEN resp' = Forwarded(t, reply) /\ UNCHANGED <<buf, count>>
           ELSE Merge(t, reply)
        /\ UNCHANGED <<format, ids>>

\* The forwarder fails before there is a response.
AskFails ==
    /\ pc = "asking" /\ at < Len(ids)
    /\ pc' = "error"
    /\ UNCHANGED <<format, ids, at, buf, count, resp, replies>>

Finish ==
    /\ pc = "asking" /\ at = Len(ids)
    /\ buf' = IF format = "json" THEN Append(buf, Close) ELSE buf
    /\ resp' = [resp EXCEPT !.body = buf', !.code = 200]
    /\ pc' = "answered"
    /\ UNCHANGED <<format, ids, at, count, replies>>

Next == Start \/ AskFails \/ Finish \/ \E reply \in Replies : Ask(reply)

-----------------------------------------------------------------------------
(* Properties *)

Answered == pc = "answered" /\ resp.code = 200

IsGroup(x) == x \notin {Open, Comma, Close}

\* A tenant's reply adds nothing to the answer: the tenant has no groups, or the
\* status in the JSON is not success.
PassedOver(i) == replies[i].code = 404 \/ (format = "json" /\ replies[i].body = "error")

\* A 200 answer has what every authorized tenant replied that was not passed over,
\* once each and in the order of the tenants, and nothing of an earlier request.
MergedOnce ==
    Answered => /\ Len(replies) = Len(ids)
                /\ SelectSeq(resp.body, IsGroup)
                    = FlattenSeq([i \in DOMAIN ids |->
                                     IF PassedOver(i) THEN <<>> ELSE Decoded(ids[i], replies[i])])

\* An answer of 200 is for all tenants: no tenant's error is passed over. Does not
\* hold: a reply of 200 with a status other than success is logged and left out.
NoErrorPassedOver ==
    Answered => \A i \in DOMAIN replies : replies[i].body = "error" => replies[i].code = 404

\* A JSON answer is well formed: single commas separate the groups, wherever the
\* tenants without groups are.
WellFormed ==
    Answered /\ format = "json" =>
        LET body == resp.body IN
        /\ body[1] = Open /\ body[Len(body)] = Close
        /\ \A k \in 2 .. Len(body) - 1 : IF k % 2 = 0 THEN IsGroup(body[k]) ELSE body[k] = Comma
        /\ Len(body) = 2 \/ Len(body) % 2 = 1

\* The answer, which is never compressed, is not labelled as compressed. Does not
\* hold: the response object is not reset when a reply is passed over, and the
\* Content-Encoding of the last tenant's reply stays.
LabelTrue == Answered => resp.enc = ""

\* A wrong label is the last tenant's, and nothing else is left of what was passed over.
LabelFromLast ==
    Answered /\ resp.enc # "" => Last(replies).enc = resp.enc /\ PassedOver(Len(replies))

\* An answer other than 200 is the ruler's for one tenant: it has no group of
\* another one, and it is not the 404 of a tenant that has no groups.
ErrorIsTenants ==
    pc = "answered" /\ resp.code # 200 =>
        resp = Forwarded(ids[at], Last(replies)) /\ resp.code # 404

\* All of it: an answer of 200 is the replies that were merged, well formed and of this
\* request alone, and any other answer is one tenant's own error. It does not say that
\* the answer is for all tenants, or has the right Content-Encoding: see
\* NoErrorPassedOver and LabelTrue.
RulesAnswer == MergedOnce /\ WellFormed /\ LabelFromLast /\ ErrorIsTenants
=============================================================================
