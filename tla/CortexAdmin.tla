----------------------------- MODULE CortexAdmin -----------------------------
(***************************************************************************)
(* The Cortex administration API (plugins/cortex/pkg/cortex/admin.go): what *)
(* each call sends to Cortex for which tenants, and what it makes of the    *)
(* reply. The calls keep nothing; what they wait for is a set of Futures.    *)
(*                                                                         *)
(* A reply to an HTTP request is a record: "sent" is FALSE if there is none, *)
(* and "read" is FALSE if its body cannot be read or decoded. An answer is  *)
(* <<>> for an error and <<x>> for x.                                       *)
(***************************************************************************)
EXTENDS Naturals, Sequences, SequencesExt

-----------------------------------------------------------------------------
(* The codec of a header with several IDs (pkg/util/codecs.go). A string is  *)
(* the sequence of its pieces between the delimiters; a piece is a name, ""  *)
(* if there is none, and the sides that have spaces.                        *)

EmptyString == << [name |-> "", pad |-> {}] >>

TrimPiece(p, sides) ==
    IF p.name = "" /\ sides # {} THEN EmptyString[1] ELSE [p EXCEPT !.pad = @ \ sides]

TrimSpace(s) ==
    [i \in DOMAIN s |->
        TrimPiece(s[i], {side \in {"left", "right"} : i = IF side = "left" THEN 1 ELSE Len(s)})]

\* Join of no strings is the empty string.
Encode(ids) ==
    LET filtered == SelectSeq(ids, LAMBDA id : id # EmptyString)
    IN  IF filtered = <<>> THEN EmptyString
        ELSE FlattenSeq([i \in DOMAIN filtered |-> TrimSpace(filtered[i])])

DecodeIDs(s) == [i \in DOMAIN s |-> TrimPiece(s[i], {"left", "right"})]

-----------------------------------------------------------------------------
(* Clients *)

\* configureAdminClients: an address that cannot be dialled ends the process,
\* so the clients are set in this order and none is set to nothing.
configureAdminClients(dials) ==
    IF ~dials["distributor"] THEN [exit |-> TRUE, set |-> {}]
    ELSE IF ~dials["ingester"] THEN [exit |-> TRUE, set |-> {"distributorClient"}]
    ELSE [exit |-> FALSE, set |-> {"distributorClient", "ingesterClient", "cortexHttpClient"}]

\* The Futures a call gets before it sends anything.
Awaits(rpc) == IF rpc = "WriteMetrics" THEN {"ingesterClient"} ELSE {"cortexHttpClient", "config"}

-----------------------------------------------------------------------------
(* Calls *)

Received(reply) == reply.sent /\ reply.status = 200 /\ reply.read

StatsEntry(s) ==
    [UserID |-> s.userID, IngestionRate |-> s.ingestionRate, NumSeries |-> s.numSeries,
     APIIngestionRate |-> s.APIIngestionRate, RuleIngestionRate |-> s.RuleIngestionRate]

AllUserStats(reply) ==
    IF Received(reply) THEN << [i \in DOMAIN reply.body |-> StatsEntry(reply.body[i])] >> ELSE <<>>

mapLabels(l) == [Name |-> l.name, Value |-> l.value]

mapSamples(s) == [TimestampMs |-> s.timestampMs, Value |-> s.value]

mapExemplars(e) ==
    [Value |-> e.value, TimestampMs |-> e.timestampMs,
     Labels |-> [i \in DOMAIN e.labels |-> mapLabels(e.labels[i])]]

mapMetadata(d) ==
    [Type |-> d.type, MetricFamilyName |-> d.metricFamilyName, Help |-> d.help, Unit |-> d.unit]

mapTimeSeries(t) ==
    [Labels |-> [i \in DOMAIN t.labels |-> mapLabels(t.labels[i])],
     Samples |-> [i \in DOMAIN t.samples |-> mapSamples(t.samples[i])],
     Exemplars |-> [i \in DOMAIN t.exemplars |-> mapExemplars(t.exemplars[i])]]

\* The one tenant of a write is the cluster it is for.
outgoingContext(in) == [orgid |-> in.clusterID]

\* What WriteMetrics pushes to the ingester, if anything.
Pushes(in) ==
    IF in.clusterID = "" THEN <<>>
    ELSE << [context |-> outgoingContext(in),
             Timeseries |-> [i \in DOMAIN in.timeseries |-> mapTimeSeries(in.timeseries[i])],
             Source |-> "API",
             Metadata |-> [i \in DOMAIN in.metadata |-> mapMetadata(in.metadata[i])]] >>

WriteMetrics(in, pushed) ==
    IF in.clusterID = "" THEN "InvalidArgument" ELSE IF pushed THEN "OK" ELSE "error"

\* The request of a query, and the answer to it.
Query(in) ==
    [path |-> "query", form |-> [query |-> in.query], tenants |-> Encode(in.tenants)]

QueryRange(in) ==
    [path |-> "query_range",
     form |-> [query |-> in.query, start |-> in.start, end |-> in.end, step |-> in.step],
     tenants |-> Encode(in.tenants)]

QueryResponse(reply) == IF Received(reply) THEN << [Data |-> reply.body] >> ELSE <<>>
=============================================================================
