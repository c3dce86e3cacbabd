-------------------------------- MODULE Smoke --------------------------------
(***************************************************************************)
(* gib-smoke (smoke/src/main.rs with lib.rs and kafka.rs): one run of the   *)
(* self-test, one request at a time, against a deployment that goes on      *)
(* living: clients send queries, the gateway and the aggregator restart     *)
(* with another configuration, peers go down or stop answering, and Kafka   *)
(* drops old records.                                                       *)
(*                                                                          *)
(* A signed message is what was signed, by whom and under which domain; it  *)
(* recovers to its signer under that domain, and to nobody in particular    *)
(* when it was changed or is read under another one.                        *)
(***************************************************************************)
EXTENDS SmokeLib

CONSTANTS Signers,        \* addresses of keys gateways and aggregators may hold
          SignerKey,      \* the signer of gateway.json
          WrongKey,       \* the fixed key of the last negative test
          ChainId,        \* chain id of gateway.json
          Verifier,       \* verifier of gateway.json
          Aggregators,    \* configurations an aggregator may run with
          OldTopics,      \* what gateway_queries may hold before the run
          IndexerCounts,  \* indexer counts a topology source may report
          SubgraphCounts, \* subgraph counts it may report
          Polls,          \* how often the run looks for the record (25 in the code)
          PageMax,        \* how many records one fetch brings (max_bytes)
          MaxTopic,       \* bound: length of gateway_queries
          MaxChanges      \* bound: how often the deployment changes during the run

ASSUME SignerAssumption == SignerKey \in Signers /\ WrongKey # SignerKey
ASSUME DomainAssumption == ChainId \in Nat
ASSUME AggregatorAssumption ==
  Aggregators \subseteq
    [key : Signers, accepts : SUBSET (Signers \union {WrongKey}), honest : BOOLEAN,
     info : [verifyingContract : STRING, form : {"number", "hex", "dec"},
             digits : Seq(0 .. 15)]]
ASSUME DigitsAssumption ==
  \A a \in Aggregators : a.info.form # "hex" => Decimal(a.info.digits)
ASSUME CountAssumption == IndexerCounts \subseteq Nat /\ SubgraphCounts \subseteq Nat
ASSUME LimitAssumption == Polls \in Nat \ {0} /\ PageMax \in Nat /\ MaxTopic \in Nat
                            /\ MaxChanges \in Nat

Peers == {"topology", "gateway", "pandaproxy", "aggregator"}
Modes == {"up", "down", "hung"}
Junk == "nobody"      \* what a changed message recovers to
Garbage == "garbage"  \* a signature from which nothing is recovered

ASSUME NobodyAssumption == Junk \notin Signers /\ Garbage \notin Signers
ASSUME TopicAssumption ==
  OldTopics \subseteq Seq([signer : Signers \union {Junk}, candidates : {0, 1},
                           by : {"client", "smoke", "junk"}])

NoRecord == [signer |-> Junk, candidates |-> 0, by |-> "none"]
NoAggregator ==
  [key |-> Junk, accepts |-> {}, honest |-> FALSE,
   info |-> [verifyingContract |-> "none", form |-> "number", digits |-> << >>]]

VARIABLES
  peers,           \* how each peer of the run answers
  gateway_signer,  \* signer the running gateway was started with
  aggregator,      \* configuration the running aggregator was started with
  topic,           \* partition 0 of gateway_queries, offset 0 first
  first,           \* lowest offset Kafka still holds
  owed,            \* record of the run's own query, not written yet
  changes,         \* how often the deployment changed
  pc,              \* the request the run sends next
  rows,            \* the table: the checks made, and whether each passed
  baseline,        \* highest offset seen before the query, -1 if none
  polls,           \* how often the run has looked for the record
  record,          \* the record it found
  domain_ok,       \* whether the aggregator's advertised domain matched
  exit,            \* the exit code, -1 while the run goes on
  mark,            \* history: length of the topic when the baseline was read
  read,            \* history: whether the baseline request brought records
  rav_by,          \* history: the aggregator that made the RAV
  replies          \* history: what became of the two bad receipts

deployment == <<peers, gateway_signer, aggregator, first, changes>>
kafka == <<topic, owed>>
found == <<baseline, polls, record, domain_ok>>
hist == <<mark, read, rav_by, replies>>
vars == <<deployment, kafka, pc, rows, found, exit, hist>>

-----------------------------------------------------------------------------
(***************************************************************************)
(* Domains, messages and the aggregator.                                    *)
(***************************************************************************)
\* The chain id an aggregator advertises, and the domain it works in.
ChainOf(info) == Value(info.digits, IF info.form = "hex" THEN 16 ELSE 10)
DomainOf(info) == <<ChainOf(info), info.verifyingContract>>

\* What gateway.json says of it, and the domain it means.
cfg == [chain_id |-> ChainId, verifier |-> Verifier]
domain == <<cfg.chain_id, cfg.verifier>>

recover_signer(m, d) == IF m.domain = d /\ m.value = m.signed THEN m.signer ELSE Junk

mint_receipt(signer, v) ==
  [signer |-> signer, domain |-> domain, signed |-> v, value |-> v]

\* The RAV an aggregator with configuration a makes of receipts of the payer and
\* data service of gateway.json.
RavOf(a, total) ==
  [signer |-> a.key, domain |-> DomainOf(a.info), signed |-> total, value |-> total,
   payer |-> TRUE, data_service |-> TRUE]

\* What a broken aggregator may send instead.
BrokenRavs ==
  [signer : {SignerKey, Garbage}, domain : {domain}, signed : {600},
   value : {600, 1}, payer : BOOLEAN, data_service : BOOLEAN]

NoReply(kind) == [kind |-> kind, rav |-> RavOf(aggregator, 0)]

\* What aggregate may return for receipts of the given total.
aggregate(receipts, total) ==
  IF peers["aggregator"] = "down" THEN {NoReply("unreachable")}
  ELSE IF ~ aggregator.honest
  THEN {NoReply("rejected")} \union [kind : {"rav"}, rav : BrokenRavs]
  ELSE IF \A r \in receipts : recover_signer(r, DomainOf(aggregator.info)) \in
                                {aggregator.key} \union aggregator.accepts
  THEN {[kind |-> "rav", rav |-> RavOf(aggregator, total)]}
  ELSE {NoReply("rejected")}

\* Mutant: whoever signed the RAV will do.
verify_rav_of_anyone(rav) ==
  {[check |-> "d signer", pass |-> TRUE],
   [check |-> "d domain", pass |-> domain_ok],
   [check |-> "d value", pass |-> rav.value = 600],
   [check |-> "e payer", pass |-> rav.payer],
   [check |-> "e data service", pass |-> rav.data_service]}

\* verify_rav, as the set of rows it leads to.
verify_rav(rav) ==
  {[check |-> "d signer", pass |-> recover_signer(rav, domain) = SignerKey],
   [check |-> "d domain", pass |-> domain_ok],
   [check |-> "d value", pass |-> rav.value = 600],
   [check |-> "e payer", pass |-> rav.payer],
   [check |-> "e data service", pass |-> rav.data_service]}

-----------------------------------------------------------------------------
(***************************************************************************)
(* gateway_queries, read over the HTTP proxy.                               *)
(***************************************************************************)
\* A fetch from offset 0 fails when the proxy is down and when Kafka has dropped
\* that offset.
FetchOk == peers["pandaproxy"] = "up" /\ first = 0

\* The offsets of the decoded records of a fetch from offset 0: one page at most.
Page == {i - 1 : i \in {j \in DOMAIN topic : j <= PageMax /\ topic[j].by # "junk"}}

\* latest_client_query: the highest of them, -1 for none and for an error.
latest_client_query == IF FetchOk THEN Max({-1} \union Page) ELSE -1

-----------------------------------------------------------------------------
(***************************************************************************)
(* The deployment.                                                          *)
(***************************************************************************)
Init ==
  /\ peers = [p \in Peers |-> "up"]
  /\ gateway_signer \in Signers
  /\ aggregator \in Aggregators
  /\ topic \in OldTopics
  /\ first = 0
  /\ owed = NoRecord
  /\ changes = 0
  /\ pc = "topology"
  /\ rows = {}
  /\ baseline = -1
  /\ polls = 0
  /\ record = NoRecord
  /\ domain_ok = FALSE
  /\ exit = -1
  /\ mark = 0
  /\ read = FALSE
  /\ rav_by = NoAggregator
  /\ replies = {}

run == <<pc, rows, found, exit, hist>>

Change == /\ changes < MaxChanges
          /\ pc # "done"
          /\ changes' = changes + 1
          /\ UNCHANGED <<run, topic>>

\* A peer goes down, comes back, or stops answering. A gateway that goes down
\* takes the record it has not written with it.
PeerChanges ==
  /\ Change
  /\ \E p \in Peers, mode \in Modes :
       /\ peers[p] # mode
       /\ peers' = [peers EXCEPT ![p] = mode]
       /\ owed' = IF p = "gateway" /\ mode = "down" THEN NoRecord ELSE owed
  /\ UNCHANGED <<gateway_signer, aggregator, first>>

\* The gateway restarts with the gateway.json of the moment.
GatewayRestarts ==
  /\ Change
  /\ gateway_signer' \in Signers
  /\ owed' = NoRecord
  /\ UNCHANGED <<peers, aggregator, first>>

AggregatorRestarts ==
  /\ Change
  /\ aggregator' \in Aggregators
  /\ UNCHANGED <<peers, gateway_signer, first, owed>>

\* Kafka drops the oldest records.
TopicExpires ==
  /\ Change
  /\ first' \in first + 1 .. Len(topic)
  /\ UNCHANGED <<peers, gateway_signer, aggregator, owed>>

\* A client's query, which finds an indexer or none, leaves a record.
ClientQuery ==
  /\ pc # "done"
  /\ peers["gateway"] = "up"
  /\ Len(topic) < MaxTopic
  /\ \E n \in {0, 1} :
       topic' = Append(topic, [signer |-> gateway_signer, candidates |-> n,
                               by |-> "client"])
  /\ UNCHANGED <<deployment, run, owed>>

\* The gateway's producer writes the record of the run's own query.
WriteOwed ==
  /\ pc # "done"
  /\ owed # NoRecord
  /\ peers["gateway"] = "up"
  /\ topic' = Append(topic, owed)
  /\ owed' = NoRecord
  /\ UNCHANGED <<deployment, run>>

-----------------------------------------------------------------------------
(***************************************************************************)
(* The run.                                                                 *)
(***************************************************************************)
\* The run sends its request to p and gets an answer or an error. No request has
\* a timeout: while the peer hangs, so does the run.
Request(label, p) == pc = label /\ peers[p] # "hung"

Report(check, pass) == rows' = rows \union {[check |-> check, pass |-> pass]}

sane(indexers, subgraphs) == indexers \in 10 .. 2000 /\ subgraphs \in 500 .. 500000

Option(S) == {{}} \union {{x} : x \in S}

\* What may lie behind the topology source.
Upstreams == [ok : BOOLEAN, json : BOOLEAN, indexerCount : Option(IndexerCounts),
              subgraphCount : Option(SubgraphCounts)]

\* (a) The counts the topology source answers with, if any.
SyncTopology ==
  /\ Request("topology", "topology")
  /\ \E configured \in BOOLEAN, upstream \in Upstreams :
       Report("a", /\ peers["topology"] = "up"
                   /\ \E c \in fetch_topology_counts(do_POST(configured, upstream)) :
                        sane(c[1], c[2]))
  /\ pc' = "baseline"
  /\ UNCHANGED <<deployment, kafka, found, exit, hist>>

\* The highest offset before the query; an error counts as an empty topic.
ReadBaseline ==
  /\ Request("baseline", "pandaproxy")
  /\ baseline' = latest_client_query
  /\ mark' = Len(topic)
  /\ read' = FetchOk
  /\ pc' = "dispatch"
  /\ UNCHANGED <<deployment, kafka, rows, polls, record, domain_ok, exit, rav_by, replies>>

\* The query. Any answer of the gateway will do, a refusal of the API key
\* included, for which it writes no record.
Dispatch ==
  /\ Request("dispatch", "gateway")
  /\ IF peers["gateway"] = "up"
     THEN /\ \E authorised \in BOOLEAN, n \in {0, 1} :
               owed' = IF authorised
                       THEN [signer |-> gateway_signer, candidates |-> n, by |-> "smoke"]
                       ELSE NoRecord
          /\ UNCHANGED rows
     ELSE /\ Report("b", FALSE)
          /\ UNCHANGED owed
  /\ pc' = "poll"
  /\ UNCHANGED <<deployment, topic, found, exit, hist>>

\* Mutants of Poll: the record at the baseline will do; looks are not counted; one
\* look too many.
PollFor(seen, looked, over) ==
  /\ Request("poll", "pandaproxy")
  /\ IF seen
     THEN /\ record' = topic[latest_client_query + 1]
          /\ pc' = "check"
          /\ UNCHANGED polls
     ELSE /\ polls' = looked
          /\ pc' = IF over THEN "check" ELSE "poll"
          /\ UNCHANGED record
  /\ UNCHANGED <<deployment, kafka, rows, baseline, domain_ok, exit, hist>>

PollAnew == PollFor(latest_client_query >= Max({baseline, 0}), polls + 1, polls + 1 >= Polls)
PollForEver == PollFor(latest_client_query > baseline, polls, FALSE)
PollOnceMore == PollFor(latest_client_query > baseline, polls + 1, polls >= Polls)

\* One look for a record above the baseline; the last one gives up.
Poll ==
  /\ Request("poll", "pandaproxy")
  /\ IF latest_client_query > baseline
     THEN /\ record' = topic[latest_client_query + 1]
          /\ pc' = "check"
          /\ UNCHANGED polls
     ELSE /\ polls' = polls + 1
          /\ pc' = IF polls + 1 >= Polls THEN "check" ELSE "poll"
          /\ UNCHANGED record
  /\ UNCHANGED <<deployment, kafka, rows, baseline, domain_ok, exit, hist>>

\* (b, c) What the record shows.
CheckRecord ==
  /\ pc = "check"
  /\ rows' = rows \union
       {[check |-> "b", pass |-> record # NoRecord /\ record.candidates >= 1],
        [check |-> "c", pass |-> record # NoRecord /\ record.signer = SignerKey]}
  /\ pc' = "domain"
  /\ UNCHANGED <<deployment, kafka, found, exit, hist>>

FetchDomain ==
  /\ Request("domain", "aggregator")
  /\ domain_ok' = (peers["aggregator"] = "up" /\ domain_matches(aggregator.info, cfg))
  /\ pc' = "aggregate"
  /\ UNCHANGED <<deployment, kafka, rows, baseline, polls, record, exit, hist>>

\* (d, e) Three receipts, their RAV, and what it says. A signature nothing can
\* be recovered from ends the run.
Aggregate ==
  /\ Request("aggregate", "aggregator")
  /\ \E answer \in aggregate({mint_receipt(SignerKey, v) : v \in {100, 200, 300}}, 600) :
       IF answer.kind # "rav"
       THEN /\ rows' = rows \union {[check |-> c, pass |-> FALSE] : c \in {"d", "e"}}
            /\ pc' = "tampered"
            /\ UNCHANGED <<rav_by, exit>>
       ELSE IF answer.rav.signer = Garbage
       THEN /\ exit' = 2
            /\ pc' = "done"
            /\ UNCHANGED <<rows, rav_by>>
       ELSE /\ rows' = rows \union verify_rav(answer.rav)
            /\ rav_by' = aggregator
            /\ pc' = "tampered"
            /\ UNCHANGED exit
  /\ UNCHANGED <<deployment, kafka, found, mark, read, replies>>

\* (f) One bad receipt: the check passes when aggregate returns an error.
Negative(label, receipt, then) ==
  /\ Request(label, "aggregator")
  /\ \E answer \in aggregate({receipt}, receipt.value) :
       /\ Report(label, answer.kind # "rav")
       /\ replies' = replies \union {<<label, answer.kind>>}
  /\ pc' = then
  /\ UNCHANGED <<deployment, kafka, found, exit, mark, read, rav_by>>

tampered(receipt) == [receipt EXCEPT !.value = 999999]

SendTampered == Negative("tampered", tampered(mint_receipt(SignerKey, 100)), "wrong key")

SendWrongKey == Negative("wrong key", mint_receipt(WrongKey, 100), "table")

\* The table and the exit code.
Finish ==
  /\ pc = "table"
  /\ exit' = IF \A r \in rows : r.pass THEN 0 ELSE 1
  /\ pc' = "done"
  /\ UNCHANGED <<deployment, kafka, rows, found, hist>>

-----------------------------------------------------------------------------
Run == SyncTopology \/ ReadBaseline \/ Dispatch \/ Poll \/ CheckRecord \/ FetchDomain
         \/ Aggregate \/ SendTampered \/ SendWrongKey \/ Finish

Deployment == PeerChanges \/ GatewayRestarts \/ AggregatorRestarts \/ TopicExpires
                \/ ClientQuery \/ WriteOwed

Next == Run \/ Deployment

Spec == Init /\ [][Next]_vars

\* The run goes on while it can; nothing makes the deployment move.
FairSpec == Spec /\ WF_vars(Run)
-----------------------------------------------------------------------------
(***************************************************************************)
(* Properties.                                                              *)
(***************************************************************************)
Checks == {"a", "b", "c", "d", "d signer", "d domain", "d value", "e", "e payer",
           "e data service", "tampered", "wrong key"}
Record == [signer : Signers \union {Junk}, candidates : {0, 1},
           by : {"client", "smoke", "junk", "none"}]

TypeOK ==
  /\ peers \in [Peers -> Modes]
  /\ gateway_signer \in Signers
  /\ aggregator \in Aggregators
  /\ topic \in Seq(Record)
  /\ first \in 0 .. Len(topic)
  /\ owed \in Record
  /\ changes \in 0 .. MaxChanges
  /\ pc \in {"topology", "baseline", "dispatch", "poll", "check", "domain",
             "aggregate", "tampered", "wrong key", "table", "done"}
  /\ rows \subseteq [check : Checks, pass : BOOLEAN]
  /\ baseline \in -1 .. Len(topic) - 1
  /\ polls \in 0 .. Polls
  /\ record \in Record
  /\ domain_ok \in BOOLEAN
  /\ exit \in -1 .. 2
  /\ mark \in 0 .. Len(topic)
  /\ read \in BOOLEAN
  /\ rav_by \in Aggregators \union {NoAggregator}
  /\ replies \subseteq {"tampered", "wrong key"} \X {"rav", "rejected", "unreachable"}

Passed(check) == [check |-> check, pass |-> TRUE] \in rows

\* When the baseline request brought records, check (c) passes only if a gateway
\* really signed with the configured key during this run: an old record never
\* passes for a new one, whatever the peers and the clients do meanwhile.
SignerIsFresh ==
  Passed("c") /\ read => \E i \in mark + 1 .. Len(topic) : topic[i].signer = SignerKey

\* Exit code 0 is evidence: the topology was seen, the gateway answered the query,
\* an aggregator that follows the protocol made the RAV with the configured key
\* in the configured domain (the advertised domain may be another process's), and
\* no bad receipt became a RAV.
PassIsEvidence ==
  exit = 0 =>
    /\ Passed("a") /\ Passed("b") /\ Passed("c")
    /\ rav_by # NoAggregator
    /\ rav_by.honest => rav_by.key = SignerKey /\ DomainOf(rav_by.info) = domain
    /\ {reply[1] : reply \in replies} = {"tampered", "wrong key"}
    /\ \A reply \in replies : reply[2] # "rav"

\* A deployment in order, which nothing disturbs during the run.
InOrder ==
  /\ changes = 0
  /\ gateway_signer = SignerKey
  /\ aggregator.honest
  /\ aggregator.key = SignerKey
  /\ WrongKey \notin aggregator.accepts
  /\ DomainOf(aggregator.info) = domain

\* No false alarm: over such a deployment a run that saw the topology, and a record
\* of a query that found an indexer, exits with 0.
NoFalseAlarm ==
  (pc = "done" /\ InOrder /\ Passed("a") /\ record # NoRecord /\ record.candidates = 1)
    => exit = 0

\* The steps a run has left at most from a stage on: its looks for the record, until it
\* has done looking, and one for each request and table after them.
StepsFrom(stage, looked) ==
  CASE stage = "topology" -> Polls - looked + 9
    [] stage = "baseline" -> Polls - looked + 8
    [] stage = "dispatch" -> Polls - looked + 7
    [] stage = "poll" -> Polls - looked + 6
    [] stage = "check" -> 6
    [] stage = "domain" -> 5
    [] stage = "aggregate" -> 4
    [] stage = "tampered" -> 3
    [] stage = "wrong key" -> 2
    [] stage = "table" -> 1
    [] stage = "done" -> 0

StepsLeft == StepsFrom(pc, polls)

\* Whatever the deployment does, and however its other clients fill the topic, each
\* step of the run brings it nearer to its end: it makes no more than Polls + 9, and
\* has an exit code when, and only when, none is left.
EndsInTime ==
  [][/\ StepsLeft' \in 0 .. StepsLeft
     /\ Run => StepsLeft' < StepsLeft
     /\ StepsLeft' = 0 <=> exit' # -1]_vars

\* Under FairSpec the run ends, with an exit code, unless a peer it waits for hangs
\* for good.
Terminates ==
  <>(pc = "done" /\ exit # -1) \/ <>[](\E p \in Peers : peers[p] = "hung")
=============================================================================
