---------------------------- MODULE QosAggregate ----------------------------
(***************************************************************************)
(* What a window adds up to (qos-publisher/src/aggregate.rs, cid.rs and     *)
(* attribution.rs): Bucket::add folds one client query and its indexer      *)
(* attempts into accumulators, one step per attempt, and gives up at the    *)
(* first malformed one; Bucket::close turns the accumulators into records.  *)
(*                                                                          *)
(* An id is its length and what tells it from others. Samples are integers, *)
(* a mean is the pair of its sum and its count, a rate the pair of its      *)
(* numerator and its count, and a standard deviation is replaced by the     *)
(* square of itself times the count, which is an integer.                   *)
(***************************************************************************)
EXTENDS Integers, Sequences, FiniteSetsExt, Functions

CONSTANTS Attempts,  \* the attempts a client query may nest
          Queries,   \* the client queries: [result, response_time_ms, indexer_queries]
          Times,     \* the milliseconds of the Kafka records
          MaxAdds    \* bound: how many queries a window takes

ASSUME AttemptsAssumption ==
  Attempts \subseteq [indexer : [len : Nat, id : STRING],
                      deployment : [len : Nat, id : STRING],
                      url : STRING, indexed_chain : STRING,
                      fee_grt : Nat, response_time_ms : Nat, blocks_behind : Nat,
                      result : STRING]
ASSUME QueriesAssumption ==
  Queries \subseteq [result : STRING, response_time_ms : Nat,
                     indexer_queries : Seq(Attempts)]
ASSUME TimesAssumption == Times \subseteq Nat
ASSUME AddsAssumption == MaxAdds \in Nat

VARIABLES
  allocations,     \* the attempts' accumulators, by (deployment, indexer)
  queries,         \* the client queries' accumulators, by deployment
  client_queries,  \* how many client queries add was called with
  added,           \* history: those queries with their times, oldest first
  next,            \* index of the attempt add looks at, 0 outside of add
  outcome          \* what the last add returned

bucket == <<allocations, queries, client_queries>>
vars == <<bucket, added, next, outcome>>

-----------------------------------------------------------------------------
(***************************************************************************)
(* Ids and attribution.                                                     *)
(***************************************************************************)
\* deployment_to_cid_v0 and address_hex succeed for ids of one length only ...
IsDeployment(bytes) == bytes.len = 32
IsAddress(bytes) == bytes.len = 20

\* ... and then name the id.
deployment_to_cid_v0(bytes) == <<"Qm", bytes.id>>
address_hex(bytes) == <<"0x", bytes.id>>

\* Who a result is blamed on, by the prefix of its text: nobody for a success,
\* the gateway for a text that is not known.
UserErrors == {"auth error:", "bad query:", "subgraph not found:"}
NetworkErrors == {"no indexers found", "bad indexers:"}

classify(result) ==
  CASE result = "success"         -> "none"
    [] result \in UserErrors      -> "user"
    [] result \in NetworkErrors   -> "network"
    [] OTHER                      -> "gateway"

-----------------------------------------------------------------------------
(***************************************************************************)
(* Accumulators.                                                            *)
(***************************************************************************)
\* f with k mapped to v.
Put(f, k, v) == [x \in DOMAIN f \union {k} |-> IF x = k THEN v ELSE f[x]]

WellFormed(a) == IsDeployment(a.deployment) /\ IsAddress(a.indexer)

AllocationKey(a) == <<deployment_to_cid_v0(a.deployment), address_hex(a.indexer)>>

\* The accumulator an attempt finds, or the one it starts: the url and the chain
\* are those of the first attempt.
AllocationAcc(a) ==
  IF AllocationKey(a) \in DOMAIN allocations
  THEN allocations[AllocationKey(a)]
  ELSE [indexer_url |-> a.url, chain |-> a.indexed_chain,
        latencies |-> << >>, fees |-> << >>, blocks_behind |-> << >>,
        successes |-> 0]

\* Mutants of WithAttempt: a failure takes a success back; the latency of a
\* failure is not sampled.
WithAttemptNet(acc, a) ==
  [acc EXCEPT !.latencies = Append(@, a.response_time_ms),
              !.fees = Append(@, a.fee_grt),
              !.blocks_behind = Append(@, a.blocks_behind),
              !.successes = @ + (IF a.result = "success" THEN 1 ELSE -1)]

WithAttemptTimedOnSuccess(acc, a) ==
  [acc EXCEPT !.latencies = IF a.result = "success" THEN Append(@, a.response_time_ms)
                            ELSE @,
              !.fees = Append(@, a.fee_grt),
              !.blocks_behind = Append(@, a.blocks_behind),
              !.successes = @ + (IF a.result = "success" THEN 1 ELSE 0)]

WithAttempt(acc, a) ==
  [acc EXCEPT !.latencies = Append(@, a.response_time_ms),
              !.fees = Append(@, a.fee_grt),
              !.blocks_behind = Append(@, a.blocks_behind),
              !.successes = @ + (IF a.result = "success" THEN 1 ELSE 0)]

\* Mutant: the deployment of the last attempt.
QueryKeyOfLast(q) ==
  deployment_to_cid_v0(q.indexer_queries[Len(q.indexer_queries)].deployment)

\* A client query counts for the deployment of its first attempt.
QueryKey(q) == deployment_to_cid_v0(q.indexer_queries[1].deployment)

QueryAcc(q) ==
  IF QueryKey(q) \in DOMAIN queries
  THEN queries[QueryKey(q)]
  ELSE [chain |-> q.indexer_queries[1].indexed_chain,
        latencies |-> << >>, fees |-> << >>,
        successes |-> 0, user_errors |-> 0, most_recent_ms |-> 0]

\* Mutant: a failed attempt costs nothing.
FeesOfSuccesses(q) ==
  [i \in DOMAIN q.indexer_queries |->
     IF q.indexer_queries[i].result = "success" THEN q.indexer_queries[i].fee_grt ELSE 0]

\* The fees of a query's attempts, in GRT.
FeesOf(q) == [i \in DOMAIN q.indexer_queries |-> q.indexer_queries[i].fee_grt]

WithQuery(acc, q, received_ms) ==
  [acc EXCEPT
     !.latencies = Append(@, q.response_time_ms),
     !.fees = Append(@, SumFunction(FeesOf(q))),
     !.successes = @ + (IF classify(q.result) = "none" THEN 1 ELSE 0),
     !.user_errors = @ + (IF classify(q.result) = "user" THEN 1 ELSE 0),
     !.most_recent_ms = Max({@, received_ms})]

-----------------------------------------------------------------------------
(***************************************************************************)
(* Bucket::add, one step per attempt.                                       *)
(***************************************************************************)
Empty == [x \in {} |-> 0]

Init ==
  /\ allocations = Empty
  /\ queries = Empty
  /\ client_queries = 0
  /\ added = << >>
  /\ next = 0
  /\ outcome = "ok"

\* The query add is folding.
InHand == added[Len(added)]

\* add is called.
Begin ==
  /\ next = 0
  /\ Len(added) < MaxAdds
  /\ \E q \in Queries, ms \in Times : added' = Append(added, [q |-> q, ms |-> ms])
  /\ client_queries' = client_queries + 1
  /\ next' = 1
  /\ UNCHANGED <<allocations, queries, outcome>>

\* One turn of the loop over the attempts.
FoldAttempt ==
  /\ next # 0
  /\ next \in DOMAIN InHand.q.indexer_queries
  /\ LET a == InHand.q.indexer_queries[next]
     IN  /\ WellFormed(a)
         /\ allocations' =
              Put(allocations, AllocationKey(a), WithAttempt(AllocationAcc(a), a))
  /\ next' = next + 1
  /\ UNCHANGED <<queries, client_queries, added, outcome>>

\* Mutant: a malformed attempt is passed over.
RejectOne ==
  /\ next # 0
  /\ next \in DOMAIN InHand.q.indexer_queries
  /\ ~ WellFormed(InHand.q.indexer_queries[next])
  /\ next' = next + 1
  /\ UNCHANGED <<bucket, added, outcome>>

\* A malformed id: add returns the error, and what it did so far stays.
Reject ==
  /\ next # 0
  /\ next \in DOMAIN InHand.q.indexer_queries
  /\ ~ WellFormed(InHand.q.indexer_queries[next])
  /\ next' = 0
  /\ outcome' = "err"
  /\ UNCHANGED <<bucket, added>>

\* After the last attempt the query itself is folded, if it has an attempt.
FoldQuery ==
  /\ next # 0
  /\ next > Len(InHand.q.indexer_queries)
  /\ queries' = IF InHand.q.indexer_queries = << >> THEN queries
                ELSE Put(queries, QueryKey(InHand.q),
                         WithQuery(QueryAcc(InHand.q), InHand.q, InHand.ms))
  /\ next' = 0
  /\ outcome' = "ok"
  /\ UNCHANGED <<allocations, client_queries, added>>

Next == Begin \/ FoldAttempt \/ Reject \/ FoldQuery

Spec == Init /\ [][Next]_vars

-----------------------------------------------------------------------------
(***************************************************************************)
(* Bucket::close.                                                           *)
(***************************************************************************)
mean(samples) == <<SumFunction(samples), Len(samples)>>
max(samples) == Max({0} \union Range(samples))

\* The squared standard deviation times the squared count.
spread(samples) ==
  IF Len(samples) < 2 THEN 0
  ELSE Len(samples) * SumFunction([i \in DOMAIN samples |-> samples[i] * samples[i]])
         - SumFunction(samples) * SumFunction(samples)

AllocationRecord(key, a) ==
  [subgraph_deployment_ipfs_hash |-> key[1], indexer_wallet |-> key[2],
   indexer_url |-> a.indexer_url, chain |-> a.chain,
   avg_query_fee |-> mean(a.fees), max_query_fee |-> max(a.fees),
   total_query_fees |-> SumFunction(a.fees), query_count |-> Len(a.latencies),
   avg_indexer_latency_ms |-> mean(a.latencies),
   max_indexer_latency_ms |-> max(a.latencies),
   num_indexer_200_responses |-> a.successes,
   proportion_indexer_200_responses |-> <<a.successes, Len(a.latencies)>>,
   avg_indexer_blocks_behind |-> mean(a.blocks_behind),
   max_indexer_blocks_behind |-> max(a.blocks_behind),
   stdev_indexer_latency_ms |-> spread(a.latencies)]

QueryRecord(cid, q) ==
  [subgraph_deployment_ipfs_hash |-> cid, chain |-> q.chain,
   total_query_fees |-> SumFunction(q.fees),
   avg_query_fee |-> mean(q.fees), max_query_fee |-> max(q.fees),
   query_count |-> Len(q.latencies), most_recent_query_ts |-> q.most_recent_ms,
   gateway_query_success_rate |-> <<q.successes, Len(q.latencies)>>,
   user_attributed_error_rate |-> <<q.user_errors, Len(q.latencies)>>,
   avg_gateway_latency_ms |-> mean(q.latencies),
   max_gateway_latency_ms |-> max(q.latencies),
   stdev_gateway_latency_ms |-> spread(q.latencies)]

AllocationRecords == {AllocationRecord(k, allocations[k]) : k \in DOMAIN allocations}
QueryRecords == {QueryRecord(k, queries[k]) : k \in DOMAIN queries}

-----------------------------------------------------------------------------
(***************************************************************************)
(* Properties. The reference definitions compute the records of a window    *)
(* anew, from the queries it took, by counting.                             *)
(***************************************************************************)
TypeOK ==
  /\ \A k \in DOMAIN allocations :
       allocations[k] \in [indexer_url : STRING, chain : STRING,
                           latencies : Seq(Nat), fees : Seq(Nat),
                           blocks_behind : Seq(Nat), successes : Nat]
  /\ \A k \in DOMAIN queries :
       queries[k] \in [chain : STRING, latencies : Seq(Nat), fees : Seq(Nat),
                       successes : Nat, user_errors : Nat, most_recent_ms : Nat]
  /\ client_queries \in Nat
  /\ added \in Seq([q : Queries, ms : Times])
  /\ next \in Nat
  /\ outcome \in {"ok", "err"}

\* Ids a record can name.
HasIds(a) == a.deployment.len = 32 /\ a.indexer.len = 20

\* How many attempts of a query precede its first malformed one.
GoodPrefix(q) ==
  LET bad == {j \in DOMAIN q.indexer_queries : ~ HasIds(q.indexer_queries[j])}
  IN  IF bad = {} THEN Len(q.indexer_queries) ELSE Min(bad) - 1

Accepted == {i \in DOMAIN added :
               GoodPrefix(added[i].q) = Len(added[i].q.indexer_queries)}
Attempted == {i \in Accepted : added[i].q.indexer_queries # << >>}

AttemptAt(h) == added[h[1]].q.indexer_queries[h[2]]

\* The attempts folded, each as its query's index and its own.
Folded == UNION {{<<i, j>> : j \in 1 .. GoodPrefix(added[i].q)} : i \in DOMAIN added}

\* The names of an attempt's record, and of its query's.
NamesOf(a) == << <<"Qm", a.deployment.id>>, <<"0x", a.indexer.id>> >>
NameOf(i) == NamesOf(added[i].q.indexer_queries[1])[1]

SumOver(S, f(_)) == SumFunction([x \in S |-> f(x)])
MaxOver(S, f(_)) == Max({0} \union {f(x) : x \in S})
SpreadOver(S, f(_)) ==
  LET square(x) == f(x) * f(x)
  IN  Cardinality(S) * SumOver(S, square) - SumOver(S, f) * SumOver(S, f)

\* The record of a deployment and indexer whose attempts are H.
ReferenceAllocation(key, H) ==
  LET first == CHOOSE h \in H :
                 \A g \in H : h[1] < g[1] \/ (h[1] = g[1] /\ h[2] <= g[2])
      fee(h) == AttemptAt(h).fee_grt
      latency(h) == AttemptAt(h).response_time_ms
      behind(h) == AttemptAt(h).blocks_behind
      good == Cardinality({h \in H : AttemptAt(h).result = "success"})
      count == Cardinality(H)
  IN [subgraph_deployment_ipfs_hash |-> key[1], indexer_wallet |-> key[2],
      indexer_url |-> AttemptAt(first).url, chain |-> AttemptAt(first).indexed_chain,
      avg_query_fee |-> <<SumOver(H, fee), count>>, max_query_fee |-> MaxOver(H, fee),
      total_query_fees |-> SumOver(H, fee), query_count |-> count,
      avg_indexer_latency_ms |-> <<SumOver(H, latency), count>>,
      max_indexer_latency_ms |-> MaxOver(H, latency),
      num_indexer_200_responses |-> good,
      proportion_indexer_200_responses |-> <<good, count>>,
      avg_indexer_blocks_behind |-> <<SumOver(H, behind), count>>,
      max_indexer_blocks_behind |-> MaxOver(H, behind),
      stdev_indexer_latency_ms |-> SpreadOver(H, latency)]

\* The record of a deployment whose queries are Q.
ReferenceQuery(cid, Q) ==
  LET fee(i) == SumOver(DOMAIN added[i].q.indexer_queries,
                        LAMBDA j : added[i].q.indexer_queries[j].fee_grt)
      latency(i) == added[i].q.response_time_ms
      good == Cardinality({i \in Q : added[i].q.result = "success"})
      user == Cardinality({i \in Q : added[i].q.result \in UserErrors})
      count == Cardinality(Q)
  IN [subgraph_deployment_ipfs_hash |-> cid,
      chain |-> added[Min(Q)].q.indexer_queries[1].indexed_chain,
      total_query_fees |-> SumOver(Q, fee),
      avg_query_fee |-> <<SumOver(Q, fee), count>>, max_query_fee |-> MaxOver(Q, fee),
      query_count |-> count, most_recent_query_ts |-> Max({added[i].ms : i \in Q}),
      gateway_query_success_rate |-> <<good, count>>,
      user_attributed_error_rate |-> <<user, count>>,
      avg_gateway_latency_ms |-> <<SumOver(Q, latency), count>>,
      max_gateway_latency_ms |-> MaxOver(Q, latency),
      stdev_gateway_latency_ms |-> SpreadOver(Q, latency)]

\* Between two calls of add the records are those the oracle's format defines,
\* whatever the order and the mix of deployments, indexers, failures and
\* malformed ids: one per key, counted once, and nothing of a later attempt than
\* the first malformed one.
RecordsMatchReference ==
  next = 0 =>
    /\ AllocationRecords =
         {ReferenceAllocation(k, {h \in Folded : NamesOf(AttemptAt(h)) = k}) :
            k \in {NamesOf(AttemptAt(h)) : h \in Folded}}
    /\ QueryRecords =
         {ReferenceQuery(k, {i \in Attempted : NameOf(i) = k}) : k \in {NameOf(i) : i \in Attempted}}

AllocationFees == SumOver(DOMAIN allocations, LAMBDA k : SumFunction(allocations[k].fees))
QueryFees == SumOver(DOMAIN queries, LAMBDA k : SumFunction(queries[k].fees))

\* The two topics agree on the fees of a window, however its queries spread over
\* deployments, unless a malformed attempt cut a query short: then the
\* allocations topic reports more.
FeesAgree ==
  next = 0 => /\ AllocationFees >= QueryFees
              /\ Accepted = DOMAIN added => AllocationFees = QueryFees

\* No rate exceeds one: every accumulator holds as many samples of each kind as
\* it counts queries, and no more successes and user errors than that.
RatesBounded ==
  /\ \A k \in DOMAIN allocations :
       /\ allocations[k].successes <= Len(allocations[k].latencies)
       /\ Len(allocations[k].fees) = Len(allocations[k].latencies)
       /\ Len(allocations[k].blocks_behind) = Len(allocations[k].latencies)
       /\ Len(allocations[k].latencies) > 0
  /\ \A k \in DOMAIN queries :
       /\ queries[k].successes + queries[k].user_errors <= Len(queries[k].latencies)
       /\ Len(queries[k].fees) = Len(queries[k].latencies)
       /\ Len(queries[k].latencies) > 0

CountedQueries == SumOver(DOMAIN queries, LAMBDA k : Len(queries[k].latencies))
CountedAttempts == SumOver(DOMAIN allocations, LAMBDA k : Len(allocations[k].latencies))

\* Every client query of the window is in one query record, or has no attempt to
\* name its deployment, or has a malformed attempt.
QueriesConserved ==
  next = 0 =>
    client_queries = CountedQueries + Cardinality(DOMAIN added \ Attempted)
=============================================================================
