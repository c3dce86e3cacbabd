------------------------ MODULE QosAggregateProofs -------------------------
(***************************************************************************)
(* Theorems about QosAggregate, for every set of attempts and queries and   *)
(* every number of calls of add.                                            *)
(***************************************************************************)
EXTENDS QosAggregate, FoldLemmas

AllocationAccs ==
  [indexer_url : STRING, chain : STRING, latencies : Seq(Nat), fees : Seq(Nat),
   blocks_behind : Seq(Nat), successes : Nat]
QueryAccs ==
  [chain : STRING, latencies : Seq(Nat), fees : Seq(Nat), successes : Nat,
   user_errors : Nat, most_recent_ms : Nat]

\* RatesBounded, for one accumulator; a new one has no sample yet.
AllocationEven(acc) ==
  /\ acc.successes <= Len(acc.latencies)
  /\ Len(acc.fees) = Len(acc.latencies)
  /\ Len(acc.blocks_behind) = Len(acc.latencies)
QueryEven(acc) ==
  /\ acc.successes + acc.user_errors <= Len(acc.latencies)
  /\ Len(acc.fees) = Len(acc.latencies)

\* add works on a query of the window, and every accumulator is even.
HandInv ==
  /\ added \in Seq([q : Queries, ms : Times])
  /\ next \in Nat
  /\ next # 0 => Len(added) > 0

AllocationsInv ==
  \A k \in DOMAIN allocations :
    /\ allocations[k] \in AllocationAccs
    /\ AllocationEven(allocations[k]) /\ Len(allocations[k].latencies) > 0

QueriesInv ==
  \A k \in DOMAIN queries :
    /\ queries[k] \in QueryAccs
    /\ QueryEven(queries[k]) /\ Len(queries[k].latencies) > 0

RatesInv == HandInv /\ AllocationsInv /\ QueriesInv

LEMMA MaxLemma ==
  ASSUME NEW m \in Nat, NEW n \in Nat
  PROVE  Max({m, n}) \in Nat
<1>1. \E x \in {m, n} : \A y \in {m, n} : x >= y
  OBVIOUS
<1>2. Max({m, n}) \in {m, n}
  BY <1>1 DEF Max
<1> QED
  BY <1>2

\* The fees of a query are numbers, and add up to one.
LEMMA FeesLemma ==
  ASSUME NEW q \in Queries
  PROVE  /\ q.indexer_queries \in Seq(Attempts)
         /\ DOMAIN FeesOf(q) = 1 .. Len(q.indexer_queries)
         /\ IsFiniteSet(DOMAIN FeesOf(q))
         /\ \A i \in DOMAIN FeesOf(q) : /\ FeesOf(q)[i] = q.indexer_queries[i].fee_grt
                                       /\ FeesOf(q)[i] \in Nat
         /\ SumFunction(FeesOf(q)) \in Nat
<1>1. q.indexer_queries \in Seq(Attempts)
  BY QueriesAssumption
<1>2. DOMAIN FeesOf(q) = 1 .. Len(q.indexer_queries) /\ Len(q.indexer_queries) \in Nat
  BY <1>1 DEF FeesOf
<1>3. IsFiniteSet(DOMAIN FeesOf(q))
  BY <1>2, FS_Interval
<1>4. \A i \in DOMAIN FeesOf(q) : /\ FeesOf(q)[i] = q.indexer_queries[i].fee_grt
                                /\ FeesOf(q)[i] \in Nat
  BY <1>1, AttemptsAssumption DEF FeesOf
<1>5. SumFunction(FeesOf(q)) \in Nat
  BY <1>3, <1>4, SumType DEF SumFunction
<1> QED
  BY <1>1, <1>2, <1>3, <1>4, <1>5

\* A sample of each kind more, and at most one success more.
LEMMA AttemptLemma ==
  ASSUME NEW acc \in AllocationAccs, AllocationEven(acc), NEW a \in Attempts
  PROVE  /\ WithAttempt(acc, a) \in AllocationAccs
         /\ AllocationEven(WithAttempt(acc, a))
         /\ Len(WithAttempt(acc, a).latencies) > 0
<1> DEFINE new == WithAttempt(acc, a)
           l == Append(acc.latencies, a.response_time_ms)
           f == Append(acc.fees, a.fee_grt)
           b == Append(acc.blocks_behind, a.blocks_behind)
           s == IF a.result = "success" THEN 1 ELSE 0
<1>1. a.response_time_ms \in Nat /\ a.fee_grt \in Nat /\ a.blocks_behind \in Nat
  BY AttemptsAssumption
<1>2. /\ acc.latencies \in Seq(Nat) /\ acc.fees \in Seq(Nat)
      /\ acc.blocks_behind \in Seq(Nat) /\ acc.successes \in Nat
  BY DEF AllocationAccs
<1>3. Len(acc.latencies) \in Nat
  BY <1>2
<1>4. /\ l \in Seq(Nat) /\ Len(l) = Len(acc.latencies) + 1
      /\ f \in Seq(Nat) /\ Len(f) = Len(acc.fees) + 1
      /\ b \in Seq(Nat) /\ Len(b) = Len(acc.blocks_behind) + 1
  BY <1>1, <1>2
<1>5. s \in {0, 1}
  OBVIOUS
<1>6. new = [acc EXCEPT !.latencies = l, !.fees = f, !.blocks_behind = b,
                        !.successes = acc.successes + s]
  BY DEF WithAttempt
<1> HIDE DEF new, l, f, b, s
<1>7. /\ new \in AllocationAccs
      /\ new.latencies = l /\ new.fees = f /\ new.blocks_behind = b
      /\ new.successes = acc.successes + s
  <2>1. acc.successes + s \in Nat
    BY <1>2, <1>5
  <2> QED
    BY <1>4, <1>6, <2>1 DEF AllocationAccs
<1>8. AllocationEven(new)
  BY <1>2, <1>3, <1>4, <1>5, <1>7 DEF AllocationEven
<1>9. Len(new.latencies) > 0
  BY <1>3, <1>4, <1>7
<1> QED
  BY <1>7, <1>8, <1>9 DEF new

\* The same of a query: it is a success, a user's error, or neither.
LEMMA QueryLemma ==
  ASSUME NEW acc \in QueryAccs, QueryEven(acc), NEW q \in Queries, NEW ms \in Times
  PROVE  /\ WithQuery(acc, q, ms) \in QueryAccs
         /\ QueryEven(WithQuery(acc, q, ms))
         /\ Len(WithQuery(acc, q, ms).latencies) > 0
<1> DEFINE new == WithQuery(acc, q, ms)
           fee == SumFunction(FeesOf(q))
           l == Append(acc.latencies, q.response_time_ms)
           f == Append(acc.fees, fee)
           s == IF classify(q.result) = "none" THEN 1 ELSE 0
           u == IF classify(q.result) = "user" THEN 1 ELSE 0
           last == Max({acc.most_recent_ms, ms})
<1>1. q.response_time_ms \in Nat /\ ms \in Nat /\ fee \in Nat
  BY QueriesAssumption, TimesAssumption, FeesLemma
<1>2. /\ acc.latencies \in Seq(Nat) /\ acc.fees \in Seq(Nat)
      /\ acc.successes \in Nat /\ acc.user_errors \in Nat /\ acc.most_recent_ms \in Nat
  BY DEF QueryAccs
<1>3. Len(acc.latencies) \in Nat
  BY <1>2
<1>4. last \in Nat
  BY <1>1, <1>2, MaxLemma
<1>5. /\ l \in Seq(Nat) /\ Len(l) = Len(acc.latencies) + 1
      /\ f \in Seq(Nat) /\ Len(f) = Len(acc.fees) + 1
  <2> HIDE DEF fee
  <2> QED
    BY <1>1, <1>2
<1>6. s \in {0, 1} /\ u \in {0, 1} /\ s + u <= 1
  OBVIOUS
<1>7. new = [acc EXCEPT !.latencies = l, !.fees = f, !.successes = acc.successes + s,
                        !.user_errors = acc.user_errors + u, !.most_recent_ms = last]
  BY DEF WithQuery
<1> HIDE DEF new, fee, l, f, s, u, last
<1>8. /\ new \in QueryAccs
      /\ new.latencies = l /\ new.fees = f
      /\ new.successes = acc.successes + s /\ new.user_errors = acc.user_errors + u
  <2>1. acc.successes + s \in Nat /\ acc.user_errors + u \in Nat
    BY <1>2, <1>6
  <2> QED
    BY <1>4, <1>5, <1>7, <2>1 DEF QueryAccs
<1>9. QueryEven(new)
  <2>1. acc.successes + acc.user_errors <= Len(acc.latencies)
    BY DEF QueryEven
  <2>2. acc.successes + s + (acc.user_errors + u) <= Len(acc.latencies) + 1
    BY <1>2, <1>3, <1>6, <2>1
  <2>3. Len(acc.fees) = Len(acc.latencies)
    BY DEF QueryEven
  <2> QED
    BY <1>5, <1>8, <2>2, <2>3 DEF QueryEven
<1>10. Len(new.latencies) > 0
  BY <1>3, <1>5, <1>8
<1> QED
  BY <1>8, <1>9, <1>10 DEF new

\* The query in hand, and what add finds or starts for it.
LEMMA HandLemma ==
  ASSUME HandInv, next # 0
  PROVE  /\ InHand.q \in Queries /\ InHand.ms \in Times
         /\ InHand.q.indexer_queries \in Seq(Attempts)
<1> DEFINE Calls == [q : Queries, ms : Times]
<1>1. added \in Seq(Calls) /\ Len(added) > 0
  BY DEF HandInv
<1>2. InHand \in Calls
  <2> HIDE DEF Calls
  <2> QED
    BY <1>1 DEF InHand
<1> QED
  BY <1>2, QueriesAssumption

LEMMA FoundAllocation ==
  ASSUME AllocationsInv, NEW a \in Attempts
  PROVE  AllocationAcc(a) \in AllocationAccs /\ AllocationEven(AllocationAcc(a))
<1> DEFINE start == [indexer_url |-> a.url, chain |-> a.indexed_chain,
                     latencies |-> << >>, fees |-> << >>, blocks_behind |-> << >>,
                     successes |-> 0]
<1>1. a.url \in STRING /\ a.indexed_chain \in STRING
  BY AttemptsAssumption
<1>2. start \in AllocationAccs
  BY <1>1 DEF AllocationAccs
<1>3. AllocationEven(start)
  BY DEF AllocationEven
<1>4. CASE AllocationKey(a) \in DOMAIN allocations
  BY <1>4 DEF AllocationsInv, AllocationAcc
<1>5. CASE AllocationKey(a) \notin DOMAIN allocations
  BY <1>2, <1>3, <1>5 DEF AllocationAcc
<1> QED
  BY <1>4, <1>5

LEMMA FoundQuery ==
  ASSUME QueriesInv, NEW q \in Queries, q.indexer_queries \in Seq(Attempts),
         q.indexer_queries # << >>
  PROVE  QueryAcc(q) \in QueryAccs /\ QueryEven(QueryAcc(q))
<1> DEFINE start == [chain |-> q.indexer_queries[1].indexed_chain,
                     latencies |-> << >>, fees |-> << >>,
                     successes |-> 0, user_errors |-> 0, most_recent_ms |-> 0]
<1>1. q.indexer_queries[1] \in Attempts
  OBVIOUS
<1>2. q.indexer_queries[1].indexed_chain \in STRING
  BY <1>1, AttemptsAssumption
<1>3. start \in QueryAccs
  BY <1>2 DEF QueryAccs
<1>4. QueryEven(start)
  BY DEF QueryEven
<1>5. CASE QueryKey(q) \in DOMAIN queries
  BY <1>5 DEF QueriesInv, QueryAcc
<1>6. CASE QueryKey(q) \notin DOMAIN queries
  BY <1>3, <1>4, <1>6 DEF QueryAcc
<1> QED
  BY <1>5, <1>6

LEMMA RatesInit == Init => RatesInv
  BY DEF Init, Empty, RatesInv, HandInv, AllocationsInv, QueriesInv

LEMMA RatesNext == RatesInv /\ [Next]_vars => RatesInv'
<1> SUFFICES ASSUME RatesInv, [Next]_vars PROVE RatesInv'
  OBVIOUS
<1>0. HandInv /\ AllocationsInv /\ QueriesInv
  BY DEF RatesInv
<1>1. CASE Begin
  <2>1. PICK r \in [q : Queries, ms : Times] : added' = Append(added, r)
    BY <1>1 DEF Begin
  <2>2. /\ added' \in Seq([q : Queries, ms : Times])
        /\ Len(added') > 0
    BY <1>0, <2>1 DEF HandInv
  <2>3. HandInv'
    BY <1>1, <2>2 DEF Begin, HandInv
  <2>4. AllocationsInv' /\ QueriesInv'
    BY <1>0, <1>1 DEF Begin, AllocationsInv, QueriesInv
  <2> QED
    BY <2>3, <2>4 DEF RatesInv
<1>2. CASE FoldAttempt
  <2> DEFINE a == InHand.q.indexer_queries[next]
             acc == WithAttempt(AllocationAcc(a), a)
  <2>1. a \in Attempts
    BY <1>0, <1>2, HandLemma DEF FoldAttempt
  <2>2. acc \in AllocationAccs /\ AllocationEven(acc) /\ Len(acc.latencies) > 0
    <3> HIDE DEF a
    <3> QED
      BY <1>0, <2>1, AttemptLemma, FoundAllocation
  <2>3. allocations' = Put(allocations, AllocationKey(a), acc)
    BY <1>2 DEF FoldAttempt
  <2> DEFINE key == AllocationKey(a)
  <2> HIDE DEF a, acc, key
  <2>4. AllocationsInv'
    <3> SUFFICES ASSUME NEW k \in DOMAIN allocations'
                 PROVE  /\ allocations'[k] \in AllocationAccs
                        /\ AllocationEven(allocations'[k])
                        /\ Len(allocations'[k].latencies) > 0
      BY DEF AllocationsInv, AllocationEven
    <3>1. allocations' = Put(allocations, key, acc)
      BY <2>3 DEF key
    <3>2. CASE k = key
      <4>1. allocations'[k] = acc
        BY <3>1, <3>2 DEF Put
      <4> QED
        BY <2>2, <4>1
    <3>3. CASE k # key
      <4>1. k \in DOMAIN allocations /\ allocations'[k] = allocations[k]
        BY <3>1, <3>3 DEF Put
      <4> QED
        BY <1>0, <4>1 DEF AllocationsInv
    <3> QED
      BY <3>2, <3>3
  <2>5. HandInv' /\ QueriesInv'
    BY <1>0, <1>2 DEF FoldAttempt, HandInv, QueriesInv
  <2> QED
    BY <2>4, <2>5 DEF RatesInv
<1>3. CASE FoldQuery
  <2>1. HandInv' /\ AllocationsInv'
    BY <1>0, <1>3 DEF FoldQuery, HandInv, AllocationsInv
  <2>2. QueriesInv'
    <3> DEFINE q == InHand.q
               ms == InHand.ms
               acc == WithQuery(QueryAcc(q), q, ms)
    <3>1. CASE q.indexer_queries = << >>
      BY <1>0, <1>3, <3>1 DEF FoldQuery, QueriesInv
    <3>2. CASE q.indexer_queries # << >>
      <4>1. /\ q \in Queries /\ ms \in Times
            /\ q.indexer_queries \in Seq(Attempts)
        BY <1>0, <1>3, HandLemma DEF FoldQuery
      <4>2. acc \in QueryAccs /\ QueryEven(acc) /\ Len(acc.latencies) > 0
        <5> HIDE DEF q, ms
        <5> QED
          BY <1>0, <3>2, <4>1, QueryLemma, FoundQuery
      <4>3. queries' = Put(queries, QueryKey(q), acc)
        BY <1>3, <3>2 DEF FoldQuery
      <4> DEFINE key == QueryKey(q)
      <4> HIDE DEF q, ms, acc, key
      <4> SUFFICES ASSUME NEW k \in DOMAIN queries'
                   PROVE  /\ queries'[k] \in QueryAccs
                          /\ QueryEven(queries'[k])
                          /\ Len(queries'[k].latencies) > 0
        BY DEF QueriesInv, QueryEven
      <4>4. queries' = Put(queries, key, acc)
        BY <4>3 DEF key
      <4>5. CASE k = key
        <5>1. queries'[k] = acc
          BY <4>4, <4>5 DEF Put
        <5> QED
          BY <4>2, <5>1
      <4>6. CASE k # key
        <5>1. k \in DOMAIN queries /\ queries'[k] = queries[k]
          BY <4>4, <4>6 DEF Put
        <5> QED
          BY <1>0, <5>1 DEF QueriesInv
      <4> QED
        BY <4>5, <4>6
    <3> QED
      BY <3>1, <3>2
  <2> QED
    BY <2>1, <2>2 DEF RatesInv
<1>4. CASE Reject \/ UNCHANGED vars
  <2>1. UNCHANGED <<allocations, queries, added>> /\ (next' = 0 \/ next' = next)
    BY <1>4 DEF Reject, vars, bucket
  <2>2. HandInv'
    BY <1>0, <2>1 DEF HandInv
  <2>3. AllocationsInv' /\ QueriesInv'
    BY <1>0, <2>1 DEF AllocationsInv, QueriesInv
  <2> QED
    BY <2>2, <2>3 DEF RatesInv
<1> QED
  BY <1>1, <1>2, <1>3, <1>4 DEF Next

\* Whatever queries a window takes, and wherever a malformed attempt ends one: no
\* published rate exceeds one, and no mean divides by zero.
THEOREM RatesTheorem == Spec => []RatesBounded
<1>1. RatesInv => RatesBounded
  BY DEF RatesInv, AllocationsInv, QueriesInv, AllocationEven, QueryEven, RatesBounded
<1> QED
  BY <1>1, RatesInit, RatesNext, PTL DEF Spec

-----------------------------------------------------------------------------
(***************************************************************************)
(* Types, and where add is in the query in hand.                            *)
(***************************************************************************)
Calls == [q : Queries, ms : Times]

\* The attempts before the next one are well-formed.
PrefixInv ==
  next # 0 => /\ next <= Len(InHand.q.indexer_queries) + 1
              /\ \A j \in 1 .. next - 1 : HasIds(InHand.q.indexer_queries[j])

\* The accumulators are finitely many.
TablesInv == IsFiniteSet(DOMAIN allocations) /\ IsFiniteSet(DOMAIN queries)

StateInv ==
  /\ client_queries \in Nat
  /\ outcome \in {"ok", "err"}
  /\ TablesInv
  /\ PrefixInv

LEMMA PutLemma ==
  ASSUME NEW f, NEW k, NEW v
  PROVE  /\ DOMAIN Put(f, k, v) = DOMAIN f \union {k}
         /\ Put(f, k, v)[k] = v
         /\ SameOn(DOMAIN f \ {k}, Put(f, k, v), f)
  BY DEF Put, SameOn

LEMMA CallLemma ==
  ASSUME HandInv, NEW i \in DOMAIN added
  PROVE  /\ added[i] \in Calls
         /\ added[i].q \in Queries /\ added[i].ms \in Times /\ added[i].ms \in Nat
         /\ added[i].q.indexer_queries \in Seq(Attempts)
<1>1. added \in Seq(Calls)
  BY DEF HandInv, Calls
<1>2. added[i] \in Calls
  BY <1>1
<1> QED
  BY <1>2, QueriesAssumption, TimesAssumption DEF Calls

\* A call of add: the queries of before keep their place.
LEMMA BeginLemma ==
  ASSUME HandInv, Begin
  PROVE  /\ Len(added) \in Nat /\ Len(added') = Len(added) + 1
         /\ DOMAIN added = 1 .. Len(added)
         /\ DOMAIN added' = DOMAIN added \union {Len(added')}
         /\ Len(added') \notin DOMAIN added
         /\ \A i \in DOMAIN added : added'[i] = added[i]
         /\ InHand' = added'[Len(added')] /\ InHand' \in Calls
<1>1. added \in Seq(Calls)
  BY DEF HandInv, Calls
<1>2. PICK r \in Calls : added' = Append(added, r)
  BY DEF Begin, Calls
<1> HIDE DEF Calls
<1>3. /\ Len(added) \in Nat /\ Len(added') = Len(added) + 1
      /\ DOMAIN added = 1 .. Len(added) /\ DOMAIN added' = 1 .. Len(added')
  BY <1>1, <1>2
<1>4. \A i \in DOMAIN added : added'[i] = added[i]
  BY <1>1, <1>2
<1>5. added'[Len(added')] = r
  BY <1>1, <1>2, <1>3
<1>6. InHand' = r
  BY <1>5 DEF InHand
<1> QED
  BY <1>3, <1>4, <1>5, <1>6

LEMMA StateInit == Init => StateInv
  BY FS_EmptySet DEF Init, Empty, StateInv, TablesInv, PrefixInv

LEMMA StateNext == RatesInv /\ StateInv /\ [Next]_vars => StateInv'
<1> SUFFICES ASSUME RatesInv, StateInv, [Next]_vars PROVE StateInv'
  OBVIOUS
<1>0. HandInv /\ TablesInv /\ PrefixInv /\ client_queries \in Nat /\ outcome \in {"ok", "err"}
  BY DEF RatesInv, StateInv
<1>1. CASE Begin
  <2>1. client_queries' \in Nat /\ outcome' \in {"ok", "err"} /\ TablesInv'
    BY <1>0, <1>1 DEF Begin, TablesInv
  <2>2. InHand' \in Calls
    BY <1>0, <1>1, BeginLemma
  <2>3. Len(InHand'.q.indexer_queries) \in Nat
    BY <2>2, QueriesAssumption DEF Calls
  <2>4. next' = 1
    BY <1>1 DEF Begin
  <2>5. PrefixInv'
    BY <2>3, <2>4 DEF PrefixInv
  <2> QED
    BY <2>1, <2>5 DEF StateInv
<1>2. CASE FoldAttempt
  <2> DEFINE q == InHand.q
             a == q.indexer_queries[next]
             n == Len(q.indexer_queries)
  <2>1. client_queries' \in Nat /\ outcome' \in {"ok", "err"}
    BY <1>0, <1>2 DEF FoldAttempt
  <2>2. TablesInv'
    <3> DEFINE acc == WithAttempt(AllocationAcc(a), a)
    <3>1. allocations' = Put(allocations, AllocationKey(a), acc) /\ queries' = queries
      BY <1>2 DEF FoldAttempt
    <3> HIDE DEF acc
    <3>2. DOMAIN allocations' = DOMAIN allocations \union {AllocationKey(a)}
      BY <3>1, PutLemma
    <3> QED
      BY <1>0, <3>1, <3>2, FS_AddElement DEF TablesInv
  <2>3. q.indexer_queries \in Seq(Attempts) /\ next # 0 /\ next \in 1 .. n
    BY <1>0, <1>2, HandLemma DEF FoldAttempt
  <2>4. next' = next + 1 /\ InHand' = InHand /\ WellFormed(a) /\ n \in Nat
    BY <1>2, <2>3 DEF FoldAttempt, InHand
  <2>5. HasIds(a)
    BY <2>4 DEF WellFormed, HasIds, IsDeployment, IsAddress
  <2>6. \A j \in 1 .. next - 1 : HasIds(q.indexer_queries[j])
    BY <1>0, <2>3 DEF PrefixInv
  <2>7. \A j \in 1 .. next : HasIds(q.indexer_queries[j])
    <3> SUFFICES ASSUME NEW j \in 1 .. next PROVE HasIds(q.indexer_queries[j])
      OBVIOUS
    <3>1. j = next \/ j \in 1 .. next - 1
      BY <1>0 DEF HandInv
    <3> HIDE DEF q
    <3> QED
      BY <2>5, <2>6, <3>1
  <2>8. PrefixInv'
    <3>1. next' <= n + 1 /\ next' - 1 = next
      BY <2>3, <2>4
    <3>2. InHand'.q = q
      BY <2>4
    <3> QED
      BY <2>7, <3>1, <3>2 DEF PrefixInv
  <2> QED
    BY <2>1, <2>2, <2>8 DEF StateInv
<1>3. CASE FoldQuery
  <2>1. client_queries' \in Nat /\ outcome' \in {"ok", "err"} /\ next' = 0
    BY <1>0, <1>3 DEF FoldQuery
  <2>2. IsFiniteSet(DOMAIN queries')
    <3>1. CASE queries' = queries
      BY <1>0, <3>1 DEF TablesInv
    <3>2. CASE queries' = Put(queries, QueryKey(InHand.q),
                              WithQuery(QueryAcc(InHand.q), InHand.q, InHand.ms))
      <4> DEFINE k == QueryKey(InHand.q)
                 acc == WithQuery(QueryAcc(InHand.q), InHand.q, InHand.ms)
      <4>1. queries' = Put(queries, k, acc)
        BY <3>2
      <4> HIDE DEF k, acc
      <4>2. DOMAIN queries' = DOMAIN queries \union {k}
        BY <4>1, PutLemma
      <4> QED
        BY <1>0, <4>2, FS_AddElement DEF TablesInv
    <3> QED
      BY <1>3, <3>1, <3>2 DEF FoldQuery
  <2>3. TablesInv'
    BY <1>0, <1>3, <2>2 DEF FoldQuery, TablesInv
  <2> QED
    BY <2>1, <2>3 DEF StateInv, PrefixInv
<1>4. CASE Reject
  BY <1>0, <1>4 DEF Reject, bucket, StateInv, TablesInv, PrefixInv
<1>5. CASE UNCHANGED vars
  BY <1>0, <1>5 DEF vars, bucket, StateInv, TablesInv, PrefixInv, InHand
<1> QED
  BY <1>1, <1>2, <1>3, <1>4, <1>5 DEF Next

\* Whatever queries a window takes, the state is what TypeOK says; the sums of fees
\* are numbers because a sum of numbers is one.
THEOREM TypeTheorem == Spec => []TypeOK
<1>1. RatesInv /\ StateInv => TypeOK
  BY DEF RatesInv, HandInv, AllocationsInv, QueriesInv, AllocationAccs, QueryAccs, StateInv,
         TypeOK
<1> QED
  BY <1>1, RatesInit, RatesNext, StateInit, StateNext, PTL DEF Spec

-----------------------------------------------------------------------------
(***************************************************************************)
(* The query in hand, and which queries count.                              *)
(***************************************************************************)
\* The query in hand, as its index, and what its folded attempts cost.
Hand == IF next = 0 THEN {} ELSE {Len(added)}
HandFees == IF next = 0 THEN 0 ELSE SumFunctionOnSet(FeesOf(InHand.q), 1 .. next - 1)

\* The well-formed attempts before the first malformed one.
LEMMA GoodPrefixLemma ==
  ASSUME NEW q \in Queries
  PROVE  /\ Len(q.indexer_queries) \in Nat
         /\ GoodPrefix(q) \in Nat /\ GoodPrefix(q) <= Len(q.indexer_queries)
         /\ \A j \in 1 .. GoodPrefix(q) : HasIds(q.indexer_queries[j])
         /\ GoodPrefix(q) < Len(q.indexer_queries)
              => ~ HasIds(q.indexer_queries[GoodPrefix(q) + 1])
<1> DEFINE bad == {j \in DOMAIN q.indexer_queries : ~ HasIds(q.indexer_queries[j])}
           n == Len(q.indexer_queries)
<1>1. DOMAIN q.indexer_queries = 1 .. n /\ n \in Nat
  BY QueriesAssumption
<1>2. CASE bad = {}
  <2>1. GoodPrefix(q) = n
    BY <1>2 DEF GoodPrefix
  <2>2. \A j \in 1 .. n : HasIds(q.indexer_queries[j])
    BY <1>1, <1>2
  <2> QED
    BY <1>1, <2>1, <2>2
<1>3. CASE bad # {}
  <2>1. bad \in SUBSET Nat
    BY <1>1
  <2> DEFINE m == Min(bad)
  <2>2. m \in bad /\ \A y \in bad : m <= y
    <3> HIDE DEF bad
    <3> QED
      BY <1>3, <2>1, MinOfNats
  <2>3. GoodPrefix(q) = m - 1
    BY <1>3 DEF GoodPrefix
  <2> HIDE DEF m
  <2>4. m \in 1 .. n /\ ~ HasIds(q.indexer_queries[m])
    BY <1>1, <2>2
  <2>5. \A j \in 1 .. m - 1 : HasIds(q.indexer_queries[j])
    BY <1>1, <2>2, <2>4
  <2> HIDE DEF n
  <2>6. m - 1 \in Nat /\ m - 1 <= n /\ m - 1 + 1 = m
    BY <1>1, <2>4
  <2> QED
    BY <1>1, <2>3, <2>4, <2>5, <2>6 DEF n
<1> QED
  BY <1>2, <1>3

LEMMA GoodPrefixUnique ==
  ASSUME NEW q \in Queries, NEW m \in Nat, m <= Len(q.indexer_queries),
         \A j \in 1 .. m : HasIds(q.indexer_queries[j]),
         m = Len(q.indexer_queries) \/ ~ HasIds(q.indexer_queries[m + 1])
  PROVE  GoodPrefix(q) = m
<1> DEFINE g == GoodPrefix(q)
           n == Len(q.indexer_queries)
<1>1. /\ n \in Nat /\ g \in Nat /\ g <= n
      /\ \A j \in 1 .. g : HasIds(q.indexer_queries[j])
      /\ g < n => ~ HasIds(q.indexer_queries[g + 1])
  BY GoodPrefixLemma
<1> HIDE DEF g, n
<1>2. ~ (g < m)
  <2> SUFFICES ASSUME g < m PROVE FALSE
    OBVIOUS
  <2>1. g + 1 \in 1 .. m /\ g < n
    BY <1>1 DEF n
  <2> QED
    BY <1>1, <2>1
<1>3. ~ (m < g)
  <2> SUFFICES ASSUME m < g PROVE FALSE
    OBVIOUS
  <2>1. m + 1 \in 1 .. g /\ m # n
    BY <1>1
  <2> QED
    BY <1>1, <2>1 DEF n
<1>4. g = m
  BY <1>1, <1>2, <1>3
<1> QED
  BY <1>4 DEF g

\* add passes an attempt exactly if the records can name it.
LEMMA InHandLemma ==
  ASSUME HandInv, PrefixInv, next # 0
  PROVE  /\ Len(added) \in DOMAIN added /\ InHand.q \in Queries
         /\ InHand.q.indexer_queries \in Seq(Attempts)
         /\ next \in Nat /\ next - 1 \in Nat /\ next - 1 <= Len(InHand.q.indexer_queries)
         /\ Reject => /\ GoodPrefix(InHand.q) = next - 1
                      /\ Len(added) \notin Accepted
         /\ FoldQuery => /\ GoodPrefix(InHand.q) = next - 1
                         /\ next - 1 = Len(InHand.q.indexer_queries)
                         /\ Len(added) \in Accepted
<1> DEFINE q == InHand.q
           n == Len(q.indexer_queries)
<1>1. added \in Seq(Calls) /\ Len(added) > 0 /\ next \in Nat
  BY DEF HandInv, Calls
<1>2. Len(added) \in DOMAIN added
  BY <1>1
<1>3. q \in Queries /\ q.indexer_queries \in Seq(Attempts) /\ n \in Nat
  BY HandLemma
<1>4. /\ next <= n + 1
      /\ \A j \in 1 .. next - 1 : HasIds(q.indexer_queries[j])
  BY DEF PrefixInv
<1>5. next - 1 \in Nat /\ next - 1 <= n
  BY <1>1, <1>3, <1>4
<1>6. added[Len(added)].q = q
  BY DEF InHand
<1>7. ASSUME Reject
      PROVE  GoodPrefix(q) = next - 1 /\ Len(added) \notin Accepted
  <2>1. ~ HasIds(q.indexer_queries[next]) /\ next \in 1 .. n
    BY <1>3, <1>7 DEF Reject, WellFormed, HasIds, IsDeployment, IsAddress
  <2>2. (next - 1) + 1 = next
    BY <1>1
  <2>3. GoodPrefix(q) = next - 1
    <3> HIDE DEF q
    <3> QED
      BY <1>3, <1>4, <1>5, <2>1, <2>2, GoodPrefixUnique
  <2>4. GoodPrefix(q) # n
    BY <1>3, <2>1, <2>3
  <2> QED
    BY <1>6, <2>3, <2>4 DEF Accepted
<1>8. ASSUME FoldQuery
      PROVE  /\ GoodPrefix(q) = next - 1 /\ next - 1 = n
             /\ Len(added) \in Accepted
  <2>1. next > n
    BY <1>8 DEF FoldQuery
  <2>2. next - 1 = n
    BY <1>1, <1>3, <1>4, <2>1
  <2>3. GoodPrefix(q) = next - 1
    <3> HIDE DEF q
    <3> QED
      BY <1>3, <1>4, <1>5, <2>2, GoodPrefixUnique
  <2> QED
    BY <1>2, <1>6, <2>2, <2>3 DEF Accepted
<1> QED
  BY <1>1, <1>2, <1>3, <1>5, <1>7, <1>8

\* A call of add changes nothing of the queries that were there.
LEMMA BeginCounts ==
  ASSUME HandInv, Begin
  PROVE  /\ Hand = {} /\ Hand' = {Len(added')}
         /\ DOMAIN added' \ Hand' = DOMAIN added
         /\ Accepted' \ Hand' = Accepted
         /\ Attempted' \ Hand' = Attempted
<1>1. /\ Len(added') \notin DOMAIN added
      /\ DOMAIN added' = DOMAIN added \union {Len(added')}
      /\ \A i \in DOMAIN added : added'[i] = added[i]
  BY BeginLemma
<1>2. next = 0 /\ next' = 1
  BY DEF Begin
<1>3. Hand = {} /\ Hand' = {Len(added')}
  BY <1>2 DEF Hand
<1> DEFINE n == Len(added')
<1> HIDE DEF n
<1>4. DOMAIN added' = DOMAIN added \union {n} /\ n \notin DOMAIN added /\ Hand' = {n}
  BY <1>1, <1>3 DEF n
<1>5. Accepted' = {i \in DOMAIN added' :
                     GoodPrefix(added'[i].q) = Len(added'[i].q.indexer_queries)}
  BY DEF Accepted
<1>6. Attempted' = {i \in Accepted' : added'[i].q.indexer_queries # << >>}
  BY DEF Attempted
<1>7. \A i : i \in Accepted' \ {n} <=> i \in Accepted
  BY <1>1, <1>4, <1>5 DEF Accepted
<1>8. \A i \in Accepted : added'[i] = added[i]
  BY <1>1 DEF Accepted
<1>9. \A i : i \in Attempted' \ {n} <=> i \in Attempted
  BY <1>6, <1>7, <1>8 DEF Attempted
<1> QED
  BY <1>3, <1>4, <1>7, <1>9

-----------------------------------------------------------------------------
(***************************************************************************)
(* What a step does to the sums over all accumulators.                      *)
(***************************************************************************)
AllocationTable == [k \in DOMAIN allocations |-> SumFunction(allocations[k].fees)]
QueryTable == [k \in DOMAIN queries |-> SumFunction(queries[k].fees)]
CountTable == [k \in DOMAIN queries |-> Len(queries[k].latencies)]

LEMMA SumsOfTables ==
  /\ AllocationFees = SumFunction(AllocationTable)
  /\ QueryFees = SumFunction(QueryTable)
  /\ CountedQueries = SumFunction(CountTable)
  BY DEF AllocationFees, QueryFees, CountedQueries, SumOver, AllocationTable, QueryTable,
         CountTable

LEMMA TableTypes ==
  ASSUME RatesInv, TablesInv
  PROVE  /\ AllocationTable \in [DOMAIN allocations -> Nat]
         /\ QueryTable \in [DOMAIN queries -> Nat]
         /\ CountTable \in [DOMAIN queries -> Nat]
         /\ AllocationFees \in Nat /\ QueryFees \in Nat /\ CountedQueries \in Nat
<1>1. \A k \in DOMAIN allocations : SumFunction(allocations[k].fees) \in Nat
  <2> SUFFICES ASSUME NEW k \in DOMAIN allocations
               PROVE  SumFunction(allocations[k].fees) \in Nat
    OBVIOUS
  <2>1. allocations[k].fees \in Seq(Nat)
    BY DEF RatesInv, AllocationsInv, AllocationAccs
  <2> QED
    BY <2>1, SumOfSeqType
<1>2. \A k \in DOMAIN queries : /\ SumFunction(queries[k].fees) \in Nat
                                /\ Len(queries[k].latencies) \in Nat
  <2> SUFFICES ASSUME NEW k \in DOMAIN queries
               PROVE  /\ SumFunction(queries[k].fees) \in Nat
                      /\ Len(queries[k].latencies) \in Nat
    OBVIOUS
  <2>1. queries[k].fees \in Seq(Nat) /\ queries[k].latencies \in Seq(Nat)
    BY DEF RatesInv, QueriesInv, QueryAccs
  <2> QED
    BY <2>1, SumOfSeqType
<1>3. AllocationTable \in [DOMAIN allocations -> Nat]
  BY <1>1 DEF AllocationTable
<1>4. QueryTable \in [DOMAIN queries -> Nat] /\ CountTable \in [DOMAIN queries -> Nat]
  BY <1>2 DEF QueryTable, CountTable
<1>5. /\ SumFunctionOnSet(AllocationTable, DOMAIN allocations) \in Nat
      /\ SumFunctionOnSet(QueryTable, DOMAIN queries) \in Nat
      /\ SumFunctionOnSet(CountTable, DOMAIN queries) \in Nat
  BY <1>3, <1>4, SumType DEF TablesInv
<1>6. /\ DOMAIN AllocationTable = DOMAIN allocations
      /\ DOMAIN QueryTable = DOMAIN queries /\ DOMAIN CountTable = DOMAIN queries
  BY <1>3, <1>4
<1> QED
  BY <1>3, <1>4, <1>5, <1>6, SumsOfTables DEF SumFunction

LEMMA AttemptFees ==
  ASSUME RatesInv, TablesInv, FoldAttempt
  PROVE  AllocationFees' = AllocationFees + InHand.q.indexer_queries[next].fee_grt
<1> DEFINE a == InHand.q.indexer_queries[next]
           k == AllocationKey(a)
           old == AllocationAcc(a)
           acc == WithAttempt(old, a)
<1>0. HandInv /\ AllocationsInv
  BY DEF RatesInv
<1>1. a \in Attempts
  BY <1>0, HandLemma DEF FoldAttempt
<1>2. a.fee_grt \in Nat
  BY <1>1, AttemptsAssumption
<1>3. allocations' = Put(allocations, k, acc)
  BY DEF FoldAttempt
<1> HIDE DEF a
<1>4. old \in AllocationAccs
  BY <1>0, <1>1, FoundAllocation
<1>5. old.fees \in Seq(Nat) /\ acc.fees = Append(old.fees, a.fee_grt)
  <2> HIDE DEF old
  <2> QED
    BY <1>4 DEF AllocationAccs, WithAttempt
<1>6. old.fees = IF k \in DOMAIN allocations THEN allocations[k].fees ELSE << >>
  BY DEF AllocationAcc
<1> HIDE DEF k, old, acc
<1>7. /\ DOMAIN allocations' = DOMAIN allocations \union {k} /\ allocations'[k] = acc
      /\ SameOn(DOMAIN allocations \ {k}, allocations', allocations)
  BY <1>3 DEF Put, SameOn
<1>8. SumFunction(acc.fees) = SumFunction(old.fees) + a.fee_grt
  BY <1>2, <1>5, SumOfAppend
<1> DEFINE f == AllocationTable
           g == [x \in DOMAIN allocations' |-> SumFunction(allocations'[x].fees)]
<1>10. f \in [DOMAIN allocations -> Nat] /\ IsFiniteSet(DOMAIN allocations)
  BY TableTypes DEF TablesInv
<1>11. SumFunction(old.fees) = IF k \in DOMAIN allocations THEN f[k] ELSE 0
  <2>1. CASE k \in DOMAIN allocations
    BY <1>6, <2>1 DEF AllocationTable
  <2>2. CASE k \notin DOMAIN allocations
    BY <1>6, <2>2, SumOfEmpty
  <2> QED
    BY <2>1, <2>2
<1>12. DOMAIN g = DOMAIN allocations \union {k} /\ g[k] = SumFunction(acc.fees)
  BY <1>7
<1>13. SameOn(DOMAIN allocations \ {k}, g, f)
  BY <1>7 DEF SameOn, AllocationTable
<1> HIDE DEF f, g
<1>14. g[k] = (IF k \in DOMAIN allocations THEN f[k] ELSE 0) + a.fee_grt
  BY <1>8, <1>11, <1>12
<1>15. SumFunction(g) = SumFunction(f) + a.fee_grt
  BY <1>2, <1>10, <1>12, <1>13, <1>14, SumGrow
<1>16. AllocationFees' = SumFunction(g)
  BY DEF AllocationFees, SumOver, g
<1> QED
  BY <1>15, <1>16, SumsOfTables DEF a, f

\* The query in hand has an attempt.
HasAttempt == InHand.q.indexer_queries # << >>

LEMMA QueryCosts ==
  ASSUME RatesInv, TablesInv, FoldQuery, HasAttempt
  PROVE  /\ QueryFees' = QueryFees + SumFunction(FeesOf(InHand.q))
         /\ CountedQueries' = CountedQueries + 1
<1> DEFINE q == InHand.q
           ms == InHand.ms
           k == QueryKey(q)
           old == QueryAcc(q)
           acc == WithQuery(old, q, ms)
           fee == SumFunction(FeesOf(q))
<1>0. HandInv /\ QueriesInv
  BY DEF RatesInv
<1>1. q \in Queries /\ ms \in Times /\ q.indexer_queries \in Seq(Attempts)
  BY <1>0, HandLemma DEF FoldQuery
<1>2. fee \in Nat
  BY <1>1, FeesLemma
<1>2a. q.response_time_ms \in Nat
  BY <1>1, QueriesAssumption
<1>3. queries' = Put(queries, k, acc) /\ q.indexer_queries # << >>
  BY DEF FoldQuery, HasAttempt
<1> HIDE DEF q, ms
<1>4. old \in QueryAccs
  BY <1>0, <1>1, <1>3, FoundQuery
<1>5. /\ old.fees \in Seq(Nat) /\ acc.fees = Append(old.fees, fee)
      /\ old.latencies \in Seq(Nat) /\ acc.latencies = Append(old.latencies, q.response_time_ms)
  <2> HIDE DEF old
  <2> QED
    BY <1>4 DEF QueryAccs, WithQuery
<1>6. /\ old.fees = IF k \in DOMAIN queries THEN queries[k].fees ELSE << >>
      /\ old.latencies = IF k \in DOMAIN queries THEN queries[k].latencies ELSE << >>
  BY DEF QueryAcc
<1> HIDE DEF k, old, acc, fee
<1>7. /\ DOMAIN queries' = DOMAIN queries \union {k} /\ queries'[k] = acc
      /\ SameOn(DOMAIN queries \ {k}, queries', queries)
  BY <1>3 DEF Put, SameOn
<1>8. SumFunction(acc.fees) = SumFunction(old.fees) + fee
  BY <1>2, <1>5, SumOfAppend
<1>9. Len(acc.latencies) = Len(old.latencies) + 1
  BY <1>2a, <1>5
<1>10. /\ IsFiniteSet(DOMAIN queries)
       /\ QueryTable \in [DOMAIN queries -> Nat]
       /\ CountTable \in [DOMAIN queries -> Nat]
  BY TableTypes DEF TablesInv
<1>11. /\ SumFunction(old.fees) = IF k \in DOMAIN queries THEN QueryTable[k] ELSE 0
       /\ Len(old.latencies) = IF k \in DOMAIN queries THEN CountTable[k] ELSE 0
  <2>1. CASE k \in DOMAIN queries
    BY <1>6, <2>1 DEF QueryTable, CountTable
  <2>2. CASE k \notin DOMAIN queries
    BY <1>6, <2>2, SumOfEmpty
  <2> QED
    BY <2>1, <2>2
<1>12. QueryFees' = QueryFees + fee
  <2> DEFINE f == QueryTable
             g == [x \in DOMAIN queries' |-> SumFunction(queries'[x].fees)]
  <2>1. QueryFees' = SumFunction(g)
    BY DEF QueryFees, SumOver
  <2>2. DOMAIN g = DOMAIN queries \union {k} /\ g[k] = SumFunction(acc.fees)
    BY <1>7
  <2>3. SameOn(DOMAIN queries \ {k}, g, f)
    BY <1>7 DEF SameOn, QueryTable
  <2>4. f \in [DOMAIN queries -> Nat] /\ IsFiniteSet(DOMAIN queries)
    BY <1>10
  <2> HIDE DEF f, g
  <2>5. g[k] = (IF k \in DOMAIN queries THEN f[k] ELSE 0) + fee
    BY <1>8, <1>11, <2>2 DEF f
  <2>6. SumFunction(g) = SumFunction(f) + fee
    BY <1>2, <2>2, <2>3, <2>4, <2>5, SumGrow
  <2> QED
    BY <2>1, <2>6, SumsOfTables DEF f
<1>13. CountedQueries' = CountedQueries + 1
  <2> DEFINE f == CountTable
             g == [x \in DOMAIN queries' |-> Len(queries'[x].latencies)]
  <2>1. CountedQueries' = SumFunction(g)
    BY DEF CountedQueries, SumOver
  <2>2. DOMAIN g = DOMAIN queries \union {k} /\ g[k] = Len(acc.latencies)
    BY <1>7
  <2>3. SameOn(DOMAIN queries \ {k}, g, f)
    BY <1>7 DEF SameOn, CountTable
  <2>4. f \in [DOMAIN queries -> Nat] /\ IsFiniteSet(DOMAIN queries)
    BY <1>10
  <2> HIDE DEF f, g
  <2>5. g[k] = (IF k \in DOMAIN queries THEN f[k] ELSE 0) + 1
    BY <1>9, <1>11, <2>2 DEF f
  <2>6. SumFunction(g) = SumFunction(f) + 1
    BY <2>2, <2>3, <2>4, <2>5, SumGrow
  <2> QED
    BY <2>1, <2>6, SumsOfTables DEF f
<1> QED
  BY <1>12, <1>13 DEF fee, q

-----------------------------------------------------------------------------
(***************************************************************************)
(* The fees of the two topics.                                              *)
(***************************************************************************)
\* What the allocations hold beyond the queries is at least what the query in hand
\* cost so far, and no more than that unless an earlier query was cut short.
FeesInv ==
  /\ AllocationFees >= QueryFees + HandFees
  /\ DOMAIN added \ Hand \subseteq Accepted => AllocationFees = QueryFees + HandFees

\* The cost of the attempts that were folded: nothing at first, one attempt's fee
\* more for each, and in the end that of the query.
LEMMA HandFeesLemma ==
  ASSUME HandInv, PrefixInv, next # 0
  PROVE  /\ HandFees \in Nat
         /\ next = 1 => HandFees = 0
         /\ FoldAttempt => /\ HandFees' = HandFees + InHand.q.indexer_queries[next].fee_grt
                           /\ InHand.q.indexer_queries[next].fee_grt \in Nat
         /\ FoldQuery => HandFees = SumFunction(FeesOf(InHand.q))
<1> DEFINE q == InHand.q
           f == FeesOf(q)
           n == Len(q.indexer_queries)
<1>1. /\ q \in Queries /\ next \in Nat /\ next - 1 \in Nat /\ next - 1 <= n
      /\ q.indexer_queries \in Seq(Attempts)
      /\ FoldQuery => next - 1 = n
  BY InHandLemma
<1>2. /\ DOMAIN f = 1 .. n /\ n \in Nat
      /\ \A i \in 1 .. n : f[i] = q.indexer_queries[i].fee_grt /\ f[i] \in Nat
  BY <1>1, FeesLemma
<1> HIDE DEF q, f
<1>3. ASSUME NEW m \in Nat, m <= n
      PROVE  IsFiniteSet(1 .. m) /\ \A i \in 1 .. m : f[i] \in Nat
  <2>1. IsFiniteSet(1 .. m)
    BY FS_Interval
  <2> HIDE DEF n
  <2> QED
    BY <1>2, <1>3, <2>1
<1>4. HandFees = SumFunctionOnSet(f, 1 .. next - 1)
  BY DEF HandFees, f, q
<1>5. HandFees \in Nat
  BY <1>1, <1>3, <1>4, SumType
<1>6. next = 1 => HandFees = 0
  <2> SUFFICES ASSUME next = 1 PROVE HandFees = 0
    OBVIOUS
  <2>1. 1 .. next - 1 = {}
    OBVIOUS
  <2> QED
    BY <1>4, <2>1, SumEmpty
<1>7. ASSUME FoldAttempt
      PROVE  HandFees' = HandFees + q.indexer_queries[next].fee_grt
             /\ q.indexer_queries[next].fee_grt \in Nat
  <2>1. next \in 1 .. n /\ next' = next + 1 /\ added' = added
    BY <1>1, <1>7 DEF FoldAttempt, q
  <2>2. next' # 0 /\ next' - 1 = next
    BY <1>1, <2>1
  <2>3. InHand' = InHand
    BY <2>1 DEF InHand
  <2>4. HandFees' = SumFunctionOnSet(f, 1 .. next)
    BY <2>2, <2>3 DEF HandFees, f, q
  <2>5. f[next] \in Nat /\ f[next] = q.indexer_queries[next].fee_grt
    BY <1>2, <2>1
  <2> DEFINE D == 1 .. next - 1
             k == next
  <2>6. k \notin D /\ 1 .. next = D \union {k}
    BY <1>1, <2>1
  <2>7. IsFiniteSet(D) /\ \A i \in D : f[i] \in Nat
    BY <1>1, <1>3
  <2> HIDE DEF D, k
  <2>8. SameOn(D, f, f) /\ f[k] \in Nat
    BY <2>5 DEF SameOn, k
  <2>9. SumFunctionOnSet(f, D \union {k}) = SumFunctionOnSet(f, D) + f[k]
    BY <2>6, <2>7, <2>8, SumAdd
  <2> QED
    BY <1>4, <2>4, <2>5, <2>6, <2>9 DEF D, k
<1>8. ASSUME FoldQuery
      PROVE  HandFees = SumFunction(f)
  <2>1. 1 .. next - 1 = DOMAIN f
    BY <1>1, <1>2, <1>8
  <2> QED
    BY <1>4, <2>1 DEF SumFunction
<1> QED
  BY <1>5, <1>6, <1>7, <1>8 DEF q, f

LEMMA FeesInit == Init => FeesInv
<1> SUFFICES ASSUME Init PROVE FeesInv
  OBVIOUS
<1>1. allocations = Empty /\ queries = Empty /\ next = 0
  BY DEF Init
<1>2. DOMAIN AllocationTable = {} /\ DOMAIN QueryTable = {}
  BY <1>1 DEF AllocationTable, QueryTable, Empty
<1>3. AllocationFees = 0 /\ QueryFees = 0
  BY <1>2, SumsOfTables, SumEmpty DEF SumFunction
<1>4. HandFees = 0
  BY <1>1 DEF HandFees
<1> QED
  BY <1>3, <1>4 DEF FeesInv

LEMMA FeesNext == RatesInv /\ StateInv /\ FeesInv /\ [Next]_vars => FeesInv'
<1> SUFFICES ASSUME RatesInv, StateInv, FeesInv, [Next]_vars PROVE FeesInv'
  OBVIOUS
<1>0. HandInv /\ TablesInv /\ PrefixInv
  BY DEF RatesInv, StateInv
<1>1. AllocationFees \in Nat /\ QueryFees \in Nat
  BY <1>0, TableTypes
<1>2. /\ AllocationFees >= QueryFees + HandFees
      /\ DOMAIN added \ Hand \subseteq Accepted => AllocationFees = QueryFees + HandFees
  BY DEF FeesInv
<1>3. CASE Begin
  <2>1. AllocationFees' = AllocationFees /\ QueryFees' = QueryFees
    BY <1>3 DEF Begin, AllocationFees, QueryFees, SumOver
  <2>2. HandInv' /\ PrefixInv' /\ next' = 1 /\ next = 0
    BY <1>3, RatesNext, StateNext DEF Begin, RatesInv, StateInv
  <2>3. HandFees = 0 /\ HandFees' = 0
    <3>1. HandFees' = SumFunctionOnSet(FeesOf(InHand'.q), 1 .. 1 - 1)
      BY <2>2 DEF HandFees
    <3>2. 1 .. 1 - 1 = {}
      OBVIOUS
    <3> QED
      BY <2>2, <3>1, <3>2, SumEmpty DEF HandFees
  <2>4. DOMAIN added' \ Hand' = DOMAIN added /\ Accepted' \ Hand' = Accepted /\ Hand = {}
    BY <1>0, <1>3, BeginCounts
  <2>5. DOMAIN added' \ Hand' \subseteq Accepted' => DOMAIN added \ Hand \subseteq Accepted
    BY <2>4
  <2> QED
    BY <1>1, <1>2, <2>1, <2>3, <2>5 DEF FeesInv
<1>4. CASE FoldAttempt
  <2> DEFINE fee == InHand.q.indexer_queries[next].fee_grt
  <2>1. AllocationFees' = AllocationFees + fee
    BY <1>0, <1>4, AttemptFees
  <2>2. HandFees' = HandFees + fee /\ HandFees \in Nat /\ fee \in Nat
    BY <1>0, <1>4, HandFeesLemma DEF FoldAttempt
  <2>3. QueryFees' = QueryFees
    BY <1>4 DEF FoldAttempt, QueryFees, SumOver
  <2>4. Hand' = Hand /\ Accepted' = Accepted /\ added' = added
    <3>1. next # 0 /\ next' # 0 /\ added' = added
      BY <1>0, <1>4 DEF FoldAttempt, HandInv
    <3> QED
      BY <3>1 DEF Hand, Accepted
  <2> HIDE DEF fee
  <2>5. AllocationFees' >= QueryFees' + HandFees'
    BY <1>1, <1>2, <2>1, <2>2, <2>3
  <2>6. DOMAIN added' \ Hand' \subseteq Accepted' => AllocationFees' = QueryFees' + HandFees'
    BY <1>1, <1>2, <2>1, <2>2, <2>3, <2>4
  <2> QED
    BY <2>5, <2>6 DEF FeesInv
<1>5. CASE Reject
  <2>1. AllocationFees' = AllocationFees /\ QueryFees' = QueryFees
    BY <1>5 DEF Reject, bucket, AllocationFees, QueryFees, SumOver
  <2>2. next # 0 /\ next' = 0 /\ added' = added
    BY <1>5 DEF Reject
  <2>3. HandFees \in Nat /\ HandFees' = 0 /\ Hand' = {}
    BY <1>0, <2>2, HandFeesLemma DEF HandFees, Hand
  <2>4. Len(added) \in DOMAIN added /\ Len(added) \notin Accepted
    BY <1>0, <1>5, <2>2, InHandLemma
  <2>5. Accepted' = Accepted
    BY <2>2 DEF Accepted
  <2>6. ~ (DOMAIN added' \ Hand' \subseteq Accepted')
    BY <2>2, <2>3, <2>4, <2>5
  <2> QED
    BY <1>1, <1>2, <2>1, <2>3, <2>6 DEF FeesInv
<1>6. CASE FoldQuery
  <2> DEFINE fee == SumFunction(FeesOf(InHand.q))
  <2>1. next # 0 /\ next' = 0 /\ added' = added
    BY <1>6 DEF FoldQuery
  <2>2. AllocationFees' = AllocationFees
    BY <1>6 DEF FoldQuery, AllocationFees, SumOver
  <2>3. HandFees = fee /\ fee \in Nat /\ HandFees' = 0
    BY <1>0, <1>6, <2>1, HandFeesLemma DEF HandFees
  <2>4. QueryFees' = QueryFees + fee
    <3>1. CASE HasAttempt
      BY <1>0, <1>6, <3>1, QueryCosts
    <3>2. CASE ~ HasAttempt
      <4>1. queries' = queries
        BY <1>6, <3>2 DEF FoldQuery, HasAttempt
      <4>2. QueryFees' = QueryFees
        BY <4>1 DEF QueryFees, SumOver
      <4>3. FeesOf(InHand.q) = [i \in {} |-> InHand.q.indexer_queries[i].fee_grt]
        BY <3>2 DEF FeesOf, HasAttempt
      <4>4. DOMAIN FeesOf(InHand.q) = {}
        BY <4>3
      <4>5. fee = 0
        BY <4>4, SumEmpty DEF SumFunction
      <4> HIDE DEF fee
      <4> QED
        BY <1>1, <4>2, <4>5
    <3> QED
      BY <3>1, <3>2
  <2>5. DOMAIN added' \ Hand' \subseteq Accepted' => DOMAIN added \ Hand \subseteq Accepted
    BY <2>1 DEF Hand, Accepted
  <2> HIDE DEF fee
  <2> QED
    BY <1>1, <1>2, <2>2, <2>3, <2>4, <2>5 DEF FeesInv
<1>7. CASE UNCHANGED vars
  BY <1>7 DEF vars, bucket, FeesInv, AllocationFees, QueryFees, SumOver, HandFees, Hand,
              Accepted, InHand
<1> QED
  BY <1>3, <1>4, <1>5, <1>6, <1>7 DEF Next

\* The allocations topic never reports fewer fees than the queries topic, and no
\* more unless a malformed attempt cut a query of the window short.
THEOREM FeesTheorem == Spec => []FeesAgree
<1>1. RatesInv /\ StateInv /\ FeesInv => FeesAgree
  <2> SUFFICES ASSUME RatesInv, StateInv, FeesInv, next = 0
               PROVE  /\ AllocationFees >= QueryFees
                      /\ Accepted = DOMAIN added => AllocationFees = QueryFees
    BY DEF FeesAgree
  <2>1. HandFees = 0 /\ Hand = {}
    BY DEF HandFees, Hand
  <2>2. AllocationFees \in Nat /\ QueryFees \in Nat
    BY TableTypes DEF StateInv
  <2> QED
    BY <2>1, <2>2 DEF FeesInv
<1> QED
  BY <1>1, RatesInit, RatesNext, StateInit, StateNext, FeesInit, FeesNext, PTL DEF Spec

-----------------------------------------------------------------------------
(***************************************************************************)
(* Every client query is counted.                                           *)
(***************************************************************************)
\* The finished queries that no record counts.
Missed == (DOMAIN added \ Attempted) \ Hand

CountInv ==
  client_queries = CountedQueries + Cardinality(Missed) + (IF next = 0 THEN 0 ELSE 1)

LEMMA MissedFinite ==
  ASSUME HandInv
  PROVE  IsFiniteSet(Missed) /\ Cardinality(Missed) \in Nat
<1>1. DOMAIN added = 1 .. Len(added) /\ Len(added) \in Nat
  BY DEF HandInv
<1>2. IsFiniteSet(DOMAIN added)
  BY <1>1, FS_Interval
<1>3. Missed \in SUBSET DOMAIN added
  BY DEF Missed
<1>4. IsFiniteSet(Missed)
  BY <1>2, <1>3, FS_Subset
<1> QED
  BY <1>4, FS_CardinalityType

LEMMA CountInit == Init => CountInv
<1> SUFFICES ASSUME Init PROVE CountInv
  OBVIOUS
<1>1. added = << >> /\ queries = Empty /\ next = 0 /\ client_queries = 0
  BY DEF Init
<1>2. DOMAIN CountTable = {}
  BY <1>1 DEF CountTable, Empty
<1>3. CountedQueries = 0
  BY <1>2, SumsOfTables, SumEmpty DEF SumFunction
<1>4. Missed = {}
  BY <1>1 DEF Missed
<1>5. Cardinality(Missed) = 0
  BY <1>4, FS_EmptySet
<1> QED
  BY <1>1, <1>3, <1>5 DEF CountInv

\* A query ends: it is missed if it is not attempted.
LEMMA EndsMissed ==
  ASSUME HandInv, PrefixInv, next # 0, next' = 0, added' = added
  PROVE  /\ Len(added) \notin Attempted => Cardinality(Missed') = Cardinality(Missed) + 1
         /\ Len(added) \in Attempted => Cardinality(Missed') = Cardinality(Missed)
<1> DEFINE n == Len(added)
<1>1. n \in DOMAIN added
  BY InHandLemma
<1>2. Hand = {n} /\ Hand' = {} /\ Attempted' = Attempted
  BY DEF Hand, Attempted, Accepted
<1>3. Missed = (DOMAIN added \ Attempted) \ {n} /\ Missed' = DOMAIN added \ Attempted
  BY <1>2 DEF Missed
<1>4. IsFiniteSet(Missed)
  BY MissedFinite
<1> HIDE DEF n
<1>5. ASSUME n \notin Attempted
      PROVE  Cardinality(Missed') = Cardinality(Missed) + 1
  <2>1. Missed' = Missed \union {n} /\ n \notin Missed
    BY <1>1, <1>3, <1>5
  <2> QED
    BY <1>4, <2>1, FS_AddElement
<1>6. ASSUME n \in Attempted
      PROVE  Missed' = Missed
  BY <1>3, <1>6
<1> QED
  BY <1>5, <1>6 DEF n

LEMMA CountNext == RatesInv /\ StateInv /\ CountInv /\ [Next]_vars => CountInv'
<1> SUFFICES ASSUME RatesInv, StateInv, CountInv, [Next]_vars PROVE CountInv'
  OBVIOUS
<1>0. HandInv /\ TablesInv /\ PrefixInv
  BY DEF RatesInv, StateInv
<1> DEFINE missed == Cardinality(Missed)
<1>1. CountedQueries \in Nat /\ missed \in Nat
  BY <1>0, TableTypes, MissedFinite
<1>2. client_queries = CountedQueries + missed + (IF next = 0 THEN 0 ELSE 1)
  BY DEF CountInv
<1>3. CASE Begin
  <2>1. CountedQueries' = CountedQueries
    BY <1>3 DEF Begin, CountedQueries, SumOver
  <2>2. next = 0 /\ next' = 1 /\ client_queries' = client_queries + 1
    BY <1>3 DEF Begin
  <2>3. /\ DOMAIN added' \ Hand' = DOMAIN added /\ Attempted' \ Hand' = Attempted
        /\ Hand = {}
    BY <1>0, <1>3, BeginCounts
  <2>4. Missed' = Missed
    BY <2>3 DEF Missed
  <2>5. Cardinality(Missed') = missed
    BY <2>4
  <2> HIDE DEF missed
  <2> QED
    BY <1>1, <1>2, <2>1, <2>2, <2>5 DEF CountInv
<1>4. CASE FoldAttempt
  <2>1. CountedQueries' = CountedQueries /\ client_queries' = client_queries
    BY <1>4 DEF FoldAttempt, CountedQueries, SumOver
  <2>2. next # 0 /\ next' # 0 /\ added' = added
    BY <1>0, <1>4 DEF FoldAttempt, HandInv
  <2>3. Missed' = Missed
    BY <2>2 DEF Missed, Hand, Attempted, Accepted
  <2> QED
    BY <1>2, <2>1, <2>2, <2>3 DEF CountInv
<1>5. CASE Reject
  <2>1. CountedQueries' = CountedQueries /\ client_queries' = client_queries
    BY <1>5 DEF Reject, bucket, CountedQueries, SumOver
  <2>2. next # 0 /\ next' = 0 /\ added' = added
    BY <1>5 DEF Reject
  <2>3. Len(added) \notin Attempted
    BY <1>0, <1>5, <2>2, InHandLemma DEF Attempted
  <2>4. Cardinality(Missed') = missed + 1
    BY <1>0, <2>2, <2>3, EndsMissed
  <2> HIDE DEF missed
  <2> QED
    BY <1>1, <1>2, <2>1, <2>2, <2>4 DEF CountInv
<1>6. CASE FoldQuery
  <2>1. next # 0 /\ next' = 0 /\ added' = added /\ client_queries' = client_queries
    BY <1>6 DEF FoldQuery
  <2>2. Len(added) \in Attempted <=> HasAttempt
    <3>1. Len(added) \in Accepted
      BY <1>0, <1>6, <2>1, InHandLemma
    <3> QED
      BY <3>1 DEF Attempted, HasAttempt, InHand
  <2>3. CASE HasAttempt
    <3>1. CountedQueries' = CountedQueries + 1
      BY <1>0, <1>6, <2>3, QueryCosts
    <3>2. Cardinality(Missed') = missed
      BY <1>0, <2>1, <2>2, <2>3, EndsMissed
    <3> HIDE DEF missed
    <3> QED
      BY <1>1, <1>2, <2>1, <3>1, <3>2 DEF CountInv
  <2>4. CASE ~ HasAttempt
    <3>1. queries' = queries
      BY <1>6, <2>4 DEF FoldQuery, HasAttempt
    <3>2. CountedQueries' = CountedQueries
      BY <3>1 DEF CountedQueries, SumOver
    <3>3. Cardinality(Missed') = missed + 1
      BY <1>0, <2>1, <2>2, <2>4, EndsMissed
    <3> HIDE DEF missed
    <3> QED
      BY <1>1, <1>2, <2>1, <3>2, <3>3 DEF CountInv
  <2> QED
    BY <2>3, <2>4
<1>7. CASE UNCHANGED vars
  BY <1>7 DEF vars, bucket, CountInv, CountedQueries, SumOver, Missed, Hand, Attempted, Accepted
<1> QED
  BY <1>3, <1>4, <1>5, <1>6, <1>7 DEF Next

\* No client query of a window is lost or counted twice: it is a sample of one query
\* record, or it has no attempt, or one of its attempts is malformed.
THEOREM ConservedTheorem == Spec => []QueriesConserved
<1>1. RatesInv /\ StateInv /\ CountInv => QueriesConserved
  <2> SUFFICES ASSUME RatesInv, StateInv, CountInv, next = 0
               PROVE  client_queries =
                        CountedQueries + Cardinality(DOMAIN added \ Attempted)
    BY DEF QueriesConserved
  <2>1. Missed = DOMAIN added \ Attempted
    BY DEF Missed, Hand
  <2>2. CountedQueries \in Nat /\ Cardinality(Missed) \in Nat
    BY TableTypes, MissedFinite DEF RatesInv, StateInv
  <2> QED
    BY <2>1, <2>2 DEF CountInv
<1> QED
  BY <1>1, RatesInit, RatesNext, StateInit, StateNext, CountInit, CountNext, PTL DEF Spec

-----------------------------------------------------------------------------
(***************************************************************************)
(* Samples in a sequence, and the values they stand for: no record tells    *)
(* one from the other.                                                      *)
(***************************************************************************)
Squares(f) == [x \in DOMAIN f |-> f[x] * f[x]]

Mirror(samples, value) ==
  /\ Len(samples) = Cardinality(DOMAIN value)
  /\ SumFunction(samples) = SumFunction(value)
  /\ SumFunction(Squares(samples)) = SumFunction(Squares(value))
  /\ Range(samples) = Range(value)

LEMMA SquaresLemma ==
  ASSUME NEW D, NEW f \in [D -> Nat]
  PROVE  Squares(f) \in [D -> Nat] /\ \A x \in D : Squares(f)[x] = f[x] * f[x]
<1>1. \A n \in Nat : n * n \in Nat
  OBVIOUS
<1> QED
  BY <1>1 DEF Squares

\* g is f with a value more.
OneMore(g, f, D, k) ==
  /\ IsFiniteSet(D) /\ f \in [D -> Nat] /\ k \notin D
  /\ DOMAIN g = D \union {k} /\ SameOn(D, g, f) /\ g[k] \in Nat

LEMMA SumOneMore ==
  ASSUME NEW D, NEW f, NEW k, NEW g, OneMore(g, f, D, k)
  PROVE  SumFunction(g) = SumFunction(f) + g[k]
<1>1. \A x \in D : f[x] \in Nat
  BY DEF OneMore
<1>2. SumFunctionOnSet(g, D \union {k}) = SumFunctionOnSet(f, D) + g[k]
  BY <1>1, SumAdd DEF OneMore
<1>3. DOMAIN f = D /\ DOMAIN g = D \union {k}
  BY DEF OneMore
<1> QED
  BY <1>2, <1>3 DEF SumFunction

LEMMA MirrorOfNothing ==
  ASSUME NEW value, DOMAIN value = {}
  PROVE  Mirror(<< >>, value)
<1>1. DOMAIN << >> = {} /\ Len(<< >>) = 0
  OBVIOUS
<1>2. DOMAIN Squares(<< >>) = {} /\ DOMAIN Squares(value) = {}
  BY <1>1 DEF Squares
<1>3. /\ SumFunction(<< >>) = 0 /\ SumFunction(value) = 0
      /\ SumFunction(Squares(<< >>)) = 0 /\ SumFunction(Squares(value)) = 0
  BY <1>1, <1>2, SumEmpty DEF SumFunction
<1>4. Range(<< >>) = {} /\ Range(value) = {}
  BY <1>1 DEF Range
<1> QED
  BY <1>1, <1>3, <1>4, FS_EmptySet DEF Mirror

LEMMA MirrorAppend ==
  ASSUME NEW samples \in Seq(Nat), NEW value, Mirror(samples, value),
         NEW H, NEW h, NEW new, OneMore(new, value, H, h)
  PROVE  Mirror(Append(samples, new[h]), new)
<1> DEFINE v == new[h]
           s == Append(samples, v)
           k == Len(samples) + 1
           D == DOMAIN samples
<1>0. /\ IsFiniteSet(H) /\ value \in [H -> Nat] /\ h \notin H
      /\ DOMAIN new = H \union {h} /\ SameOn(H, new, value) /\ v \in Nat
  BY DEF OneMore
<1> HIDE DEF v
<1>1. D = 1 .. Len(samples) /\ Len(samples) \in Nat
  OBVIOUS
<1>2. IsFiniteSet(D)
  BY <1>1, FS_Interval
<1>3. k \notin D /\ samples \in [D -> Nat]
  BY <1>1
<1>4. DOMAIN s = 1 .. k /\ Len(s) = k
  BY <1>0
<1>5. DOMAIN s = D \union {k}
  BY <1>1, <1>4
<1>6. \A i \in D : s[i] = samples[i]
  BY <1>0
<1>7. s[k] = v
  BY <1>0
<1>8. Len(samples) = Cardinality(H)
  BY <1>0 DEF Mirror
<1>9. Len(s) = Cardinality(DOMAIN new)
  <2>1. Cardinality(H \union {h}) = Cardinality(H) + 1
    BY <1>0, FS_AddElement
  <2> QED
    BY <1>0, <1>4, <1>8, <2>1
<1> HIDE DEF s, k, D
<1>10. SameOn(D, s, samples)
  BY <1>6 DEF SameOn
<1>11. SumFunction(s) = SumFunction(new)
  <2>1. OneMore(s, samples, D, k) /\ OneMore(new, value, H, h)
    BY <1>0, <1>2, <1>3, <1>5, <1>7, <1>10 DEF OneMore, v
  <2>2. /\ SumFunction(s) = SumFunction(samples) + s[k]
        /\ SumFunction(new) = SumFunction(value) + new[h]
    BY <2>1, SumOneMore
  <2> QED
    BY <1>7, <2>2 DEF Mirror, v
<1>12. SumFunction(Squares(s)) = SumFunction(Squares(new))
  <2> DEFINE w == v * v
  <2>1. w \in Nat
    BY <1>0
  <2>2. /\ Squares(samples) \in [D -> Nat] /\ Squares(value) \in [H -> Nat]
        /\ \A x \in D : Squares(samples)[x] = samples[x] * samples[x]
        /\ \A x \in H : Squares(value)[x] = value[x] * value[x]
    BY <1>0, <1>3, SquaresLemma
  <2>3. DOMAIN Squares(s) = D \union {k} /\ DOMAIN Squares(new) = H \union {h}
    BY <1>0, <1>5 DEF Squares
  <2>4. Squares(s)[k] = w /\ Squares(new)[h] = w
    BY <1>0, <1>5, <1>7 DEF Squares, v
  <2>5. SameOn(D, Squares(s), Squares(samples))
    BY <1>5, <1>10, <2>2 DEF Squares, SameOn
  <2>6. SameOn(H, Squares(new), Squares(value))
    BY <1>0, <2>2 DEF Squares, SameOn
  <2> DEFINE sq == Squares(s)
             sqs == Squares(samples)
             sqn == Squares(new)
             sqv == Squares(value)
  <2>7. sq = Squares(s) /\ sqs = Squares(samples) /\ sqn = Squares(new) /\ sqv = Squares(value)
    OBVIOUS
  <2> HIDE DEF w, sq, sqs, sqn, sqv
  <2>8. OneMore(sq, sqs, D, k) /\ sq[k] = w
    BY <1>2, <1>3, <2>1, <2>2, <2>3, <2>4, <2>5, <2>7 DEF OneMore
  <2>9. OneMore(sqn, sqv, H, h) /\ sqn[h] = w
    BY <1>0, <2>1, <2>2, <2>3, <2>4, <2>6, <2>7 DEF OneMore
  <2>10. /\ SumFunction(sq) = SumFunction(sqs) + sq[k]
         /\ SumFunction(sqn) = SumFunction(sqv) + sqn[h]
    BY <2>8, <2>9, SumOneMore
  <2>11. SumFunction(sqs) = SumFunction(sqv)
    BY <2>7 DEF Mirror
  <2> QED
    BY <2>7, <2>8, <2>9, <2>10, <2>11
<1>13. Range(s) = Range(new)
  <2>1. Range(samples) = Range(value)
    BY DEF Mirror
  <2>2. Range(s) = Range(samples) \union {v}
    BY <1>3, <1>5, <1>7, <1>10 DEF Range, SameOn
  <2>3. Range(new) = Range(value) \union {v}
    BY <1>0 DEF v, Range, SameOn
  <2> QED
    BY <2>1, <2>2, <2>3
<1> QED
  BY <1>9, <1>11, <1>12, <1>13 DEF Mirror, s, v

\* The statistics of a record are those of the values.
HasStatistics(samples, value) ==
  /\ Len(samples) = Cardinality(DOMAIN value)
  /\ SumFunction(samples) = SumFunction(value)
  /\ mean(samples) = <<SumFunction(value), Cardinality(DOMAIN value)>>
  /\ max(samples) = Max({0} \union {value[x] : x \in DOMAIN value})
  /\ spread(samples) = Cardinality(DOMAIN value) * SumFunction(Squares(value))
                         - SumFunction(value) * SumFunction(value)

LEMMA MirrorRecords ==
  ASSUME NEW samples \in Seq(Nat), NEW H, IsFiniteSet(H), NEW value \in [H -> Nat],
         Mirror(samples, value)
  PROVE  HasStatistics(samples, value)
<1> DEFINE c == Cardinality(H)
           sum == SumFunction(value)
           sq == SumFunction(Squares(value))
<1>1. Len(samples) = c /\ SumFunction(samples) = sum /\ SumFunction(Squares(samples)) = sq
  BY DEF Mirror
<1>2. c \in Nat
  BY FS_CardinalityType
<1>3. Squares(value) \in [H -> Nat] /\ \A x \in H : Squares(value)[x] = value[x] * value[x]
  BY SquaresLemma
<1>4. sum \in Nat /\ sq \in Nat
  <2>1. \A x \in H : value[x] \in Nat /\ Squares(value)[x] \in Nat
    BY <1>3
  <2>2. DOMAIN value = H /\ DOMAIN Squares(value) = H
    BY <1>3
  <2>3. SumFunctionOnSet(value, H) \in Nat /\ SumFunctionOnSet(Squares(value), H) \in Nat
    BY <2>1, SumType
  <2> QED
    BY <2>2, <2>3 DEF SumFunction
<1>5. mean(samples) = <<sum, c>>
  BY <1>1 DEF mean
<1>6. max(samples) = Max({0} \union {value[x] : x \in H})
  <2>1. Range(samples) = {value[x] : x \in H}
    BY DEF Mirror, Range
  <2> QED
    BY <2>1 DEF max
<1>7. c = 0 => sum = 0
  <2> SUFFICES ASSUME c = 0 PROVE sum = 0
    OBVIOUS
  <2>1. H = {}
    BY FS_EmptySet
  <2> QED
    BY <2>1, SumEmpty DEF SumFunction
<1>8. c = 1 => sq = sum * sum
  <2> SUFFICES ASSUME c = 1 PROVE sq = sum * sum
    OBVIOUS
  <2>1. PICK h : H = {h}
    BY FS_Singleton
  <2>2. \A f \in [H -> Nat] : SumFunction(f) = f[h]
    <3> SUFFICES ASSUME NEW f \in [H -> Nat] PROVE SumFunction(f) = f[h]
      OBVIOUS
    <3>1. h \in H /\ \A x \in H : f[x] \in Nat
      BY <2>1
    <3>2. SumFunctionOnSet(f, H) = f[h] + SumFunctionOnSet(f, H \ {h})
      BY <3>1, SumSplit
    <3>3. H \ {h} = {}
      BY <2>1
    <3>4. SumFunctionOnSet(f, H) = f[h] + 0
      BY <3>2, <3>3, SumEmpty
    <3> QED
      BY <3>1, <3>4 DEF SumFunction
  <2>3. sum = value[h] /\ sq = Squares(value)[h]
    BY <1>3, <2>2
  <2> QED
    BY <1>3, <2>1, <2>3
<1>9. spread(samples) = IF c < 2 THEN 0 ELSE c * sq - sum * sum
  BY <1>1 DEF spread, Squares
<1> HIDE DEF c, sum, sq
<1>10. spread(samples) = c * sq - sum * sum
  <2>1. CASE c = 0
    <3>1. c * sq - sum * sum = 0
      BY <1>4, <1>7, <2>1
    <3> QED
      BY <1>9, <2>1, <3>1
  <2>2. CASE c = 1
    <3> DEFINE ss == sum * sum
    <3>1. ss \in Int
      BY <1>4
    <3>2. sq = ss
      BY <1>8, <2>2
    <3> HIDE DEF ss
    <3>3. c * sq - ss = 0
      BY <2>2, <3>1, <3>2
    <3> QED
      BY <1>9, <2>2, <3>3 DEF ss
  <2>3. CASE c \notin {0, 1}
    BY <1>2, <1>9, <2>3
  <2> QED
    BY <2>1, <2>2, <2>3
<1> QED
  BY <1>1, <1>5, <1>6, <1>10 DEF HasStatistics, c, sum, sq

-----------------------------------------------------------------------------
(***************************************************************************)
(* The accumulators of the attempts mirror the attempts, given as a         *)
(* function from where they stand (query, index) to what they are.          *)
(***************************************************************************)
LatenciesAt(at) == [h \in DOMAIN at |-> at[h].response_time_ms]
FeesAt(at) == [h \in DOMAIN at |-> at[h].fee_grt]
BehindAt(at) == [h \in DOMAIN at |-> at[h].blocks_behind]
GoodAt(at) == {h \in DOMAIN at : at[h].result = "success"}

AttemptSamples(acc, at) ==
  /\ Mirror(acc.latencies, LatenciesAt(at))
  /\ Mirror(acc.fees, FeesAt(at))
  /\ Mirror(acc.blocks_behind, BehindAt(at))
  /\ acc.successes = Cardinality(GoodAt(at))

Earlier(g, h) == g[1] < h[1] \/ (g[1] = h[1] /\ g[2] <= h[2])

\* The url and the chain are those of the first attempt.
AttemptFirst(acc, at) ==
  \E h \in DOMAIN at : /\ \A g \in DOMAIN at : Earlier(h, g)
                       /\ acc.indexer_url = at[h].url
                       /\ acc.chain = at[h].indexed_chain

\* The attempts of one record.
OfKey(at, k) == [h \in {g \in DOMAIN at : NamesOf(at[g]) = k} |-> at[h]]

MirrorsAttempts(table, at) ==
  /\ IsFiniteSet(DOMAIN at) /\ \A h \in DOMAIN at : at[h] \in Attempts
  /\ DOMAIN table = {NamesOf(at[h]) : h \in DOMAIN at}
  /\ \A k \in DOMAIN table : /\ AttemptSamples(table[k], OfKey(at, k))
                             /\ AttemptFirst(table[k], OfKey(at, k))

\* An attempt more, after all others.
AttemptMore(new, at, h) ==
  /\ IsFiniteSet(DOMAIN at) /\ \A g \in DOMAIN at : at[g] \in Attempts
  /\ h \notin DOMAIN at /\ DOMAIN new = DOMAIN at \union {h}
  /\ SameOn(DOMAIN at, new, at) /\ new[h] \in Attempts

LEMMA SamplesGrow ==
  ASSUME NEW acc \in AllocationAccs, NEW at, NEW new, NEW h, AttemptMore(new, at, h),
         AttemptSamples(acc, at)
  PROVE  AttemptSamples(WithAttempt(acc, new[h]), new)
<1> DEFINE a == new[h]
           D == DOMAIN at
           w == WithAttempt(acc, a)
<1>1. /\ IsFiniteSet(D) /\ \A g \in D : at[g] \in Attempts
      /\ h \notin D /\ DOMAIN new = D \union {h}
      /\ \A g \in D : new[g] = at[g]
      /\ a \in Attempts
  BY DEF AttemptMore, SameOn
<1>2. /\ a.response_time_ms \in Nat /\ a.fee_grt \in Nat /\ a.blocks_behind \in Nat
      /\ \A g \in D : /\ at[g].response_time_ms \in Nat /\ at[g].fee_grt \in Nat
                      /\ at[g].blocks_behind \in Nat
  BY <1>1, AttemptsAssumption
<1>3. /\ acc.latencies \in Seq(Nat) /\ acc.fees \in Seq(Nat)
      /\ acc.blocks_behind \in Seq(Nat) /\ acc.successes \in Nat
  BY DEF AllocationAccs
<1>4. /\ w.latencies = Append(acc.latencies, a.response_time_ms)
      /\ w.fees = Append(acc.fees, a.fee_grt)
      /\ w.blocks_behind = Append(acc.blocks_behind, a.blocks_behind)
      /\ w.successes = acc.successes + (IF a.result = "success" THEN 1 ELSE 0)
  <2> HIDE DEF a
  <2> QED
    BY DEF WithAttempt, AllocationAccs
<1> HIDE DEF a, D, w
<1>5. DOMAIN at = D /\ new[h] = a
  BY DEF D, a
<1>6. /\ OneMore(LatenciesAt(new), LatenciesAt(at), D, h)
      /\ LatenciesAt(new)[h] = a.response_time_ms
  BY <1>1, <1>2, <1>5 DEF OneMore, LatenciesAt, SameOn
<1>7. OneMore(FeesAt(new), FeesAt(at), D, h) /\ FeesAt(new)[h] = a.fee_grt
  BY <1>1, <1>2, <1>5 DEF OneMore, FeesAt, SameOn
<1>8. OneMore(BehindAt(new), BehindAt(at), D, h) /\ BehindAt(new)[h] = a.blocks_behind
  BY <1>1, <1>2, <1>5 DEF OneMore, BehindAt, SameOn
<1>9. Mirror(w.latencies, LatenciesAt(new))
  BY <1>3, <1>4, <1>6, MirrorAppend DEF AttemptSamples
<1>10. Mirror(w.fees, FeesAt(new))
  BY <1>3, <1>4, <1>7, MirrorAppend DEF AttemptSamples
<1>11. Mirror(w.blocks_behind, BehindAt(new))
  BY <1>3, <1>4, <1>8, MirrorAppend DEF AttemptSamples
<1>12. w.successes = Cardinality(GoodAt(new))
  <2>1. GoodAt(at) \in SUBSET D /\ h \notin GoodAt(at)
    BY <1>1, <1>5 DEF GoodAt
  <2>2. IsFiniteSet(GoodAt(at))
    BY <1>1, <2>1, FS_Subset
  <2>3. acc.successes = Cardinality(GoodAt(at))
    BY DEF AttemptSamples
  <2>4. CASE a.result = "success"
    <3>1. GoodAt(new) = GoodAt(at) \union {h}
      BY <1>1, <1>5, <2>4 DEF GoodAt
    <3>2. Cardinality(GoodAt(new)) = Cardinality(GoodAt(at)) + 1
      BY <2>1, <2>2, <3>1, FS_AddElement
    <3> QED
      BY <1>4, <2>3, <2>4, <3>2
  <2>5. CASE a.result # "success"
    <3>1. GoodAt(new) = GoodAt(at)
      BY <1>1, <1>5, <2>5 DEF GoodAt
    <3> QED
      BY <1>3, <1>4, <2>3, <2>5, <3>1
  <2> QED
    BY <2>4, <2>5
<1> QED
  BY <1>9, <1>10, <1>11, <1>12 DEF AttemptSamples, w, a

LEMMA SamplesOfNothing ==
  ASSUME NEW a, NEW at, DOMAIN at = {}
  PROVE  AttemptSamples([indexer_url |-> a.url, chain |-> a.indexed_chain,
                         latencies |-> << >>, fees |-> << >>, blocks_behind |-> << >>,
                         successes |-> 0], at)
<1>1. DOMAIN LatenciesAt(at) = {} /\ DOMAIN FeesAt(at) = {} /\ DOMAIN BehindAt(at) = {}
  BY DEF LatenciesAt, FeesAt, BehindAt
<1>2. GoodAt(at) = {}
  BY DEF GoodAt
<1>3. Cardinality(GoodAt(at)) = 0
  BY <1>2, FS_EmptySet
<1>4. /\ Mirror(<< >>, LatenciesAt(at)) /\ Mirror(<< >>, FeesAt(at))
      /\ Mirror(<< >>, BehindAt(at))
  BY <1>1, MirrorOfNothing
<1> QED
  BY <1>3, <1>4 DEF AttemptSamples

LEMMA FirstGrows ==
  ASSUME NEW acc \in AllocationAccs, NEW at, NEW new, NEW h, AttemptMore(new, at, h),
         \A g \in DOMAIN at : Earlier(g, h), Earlier(h, h),
         \/ AttemptFirst(acc, at)
         \/ /\ DOMAIN at = {}
            /\ acc.indexer_url = new[h].url /\ acc.chain = new[h].indexed_chain
  PROVE  AttemptFirst(WithAttempt(acc, new[h]), new)
<1> DEFINE a == new[h]
           w == WithAttempt(acc, a)
<1>1. w.indexer_url = acc.indexer_url /\ w.chain = acc.chain
  <2> HIDE DEF a
  <2> QED
    BY DEF WithAttempt, AllocationAccs
<1> HIDE DEF w
<1>2. CASE AttemptFirst(acc, at)
  <2>1. PICK e \in DOMAIN at : /\ \A g \in DOMAIN at : Earlier(e, g)
                               /\ acc.indexer_url = at[e].url
                               /\ acc.chain = at[e].indexed_chain
    BY <1>2 DEF AttemptFirst
  <2>2. e \in DOMAIN new /\ new[e] = at[e] /\ \A g \in DOMAIN new : Earlier(e, g)
    BY <2>1 DEF AttemptMore, SameOn
  <2> QED
    BY <1>1, <2>1, <2>2 DEF AttemptFirst, w
<1>3. CASE /\ DOMAIN at = {}
           /\ acc.indexer_url = new[h].url /\ acc.chain = new[h].indexed_chain
  <2>1. DOMAIN new = {h}
    BY <1>3 DEF AttemptMore
  <2> QED
    BY <1>1, <1>3, <2>1 DEF AttemptFirst, w
<1> QED
  BY <1>2, <1>3

\* The attempt comes after all others.
Latest(at, h) == Earlier(h, h) /\ \A g \in DOMAIN at : Earlier(g, h)

LEMMA OfKeyGrows ==
  ASSUME NEW at, NEW new, NEW h, AttemptMore(new, at, h), Latest(at, h), NEW k
  PROVE  /\ NamesOf(new[h]) = k =>
              /\ AttemptMore(OfKey(new, k), OfKey(at, k), h) /\ OfKey(new, k)[h] = new[h]
              /\ Latest(OfKey(at, k), h)
         /\ NamesOf(new[h]) # k => OfKey(new, k) = OfKey(at, k)
<1>1. /\ IsFiniteSet(DOMAIN at) /\ \A g \in DOMAIN at : at[g] \in Attempts
      /\ h \notin DOMAIN at /\ DOMAIN new = DOMAIN at \union {h}
      /\ \A g \in DOMAIN at : new[g] = at[g]
      /\ new[h] \in Attempts
  BY DEF AttemptMore, SameOn
<1> DEFINE old == {g \in DOMAIN at : NamesOf(at[g]) = k}
           now == {g \in DOMAIN new : NamesOf(new[g]) = k}
<1>2. old \in SUBSET DOMAIN at /\ IsFiniteSet(old)
  BY <1>1, FS_Subset
<1>3. \A g \in DOMAIN at : g \in now <=> g \in old
  BY <1>1
<1>4. h \in now <=> NamesOf(new[h]) = k
  BY <1>1
<1>5. OfKey(at, k) = [g \in old |-> at[g]] /\ OfKey(new, k) = [g \in now |-> new[g]]
  BY DEF OfKey
<1>6. \A g \in now : g \in DOMAIN at \/ g = h
  BY <1>1
<1> HIDE DEF old, now
<1>7. ASSUME NamesOf(new[h]) = k
      PROVE  /\ AttemptMore(OfKey(new, k), OfKey(at, k), h) /\ OfKey(new, k)[h] = new[h]
             /\ Latest(OfKey(at, k), h)
  <2>1. now = old \union {h}
    BY <1>2, <1>3, <1>4, <1>6, <1>7
  <2>2. OfKey(new, k)[h] = new[h]
    BY <1>5, <2>1
  <2>3. AttemptMore(OfKey(new, k), OfKey(at, k), h)
    BY <1>1, <1>2, <1>5, <2>1 DEF AttemptMore, SameOn
  <2>4. Latest(OfKey(at, k), h)
    BY <1>2, <1>5 DEF Latest
  <2> QED
    BY <2>2, <2>3, <2>4
<1>8. ASSUME NamesOf(new[h]) # k PROVE OfKey(new, k) = OfKey(at, k)
  <2>1. now = old
    BY <1>2, <1>3, <1>4, <1>6, <1>8
  <2>2. \A g \in old : new[g] = at[g]
    BY <1>1, <1>2
  <2> QED
    BY <1>5, <2>1, <2>2
<1> QED
  BY <1>7, <1>8

\* Folding an attempt keeps the accumulators in step with the attempts.
LEMMA TableGrows ==
  ASSUME AllocationsInv, NEW at, NEW new, NEW h, MirrorsAttempts(allocations, at),
         AttemptMore(new, at, h), Latest(at, h)
  PROVE  MirrorsAttempts(Put(allocations, NamesOf(new[h]),
                             WithAttempt(AllocationAcc(new[h]), new[h])), new)
<1> DEFINE a == new[h]
           key == NamesOf(a)
           acc == AllocationAcc(a)
           w == WithAttempt(acc, a)
           table == Put(allocations, key, w)
           old == OfKey(at, key)
           now == OfKey(new, key)
<1>1. /\ IsFiniteSet(DOMAIN at) /\ \A g \in DOMAIN at : at[g] \in Attempts
      /\ h \notin DOMAIN at /\ DOMAIN new = DOMAIN at \union {h}
      /\ \A g \in DOMAIN at : new[g] = at[g]
      /\ a \in Attempts
  BY DEF AttemptMore, SameOn
<1>2. /\ DOMAIN allocations = {NamesOf(at[g]) : g \in DOMAIN at}
      /\ \A k \in DOMAIN allocations : /\ AttemptSamples(allocations[k], OfKey(at, k))
                                       /\ AttemptFirst(allocations[k], OfKey(at, k))
  BY DEF MirrorsAttempts
<1>3. IsFiniteSet(DOMAIN new) /\ \A g \in DOMAIN new : new[g] \in Attempts
  BY <1>1, FS_AddElement
<1>4. AllocationKey(a) = key
  BY DEF AllocationKey, NamesOf, deployment_to_cid_v0, address_hex
<1>5. acc \in AllocationAccs
  <2> HIDE DEF a
  <2> QED
    BY <1>1, FoundAllocation
<1>6. AttemptMore(now, old, h) /\ now[h] = a /\ Latest(old, h)
  BY OfKeyGrows
<1>7. AttemptSamples(acc, old) /\ (AttemptFirst(acc, old)
                                    \/ /\ DOMAIN old = {}
                                       /\ acc.indexer_url = a.url
                                       /\ acc.chain = a.indexed_chain)
  <2>1. CASE key \in DOMAIN allocations
    <3>1. acc = allocations[key]
      BY <1>4, <2>1 DEF AllocationAcc
    <3> HIDE DEF acc, key, a
    <3> QED
      BY <1>2, <2>1, <3>1
  <2>2. CASE key \notin DOMAIN allocations
    <3>1. DOMAIN old = {}
      BY <1>2, <2>2 DEF OfKey
    <3>2. acc = [indexer_url |-> a.url, chain |-> a.indexed_chain,
                 latencies |-> << >>, fees |-> << >>, blocks_behind |-> << >>,
                 successes |-> 0]
      BY <1>4, <2>2 DEF AllocationAcc
    <3>3. AttemptSamples(acc, old)
      <4> HIDE DEF acc, a, old
      <4> QED
        BY <3>1, <3>2, SamplesOfNothing
    <3> QED
      BY <3>1, <3>2, <3>3
  <2> QED
    BY <2>1, <2>2
<1>8. AttemptSamples(w, now)
  <2>1. AttemptSamples(WithAttempt(acc, now[h]), now)
    <3> HIDE DEF acc, now, old
    <3> QED
      BY <1>5, <1>6, <1>7, SamplesGrow
  <2> QED
    BY <1>6, <2>1
<1>9. AttemptFirst(w, now)
  <2>1. AttemptFirst(WithAttempt(acc, now[h]), now)
    <3>1. Earlier(h, h) /\ \A g \in DOMAIN old : Earlier(g, h)
      BY <1>6 DEF Latest
    <3> HIDE DEF acc, now, old, a
    <3> QED
      BY <1>5, <1>6, <1>7, <3>1, FirstGrows
  <2> QED
    BY <1>6, <2>1
<1>10. DOMAIN table = DOMAIN allocations \union {key} /\ table[key] = w
  BY DEF Put
<1>11. \A k \in DOMAIN table : k # key => /\ k \in DOMAIN allocations
                                          /\ table[k] = allocations[k]
  BY DEF Put
<1>12. DOMAIN table = {NamesOf(new[g]) : g \in DOMAIN new}
  <2> HIDE DEF table, w, acc
  <2> QED
    BY <1>1, <1>2, <1>10
<1>13. ASSUME NEW k \in DOMAIN table
       PROVE  AttemptSamples(table[k], OfKey(new, k)) /\ AttemptFirst(table[k], OfKey(new, k))
  <2>1. CASE k = key
    <3> HIDE DEF table, w, key
    <3> QED
      BY <1>8, <1>9, <1>10, <2>1
  <2>2. CASE k # key
    <3>1. k \in DOMAIN allocations /\ table[k] = allocations[k]
      BY <1>11, <2>2
    <3>2. OfKey(new, k) = OfKey(at, k)
      BY <2>2, OfKeyGrows
    <3> HIDE DEF table, w, key
    <3> QED
      BY <1>2, <3>1, <3>2
  <2> QED
    BY <2>1, <2>2
<1> HIDE DEF table
<1>14. MirrorsAttempts(table, new)
  BY <1>3, <1>12, <1>13 DEF MirrorsAttempts
<1> QED
  BY <1>14 DEF table

-----------------------------------------------------------------------------
(***************************************************************************)
(* The attempts folded so far, and that the accumulators mirror them.       *)
(***************************************************************************)
FoldedUpTo(i) == IF i \in Hand THEN next - 1 ELSE GoodPrefix(added[i].q)
FoldedNow == UNION {{<<i, j>> : j \in 1 .. FoldedUpTo(i)} : i \in DOMAIN added}
AttemptsNow == [h \in FoldedNow |-> AttemptAt(h)]

AllocationsMirror == MirrorsAttempts(allocations, AttemptsNow)

LEMMA AllocationsMirrorInit == Init => AllocationsMirror
<1> SUFFICES ASSUME Init PROVE AllocationsMirror
  OBVIOUS
<1>1. allocations = Empty /\ added = << >>
  BY DEF Init
<1>2. FoldedNow = {}
  BY <1>1 DEF FoldedNow
<1>3. DOMAIN AttemptsNow = {} /\ DOMAIN allocations = {}
  BY <1>1, <1>2 DEF AttemptsNow, Empty
<1> QED
  BY <1>3, FS_EmptySet DEF AllocationsMirror, MirrorsAttempts

\* Only FoldAttempt folds an attempt.
LEMMA FoldedSame ==
  ASSUME HandInv, PrefixInv, Begin \/ Reject \/ FoldQuery \/ UNCHANGED vars
  PROVE  AttemptsNow' = AttemptsNow
<1>1. \A i \in DOMAIN added : i \in DOMAIN added' /\ added'[i] = added[i]
  <2>1. CASE Begin
    BY <2>1, BeginLemma
  <2>2. CASE Reject \/ FoldQuery \/ UNCHANGED vars
    BY <2>2 DEF Reject, FoldQuery, vars
  <2> QED
    BY <2>1, <2>2
<1>2. \A i \in DOMAIN added : FoldedUpTo(i)' = FoldedUpTo(i)
  <2> SUFFICES ASSUME NEW i \in DOMAIN added PROVE FoldedUpTo(i)' = FoldedUpTo(i)
    OBVIOUS
  <2>1. CASE Begin
    <3>1. i \notin Hand /\ i \notin Hand'
      BY <2>1, BeginCounts, BeginLemma
    <3> QED
      BY <1>1, <3>1 DEF FoldedUpTo
  <2>2. CASE Reject \/ FoldQuery
    <3>1. next' = 0 /\ added' = added /\ next # 0
      BY <2>2 DEF Reject, FoldQuery
    <3>2. Hand' = {} /\ Hand = {Len(added)}
      BY <3>1 DEF Hand
    <3>3. GoodPrefix(InHand.q) = next - 1
      BY <2>2, <3>1, InHandLemma
    <3>4. FoldedUpTo(i)' = GoodPrefix(added[i].q)
      BY <3>1, <3>2 DEF FoldedUpTo
    <3>5. i = Len(added) => GoodPrefix(added[i].q) = next - 1
      BY <3>3 DEF InHand
    <3> QED
      BY <3>2, <3>4, <3>5 DEF FoldedUpTo
  <2>3. CASE UNCHANGED vars
    BY <2>3 DEF vars, FoldedUpTo, Hand
  <2> QED
    BY <2>1, <2>2, <2>3
<1>3. \A i \in DOMAIN added' : i \in DOMAIN added \/ 1 .. FoldedUpTo(i)' = {}
  <2>1. CASE Begin
    <3> SUFFICES ASSUME NEW i \in DOMAIN added', i \notin DOMAIN added
                 PROVE  1 .. FoldedUpTo(i)' = {}
      OBVIOUS
    <3>1. i = Len(added') /\ Hand' = {Len(added')}
      BY <2>1, BeginCounts, BeginLemma
    <3>2. next' = 1
      BY <2>1 DEF Begin
    <3>3. FoldedUpTo(i)' = 0
      BY <3>1, <3>2 DEF FoldedUpTo
    <3> QED
      BY <3>3
  <2>2. CASE Reject \/ FoldQuery \/ UNCHANGED vars
    BY <2>2 DEF Reject, FoldQuery, vars
  <2> QED
    BY <2>1, <2>2
<1>4. FoldedNow = UNION {{<<i, j>> : j \in 1 .. FoldedUpTo(i)} : i \in DOMAIN added}
  BY DEF FoldedNow
<1>5. FoldedNow' = UNION {{<<i, j>> : j \in 1 .. FoldedUpTo(i)'} : i \in DOMAIN added'}
  BY DEF FoldedNow
<1>6. ASSUME NEW h PROVE h \in FoldedNow' <=> h \in FoldedNow
  <2>1. h \in FoldedNow <=> \E i \in DOMAIN added : \E j \in 1 .. FoldedUpTo(i) : h = <<i, j>>
    BY <1>4
  <2>2. h \in FoldedNow'
          <=> \E i \in DOMAIN added' : \E j \in 1 .. FoldedUpTo(i)' : h = <<i, j>>
    BY <1>5
  <2> HIDE DEF FoldedUpTo
  <2> QED
    BY <1>1, <1>2, <1>3, <2>1, <2>2
<1>7. FoldedNow' = FoldedNow
  BY <1>6
<1>8. \A h \in FoldedNow : h[1] \in DOMAIN added
  BY <1>4
<1>9. \A h \in FoldedNow : AttemptAt(h)' = AttemptAt(h)
  BY <1>1, <1>8 DEF AttemptAt
<1>10. AttemptsNow' = [h \in FoldedNow' |-> AttemptAt(h)']
  BY DEF AttemptsNow
<1> QED
  BY <1>7, <1>9, <1>10 DEF AttemptsNow

\* FoldAttempt folds the next attempt of the last query.
LEMMA FoldedMore ==
  ASSUME HandInv, PrefixInv, AllocationsMirror, FoldAttempt
  PROVE  /\ AttemptMore(AttemptsNow', AttemptsNow, <<Len(added), next>>)
         /\ Latest(AttemptsNow, <<Len(added), next>>)
         /\ AttemptsNow'[<<Len(added), next>>] = InHand.q.indexer_queries[next]
         /\ InHand.q.indexer_queries[next] \in Attempts
<1>0. PICK n : n = Len(added)
  OBVIOUS
<1> DEFINE h == <<n, next>>
           a == InHand.q.indexer_queries[next]
<1>1. next # 0 /\ next' = next + 1 /\ added' = added /\ next \in DOMAIN InHand.q.indexer_queries
  BY DEF FoldAttempt
<1>2. /\ n \in DOMAIN added /\ next \in Nat /\ next - 1 \in Nat
      /\ InHand.q.indexer_queries \in Seq(Attempts)
  BY <1>0, <1>1, InHandLemma
<1>3. DOMAIN added = 1 .. n /\ n \in Nat
  BY <1>0 DEF HandInv
<1>4. Hand = {n} /\ Hand' = {n}
  BY <1>0, <1>1, <1>2 DEF Hand
<1>5. FoldedUpTo(n) = next - 1 /\ FoldedUpTo(n)' = next
  BY <1>1, <1>2, <1>4 DEF FoldedUpTo
<1>6. \A i \in DOMAIN added : i # n => FoldedUpTo(i)' = FoldedUpTo(i)
  BY <1>1, <1>4 DEF FoldedUpTo
<1>7. a \in Attempts
  BY <1>1, <1>2
<1> HIDE DEF a
<1>8. \A g : g \in FoldedNow <=> \E i \in DOMAIN added : \E j \in 1 .. FoldedUpTo(i) : g = <<i, j>>
  BY DEF FoldedNow
<1>9. \A g : g \in FoldedNow'
               <=> \E i \in DOMAIN added : \E j \in 1 .. FoldedUpTo(i)' : g = <<i, j>>
  BY <1>1 DEF FoldedNow
<1>10. \A j : j \in 1 .. next <=> j \in 1 .. next - 1 \/ j = next
  BY <1>1, <1>2
<1>11. next \notin 1 .. next - 1
  BY <1>2
<1>12. h \notin FoldedNow
  BY <1>5, <1>8, <1>11
<1>13. \A g : g \in FoldedNow' <=> g \in FoldedNow \/ g = h
  <2> SUFFICES ASSUME NEW g PROVE g \in FoldedNow' <=> g \in FoldedNow \/ g = h
    OBVIOUS
  <2>1. g \in FoldedNow' => g \in FoldedNow \/ g = h
    <3> SUFFICES ASSUME g \in FoldedNow' PROVE g \in FoldedNow \/ g = h
      OBVIOUS
    <3>1. PICK i \in DOMAIN added : \E j \in 1 .. FoldedUpTo(i)' : g = <<i, j>>
      BY <1>9
    <3>2. CASE i = n
      BY <1>5, <1>8, <1>10, <3>1, <3>2
    <3>3. CASE i # n
      BY <1>6, <1>8, <3>1, <3>3
    <3> QED
      BY <3>2, <3>3
  <2>2. g = h => g \in FoldedNow'
    BY <1>2, <1>5, <1>9, <1>10
  <2>3. g \in FoldedNow => g \in FoldedNow'
    <3> SUFFICES ASSUME g \in FoldedNow PROVE g \in FoldedNow'
      OBVIOUS
    <3>1. PICK i \in DOMAIN added : \E j \in 1 .. FoldedUpTo(i) : g = <<i, j>>
      BY <1>8
    <3>2. CASE i = n
      BY <1>5, <1>9, <1>10, <3>1, <3>2
    <3>3. CASE i # n
      BY <1>6, <1>9, <3>1, <3>3
    <3> QED
      BY <3>2, <3>3
  <2> QED
    BY <2>1, <2>2, <2>3
<1>14. \A g : AttemptAt(g)' = AttemptAt(g)
  BY <1>1 DEF AttemptAt
<1>15. AttemptAt(h) = a
  BY <1>0 DEF AttemptAt, InHand, a
<1>16. AttemptsNow' = [g \in FoldedNow' |-> AttemptAt(g)']
  BY DEF AttemptsNow
<1> HIDE DEF h
<1>17. DOMAIN AttemptsNow = FoldedNow /\ DOMAIN AttemptsNow' = FoldedNow \union {h}
  BY <1>13, <1>16 DEF AttemptsNow
<1>18. /\ IsFiniteSet(FoldedNow) /\ \A g \in FoldedNow : AttemptsNow[g] \in Attempts
  BY <1>17 DEF AllocationsMirror, MirrorsAttempts
<1>19. AttemptsNow'[h] = a /\ \A g \in FoldedNow : AttemptsNow'[g] = AttemptsNow[g]
  BY <1>13, <1>14, <1>15, <1>16 DEF AttemptsNow
<1>20. AttemptMore(AttemptsNow', AttemptsNow, h)
  BY <1>7, <1>12, <1>17, <1>18, <1>19 DEF AttemptMore, SameOn
<1>21. Latest(AttemptsNow, h)
  <2>1. h[1] = n /\ h[2] = next
    BY DEF h
  <2>2. Earlier(h, h)
    BY <1>2, <2>1 DEF Earlier
  <2>3. ASSUME NEW g \in FoldedNow PROVE Earlier(g, h)
    <3>1. PICK i \in DOMAIN added : \E j \in 1 .. FoldedUpTo(i) : g = <<i, j>>
      BY <1>8
    <3>5. PICK j \in 1 .. FoldedUpTo(i) : g = <<i, j>>
      BY <3>1
    <3>2. g[1] = i /\ g[2] = j
      BY <3>5
    <3>3. CASE i = n
      <4>1. j \in 1 .. next - 1
        BY <1>5, <3>3
      <4>2. j <= next
        BY <1>2, <4>1
      <4> QED
        BY <2>1, <3>2, <3>3, <4>2 DEF Earlier
    <3>4. CASE i # n
      <4>1. i < n
        BY <1>3, <3>4
      <4> QED
        BY <2>1, <3>2, <4>1 DEF Earlier
    <3> QED
      BY <3>3, <3>4
  <2> QED
    BY <1>17, <2>2, <2>3 DEF Latest
<1> QED
  BY <1>0, <1>7, <1>19, <1>20, <1>21 DEF h, a

LEMMA AllocationsMirrorNext ==
  RatesInv /\ StateInv /\ AllocationsMirror /\ [Next]_vars => AllocationsMirror'
<1> SUFFICES ASSUME RatesInv, StateInv, AllocationsMirror, [Next]_vars
             PROVE  AllocationsMirror'
  OBVIOUS
<1>0. HandInv /\ PrefixInv /\ AllocationsInv
  BY DEF RatesInv, StateInv
<1>1. CASE FoldAttempt
  <2> DEFINE h == <<Len(added), next>>
             a == InHand.q.indexer_queries[next]
             new == AttemptsNow'
  <2>1. /\ AttemptMore(new, AttemptsNow, h) /\ Latest(AttemptsNow, h)
        /\ new[h] = a /\ a \in Attempts
    BY <1>0, <1>1, FoldedMore
  <2>2. allocations' = Put(allocations, AllocationKey(a), WithAttempt(AllocationAcc(a), a))
    BY <1>1 DEF FoldAttempt
  <2>3. AllocationKey(a) = NamesOf(a)
    BY DEF AllocationKey, NamesOf, deployment_to_cid_v0, address_hex
  <2>4. MirrorsAttempts(allocations, AttemptsNow)
    BY DEF AllocationsMirror
  <2> HIDE DEF h, a, new
  <2>5. MirrorsAttempts(Put(allocations, NamesOf(new[h]),
                            WithAttempt(AllocationAcc(new[h]), new[h])), new)
    BY <1>0, <2>1, <2>4, TableGrows
  <2>6. MirrorsAttempts(allocations', new)
    BY <2>1, <2>2, <2>3, <2>5
  <2> QED
    BY <2>6 DEF AllocationsMirror, new
<1>2. CASE Begin \/ Reject \/ FoldQuery \/ UNCHANGED vars
  <2>1. allocations' = allocations
    BY <1>2 DEF Begin, Reject, FoldQuery, vars, bucket
  <2>2. AttemptsNow' = AttemptsNow
    BY <1>0, <1>2, FoldedSame
  <2>3. AllocationsMirror' <=> MirrorsAttempts(allocations', AttemptsNow')
    BY DEF AllocationsMirror
  <2> QED
    BY <2>1, <2>2, <2>3 DEF AllocationsMirror
<1> QED
  BY <1>1, <1>2 DEF Next

-----------------------------------------------------------------------------
(***************************************************************************)
(* The same of the queries, given as a function from their index to what    *)
(* they are.                                                                *)
(***************************************************************************)
CallsWithAttempt == {c \in Calls : c.q.indexer_queries # << >>}
NameOfCall(c) == NamesOf(c.q.indexer_queries[1])[1]

TimesAt(at) == [i \in DOMAIN at |-> at[i].q.response_time_ms]
CostsAt(at) == [i \in DOMAIN at |-> SumFunction(FeesOf(at[i].q))]
SuccessesAt(at) == {i \in DOMAIN at : at[i].q.result = "success"}
UserErrorsAt(at) == {i \in DOMAIN at : at[i].q.result \in UserErrors}

QuerySamples(acc, at) ==
  /\ Mirror(acc.latencies, TimesAt(at))
  /\ Mirror(acc.fees, CostsAt(at))
  /\ acc.successes = Cardinality(SuccessesAt(at))
  /\ acc.user_errors = Cardinality(UserErrorsAt(at))

\* The time is that of a query, and no query has a later one.
QueryRecent(acc, at) ==
  /\ \A i \in DOMAIN at : at[i].ms <= acc.most_recent_ms
  /\ \/ \E i \in DOMAIN at : at[i].ms = acc.most_recent_ms
     \/ DOMAIN at = {} /\ acc.most_recent_ms = 0

\* The chain is that of the first query.
QueryFirst(acc, at) ==
  \E i \in DOMAIN at : /\ \A j \in DOMAIN at : i <= j
                       /\ acc.chain = at[i].q.indexer_queries[1].indexed_chain

OfName(at, k) == [i \in {j \in DOMAIN at : NameOfCall(at[j]) = k} |-> at[i]]

MirrorsCalls(table, at) ==
  /\ IsFiniteSet(DOMAIN at) /\ \A i \in DOMAIN at : i \in Nat /\ at[i] \in CallsWithAttempt
  /\ DOMAIN table = {NameOfCall(at[i]) : i \in DOMAIN at}
  /\ \A k \in DOMAIN table : /\ QuerySamples(table[k], OfName(at, k))
                             /\ QueryRecent(table[k], OfName(at, k))
                             /\ QueryFirst(table[k], OfName(at, k))

\* A query more, after all others.
CallMore(new, at, i) ==
  /\ IsFiniteSet(DOMAIN at)
  /\ \A j \in DOMAIN at : j \in Nat /\ j < i /\ at[j] \in CallsWithAttempt
  /\ i \in Nat /\ DOMAIN new = DOMAIN at \union {i}
  /\ SameOn(DOMAIN at, new, at) /\ new[i] \in CallsWithAttempt

LEMMA CallTypes ==
  ASSUME NEW c \in CallsWithAttempt
  PROVE  /\ c.q \in Queries /\ c.ms \in Times /\ c.ms \in Nat
         /\ c.q.response_time_ms \in Nat /\ SumFunction(FeesOf(c.q)) \in Nat
         /\ c.q.indexer_queries \in Seq(Attempts) /\ c.q.indexer_queries # << >>
<1>1. c.q \in Queries /\ c.ms \in Times /\ c.q.indexer_queries # << >>
  BY DEF CallsWithAttempt, Calls
<1> QED
  BY <1>1, QueriesAssumption, TimesAssumption, FeesLemma

LEMMA Classified ==
  ASSUME NEW r
  PROVE  /\ classify(r) = "none" <=> r = "success"
         /\ classify(r) = "user" <=> r \in UserErrors
  BY DEF classify, UserErrors, NetworkErrors

LEMMA MaxOfTwo ==
  ASSUME NEW m \in Nat, NEW n \in Nat
  PROVE  Max({m, n}) = IF m >= n THEN m ELSE n
<1>1. \E x \in {m, n} : \A y \in {m, n} : x >= y
  OBVIOUS
<1>2. Max({m, n}) \in {m, n} /\ \A y \in {m, n} : Max({m, n}) >= y
  BY <1>1 DEF Max
<1> QED
  BY <1>2

\* One more in a set that is counted, or not.
LEMMA CountMore ==
  ASSUME NEW D, IsFiniteSet(D), NEW S \in SUBSET D, NEW i, i \notin D, NEW T, NEW more \in BOOLEAN,
         T = IF more THEN S \union {i} ELSE S
  PROVE  Cardinality(T) = Cardinality(S) + (IF more THEN 1 ELSE 0)
<1>1. IsFiniteSet(S) /\ Cardinality(S) \in Nat /\ i \notin S
  BY FS_Subset, FS_CardinalityType
<1>2. Cardinality(S \union {i}) = Cardinality(S) + 1
  BY <1>1, FS_AddElement
<1> QED
  BY <1>1, <1>2

LEMMA QuerySamplesGrow ==
  ASSUME NEW acc \in QueryAccs, NEW at, NEW new, NEW i, CallMore(new, at, i),
         QuerySamples(acc, at)
  PROVE  QuerySamples(WithQuery(acc, new[i].q, new[i].ms), new)
<1> DEFINE c == new[i]
           D == DOMAIN at
           w == WithQuery(acc, c.q, c.ms)
<1>1. /\ IsFiniteSet(D) /\ \A j \in D : at[j] \in CallsWithAttempt
      /\ i \notin D /\ DOMAIN new = D \union {i}
      /\ \A j \in D : new[j] = at[j]
      /\ c \in CallsWithAttempt
  BY DEF CallMore, SameOn
<1>2. /\ acc.latencies \in Seq(Nat) /\ acc.fees \in Seq(Nat)
      /\ acc.successes \in Nat /\ acc.user_errors \in Nat /\ acc.most_recent_ms \in Nat
  BY DEF QueryAccs
<1>3. /\ w.latencies = Append(acc.latencies, c.q.response_time_ms)
      /\ w.fees = Append(acc.fees, SumFunction(FeesOf(c.q)))
      /\ w.successes = acc.successes + (IF classify(c.q.result) = "none" THEN 1 ELSE 0)
      /\ w.user_errors = acc.user_errors + (IF classify(c.q.result) = "user" THEN 1 ELSE 0)
  <2> HIDE DEF c
  <2> QED
    BY DEF WithQuery, QueryAccs
<1> HIDE DEF c, D, w
<1>4. DOMAIN at = D /\ new[i] = c
  BY DEF D, c
<1>5. /\ c.q.response_time_ms \in Nat /\ SumFunction(FeesOf(c.q)) \in Nat
      /\ \A j \in D : at[j].q.response_time_ms \in Nat /\ SumFunction(FeesOf(at[j].q)) \in Nat
  BY <1>1, CallTypes
<1>6. OneMore(TimesAt(new), TimesAt(at), D, i) /\ TimesAt(new)[i] = c.q.response_time_ms
  BY <1>1, <1>4, <1>5 DEF OneMore, TimesAt, SameOn
<1>7. OneMore(CostsAt(new), CostsAt(at), D, i) /\ CostsAt(new)[i] = SumFunction(FeesOf(c.q))
  BY <1>1, <1>4, <1>5 DEF OneMore, CostsAt, SameOn
<1>8. Mirror(w.latencies, TimesAt(new))
  BY <1>2, <1>3, <1>6, MirrorAppend DEF QuerySamples
<1>9. Mirror(w.fees, CostsAt(new))
  BY <1>2, <1>3, <1>7, MirrorAppend DEF QuerySamples
<1>10. w.successes = Cardinality(SuccessesAt(new))
  <2> DEFINE more == c.q.result = "success"
  <2>1. SuccessesAt(at) \in SUBSET D /\ more \in BOOLEAN
    BY <1>4 DEF SuccessesAt
  <2>2. SuccessesAt(new) = IF more THEN SuccessesAt(at) \union {i} ELSE SuccessesAt(at)
    BY <1>1, <1>4 DEF SuccessesAt
  <2>3. w.successes = acc.successes + (IF more THEN 1 ELSE 0)
    BY <1>3, Classified
  <2> HIDE DEF more
  <2>4. Cardinality(SuccessesAt(new)) = Cardinality(SuccessesAt(at)) + (IF more THEN 1 ELSE 0)
    BY <1>1, <2>1, <2>2, CountMore
  <2> QED
    BY <2>3, <2>4 DEF QuerySamples
<1>11. w.user_errors = Cardinality(UserErrorsAt(new))
  <2> DEFINE more == c.q.result \in UserErrors
  <2>1. UserErrorsAt(at) \in SUBSET D /\ more \in BOOLEAN
    BY <1>4 DEF UserErrorsAt
  <2>2. UserErrorsAt(new) = IF more THEN UserErrorsAt(at) \union {i} ELSE UserErrorsAt(at)
    BY <1>1, <1>4 DEF UserErrorsAt
  <2>3. w.user_errors = acc.user_errors + (IF more THEN 1 ELSE 0)
    BY <1>3, Classified
  <2> HIDE DEF more
  <2>4. Cardinality(UserErrorsAt(new)) = Cardinality(UserErrorsAt(at)) + (IF more THEN 1 ELSE 0)
    BY <1>1, <2>1, <2>2, CountMore
  <2> QED
    BY <2>3, <2>4 DEF QuerySamples
<1> QED
  BY <1>8, <1>9, <1>10, <1>11 DEF QuerySamples, w, c

LEMMA QueryRecentGrows ==
  ASSUME NEW acc \in QueryAccs, NEW at, NEW new, NEW i, CallMore(new, at, i),
         QueryRecent(acc, at)
  PROVE  QueryRecent(WithQuery(acc, new[i].q, new[i].ms), new)
<1> DEFINE c == new[i]
           m == acc.most_recent_ms
           w == WithQuery(acc, c.q, c.ms)
<1>1. /\ DOMAIN new = DOMAIN at \union {i} /\ \A j \in DOMAIN at : new[j] = at[j]
      /\ \A j \in DOMAIN at : at[j] \in CallsWithAttempt
      /\ c \in CallsWithAttempt
  BY DEF CallMore, SameOn
<1>2. c.ms \in Nat /\ m \in Nat /\ \A j \in DOMAIN at : at[j].ms \in Nat
  BY <1>1, CallTypes DEF QueryAccs
<1>3. w.most_recent_ms = Max({m, c.ms})
  <2> HIDE DEF c
  <2> QED
    BY DEF WithQuery, QueryAccs
<1>4. w.most_recent_ms = IF m >= c.ms THEN m ELSE c.ms
  <2> HIDE DEF m, c, w
  <2> QED
    BY <1>2, <1>3, MaxOfTwo
<1>5. \A j \in DOMAIN at : at[j].ms <= m
  BY DEF QueryRecent
<1>6. (\E j \in DOMAIN at : at[j].ms = m) \/ (DOMAIN at = {} /\ m = 0)
  BY DEF QueryRecent
<1>7. new[i] = c
  OBVIOUS
<1> HIDE DEF m, c, w
<1>8. \A j \in DOMAIN new : new[j].ms <= w.most_recent_ms
  BY <1>1, <1>2, <1>4, <1>5, <1>7
<1>9. \E j \in DOMAIN new : new[j].ms = w.most_recent_ms
  <2>1. CASE m >= c.ms
    <3>1. CASE \E j \in DOMAIN at : at[j].ms = m
      BY <1>1, <1>4, <2>1, <3>1
    <3>2. CASE DOMAIN at = {} /\ m = 0
      <4>1. c.ms = w.most_recent_ms
        BY <1>2, <1>4, <2>1, <3>2
      <4> QED
        BY <1>1, <1>7, <4>1
    <3> QED
      BY <1>6, <3>1, <3>2
  <2>2. CASE ~ (m >= c.ms)
    BY <1>1, <1>4, <1>7, <2>2
  <2> QED
    BY <2>1, <2>2
<1> QED
  BY <1>8, <1>9 DEF QueryRecent, w, c

LEMMA QueryFirstGrows ==
  ASSUME NEW acc \in QueryAccs, NEW at, NEW new, NEW i, CallMore(new, at, i),
         \/ QueryFirst(acc, at)
         \/ /\ DOMAIN at = {}
            /\ acc.chain = new[i].q.indexer_queries[1].indexed_chain
  PROVE  QueryFirst(WithQuery(acc, new[i].q, new[i].ms), new)
<1> DEFINE c == new[i]
           w == WithQuery(acc, c.q, c.ms)
<1>1. w.chain = acc.chain
  <2> HIDE DEF c
  <2> QED
    BY DEF WithQuery, QueryAccs
<1> HIDE DEF w
<1>2. /\ DOMAIN new = DOMAIN at \union {i} /\ \A j \in DOMAIN at : new[j] = at[j]
      /\ i \in Nat /\ \A j \in DOMAIN at : j \in Nat /\ j <= i
  BY DEF CallMore, SameOn
<1>3. CASE QueryFirst(acc, at)
  <2>1. PICK e \in DOMAIN at : /\ \A j \in DOMAIN at : e <= j
                               /\ acc.chain = at[e].q.indexer_queries[1].indexed_chain
    BY <1>3 DEF QueryFirst
  <2>2. e \in DOMAIN new /\ new[e] = at[e] /\ \A j \in DOMAIN new : e <= j
    BY <1>2, <2>1
  <2> QED
    BY <1>1, <2>1, <2>2 DEF QueryFirst, w
<1>4. CASE /\ DOMAIN at = {}
           /\ acc.chain = new[i].q.indexer_queries[1].indexed_chain
  <2>1. DOMAIN new = {i} /\ i <= i
    BY <1>2, <1>4
  <2> QED
    BY <1>1, <1>4, <2>1 DEF QueryFirst, w
<1> QED
  BY <1>3, <1>4

LEMMA OfNameGrows ==
  ASSUME NEW at, NEW new, NEW i, CallMore(new, at, i), NEW k
  PROVE  /\ NameOfCall(new[i]) = k => /\ CallMore(OfName(new, k), OfName(at, k), i)
                                      /\ OfName(new, k)[i] = new[i]
         /\ NameOfCall(new[i]) # k => OfName(new, k) = OfName(at, k)
<1>1. /\ IsFiniteSet(DOMAIN at)
      /\ \A j \in DOMAIN at : j \in Nat /\ j < i /\ at[j] \in CallsWithAttempt
      /\ i \in Nat /\ DOMAIN new = DOMAIN at \union {i}
      /\ \A j \in DOMAIN at : new[j] = at[j]
      /\ new[i] \in CallsWithAttempt
  BY DEF CallMore, SameOn
<1> DEFINE old == {j \in DOMAIN at : NameOfCall(at[j]) = k}
           now == {j \in DOMAIN new : NameOfCall(new[j]) = k}
<1>2. old \in SUBSET DOMAIN at /\ IsFiniteSet(old)
  BY <1>1, FS_Subset
<1>3. \A j \in DOMAIN at : j \in now <=> j \in old
  BY <1>1
<1>4. i \in now <=> NameOfCall(new[i]) = k
  BY <1>1
<1>5. OfName(at, k) = [j \in old |-> at[j]] /\ OfName(new, k) = [j \in now |-> new[j]]
  BY DEF OfName
<1>6. \A j \in now : j \in DOMAIN at \/ j = i
  BY <1>1
<1> HIDE DEF old, now
<1>7. ASSUME NameOfCall(new[i]) = k
      PROVE  CallMore(OfName(new, k), OfName(at, k), i) /\ OfName(new, k)[i] = new[i]
  <2>1. now = old \union {i}
    BY <1>2, <1>3, <1>4, <1>6, <1>7
  <2>2. OfName(new, k)[i] = new[i]
    BY <1>5, <2>1
  <2>3. CallMore(OfName(new, k), OfName(at, k), i)
    BY <1>1, <1>2, <1>5, <2>1 DEF CallMore, SameOn
  <2> QED
    BY <2>2, <2>3
<1>8. ASSUME NameOfCall(new[i]) # k PROVE OfName(new, k) = OfName(at, k)
  <2>1. now = old
    BY <1>2, <1>3, <1>4, <1>6, <1>8
  <2>2. \A j \in old : new[j] = at[j]
    BY <1>1, <1>2
  <2> QED
    BY <1>5, <2>1, <2>2
<1> QED
  BY <1>7, <1>8

\* Folding a query keeps the accumulators in step with the queries.
LEMMA CallTableGrows ==
  ASSUME QueriesInv, NEW at, NEW new, NEW i, MirrorsCalls(queries, at), CallMore(new, at, i)
  PROVE  MirrorsCalls(Put(queries, NameOfCall(new[i]),
                          WithQuery(QueryAcc(new[i].q), new[i].q, new[i].ms)), new)
<1> DEFINE c == new[i]
           key == NameOfCall(c)
           acc == QueryAcc(c.q)
           w == WithQuery(acc, c.q, c.ms)
           table == Put(queries, key, w)
           old == OfName(at, key)
           now == OfName(new, key)
<1>1. /\ IsFiniteSet(DOMAIN at)
      /\ \A j \in DOMAIN at : j \in Nat /\ j < i /\ at[j] \in CallsWithAttempt
      /\ i \in Nat /\ DOMAIN new = DOMAIN at \union {i}
      /\ \A j \in DOMAIN at : new[j] = at[j]
      /\ c \in CallsWithAttempt
  BY DEF CallMore, SameOn
<1>2. /\ DOMAIN queries = {NameOfCall(at[j]) : j \in DOMAIN at}
      /\ \A k \in DOMAIN queries : /\ QuerySamples(queries[k], OfName(at, k))
                                   /\ QueryRecent(queries[k], OfName(at, k))
                                   /\ QueryFirst(queries[k], OfName(at, k))
  BY DEF MirrorsCalls
<1>3. /\ IsFiniteSet(DOMAIN new)
      /\ \A j \in DOMAIN new : j \in Nat /\ new[j] \in CallsWithAttempt
  BY <1>1, FS_AddElement
<1>4. QueryKey(c.q) = key
  BY DEF QueryKey, NameOfCall, NamesOf, deployment_to_cid_v0
<1>5. acc \in QueryAccs
  <2> HIDE DEF c
  <2>1. c.q \in Queries /\ c.q.indexer_queries \in Seq(Attempts) /\ c.q.indexer_queries # << >>
    BY <1>1, CallTypes
  <2> QED
    BY <2>1, FoundQuery
<1>6. CallMore(now, old, i) /\ now[i] = c
  BY OfNameGrows
<1>7. /\ QuerySamples(acc, old) /\ QueryRecent(acc, old)
      /\ QueryFirst(acc, old)
           \/ (DOMAIN old = {} /\ acc.chain = c.q.indexer_queries[1].indexed_chain)
  <2>1. CASE key \in DOMAIN queries
    <3>1. acc = queries[key]
      BY <1>4, <2>1 DEF QueryAcc
    <3> HIDE DEF acc, key, c
    <3> QED
      BY <1>2, <2>1, <3>1
  <2>2. CASE key \notin DOMAIN queries
    <3>1. DOMAIN old = {}
      BY <1>2, <2>2 DEF OfName
    <3>2. acc = [chain |-> c.q.indexer_queries[1].indexed_chain,
                 latencies |-> << >>, fees |-> << >>,
                 successes |-> 0, user_errors |-> 0, most_recent_ms |-> 0]
      BY <1>4, <2>2 DEF QueryAcc
    <3>3. QuerySamples(acc, old)
      <4> HIDE DEF acc, c, old
      <4>1. DOMAIN TimesAt(old) = {} /\ DOMAIN CostsAt(old) = {}
        BY <3>1 DEF TimesAt, CostsAt
      <4>2. SuccessesAt(old) = {} /\ UserErrorsAt(old) = {}
        BY <3>1 DEF SuccessesAt, UserErrorsAt
      <4>3. Cardinality(SuccessesAt(old)) = 0 /\ Cardinality(UserErrorsAt(old)) = 0
        BY <4>2, FS_EmptySet
      <4>4. Mirror(<< >>, TimesAt(old)) /\ Mirror(<< >>, CostsAt(old))
        BY <4>1, MirrorOfNothing
      <4> QED
        BY <3>2, <4>3, <4>4 DEF QuerySamples
    <3>4. QueryRecent(acc, old)
      BY <3>1, <3>2 DEF QueryRecent
    <3> QED
      BY <3>1, <3>2, <3>3, <3>4
  <2> QED
    BY <2>1, <2>2
<1>8. QuerySamples(w, now) /\ QueryRecent(w, now) /\ QueryFirst(w, now)
  <2>1. /\ QuerySamples(WithQuery(acc, now[i].q, now[i].ms), now)
        /\ QueryRecent(WithQuery(acc, now[i].q, now[i].ms), now)
        /\ QueryFirst(WithQuery(acc, now[i].q, now[i].ms), now)
    <3> HIDE DEF acc, now, old, c
    <3>1. QuerySamples(WithQuery(acc, now[i].q, now[i].ms), now)
      BY <1>5, <1>6, <1>7, QuerySamplesGrow
    <3>2. QueryRecent(WithQuery(acc, now[i].q, now[i].ms), now)
      BY <1>5, <1>6, <1>7, QueryRecentGrows
    <3>3. QueryFirst(WithQuery(acc, now[i].q, now[i].ms), now)
      BY <1>5, <1>6, <1>7, QueryFirstGrows
    <3> QED
      BY <3>1, <3>2, <3>3
  <2> QED
    BY <1>6, <2>1
<1>9. DOMAIN table = DOMAIN queries \union {key} /\ table[key] = w
  BY DEF Put
<1>10. \A k \in DOMAIN table : k # key => k \in DOMAIN queries /\ table[k] = queries[k]
  BY DEF Put
<1>11. DOMAIN table = {NameOfCall(new[j]) : j \in DOMAIN new}
  <2> HIDE DEF table, w, acc
  <2> QED
    BY <1>1, <1>2, <1>9
<1>12. ASSUME NEW k \in DOMAIN table
       PROVE  /\ QuerySamples(table[k], OfName(new, k))
              /\ QueryRecent(table[k], OfName(new, k))
              /\ QueryFirst(table[k], OfName(new, k))
  <2>1. CASE k = key
    <3> HIDE DEF table, w, key
    <3> QED
      BY <1>8, <1>9, <2>1
  <2>2. CASE k # key
    <3>1. k \in DOMAIN queries /\ table[k] = queries[k]
      BY <1>10, <2>2
    <3>2. OfName(new, k) = OfName(at, k)
      BY <2>2, OfNameGrows
    <3> HIDE DEF table, w, key
    <3> QED
      BY <1>2, <3>1, <3>2
  <2> QED
    BY <2>1, <2>2
<1> HIDE DEF table
<1>13. MirrorsCalls(table, new)
  BY <1>3, <1>11, <1>12 DEF MirrorsCalls
<1> QED
  BY <1>13 DEF table

\* The queries counted so far, and that the accumulators mirror them.
CountedNow == Attempted \ Hand
CallsNow == [i \in CountedNow |-> added[i]]

QueriesMirror == MirrorsCalls(queries, CallsNow)

LEMMA QueriesMirrorInit == Init => QueriesMirror
<1> SUFFICES ASSUME Init PROVE QueriesMirror
  OBVIOUS
<1>1. queries = Empty /\ added = << >>
  BY DEF Init
<1>2. CountedNow = {}
  BY <1>1 DEF CountedNow, Attempted, Accepted
<1>3. DOMAIN CallsNow = {} /\ DOMAIN queries = {}
  BY <1>1, <1>2 DEF CallsNow, Empty
<1> QED
  BY <1>3, FS_EmptySet DEF QueriesMirror, MirrorsCalls

\* Only FoldQuery counts a query, and only one with an attempt.
LEMMA CountedSame ==
  ASSUME HandInv, PrefixInv,
         \/ Begin \/ FoldAttempt \/ Reject \/ UNCHANGED vars
         \/ FoldQuery /\ ~ HasAttempt
  PROVE  CallsNow' = CallsNow
<1>1. \A i \in DOMAIN added : i \in DOMAIN added' /\ added'[i] = added[i]
  <2>1. CASE Begin
    BY <2>1, BeginLemma
  <2>2. CASE FoldAttempt \/ Reject \/ FoldQuery \/ UNCHANGED vars
    BY <2>2 DEF FoldAttempt, Reject, FoldQuery, vars
  <2> QED
    BY <2>1, <2>2
<1>2. CountedNow' = CountedNow
  <2>1. CASE Begin
    BY <2>1, BeginCounts DEF CountedNow
  <2>2. CASE FoldAttempt \/ UNCHANGED vars
    <3>1. added' = added
      BY <2>2 DEF FoldAttempt, vars
    <3>2. Hand' = Hand
      <4>1. CASE FoldAttempt
        <5>1. next # 0 /\ next' # 0
          BY <4>1 DEF FoldAttempt, HandInv
        <5> QED
          BY <3>1, <5>1 DEF Hand
      <4>2. CASE UNCHANGED vars
        BY <4>2 DEF vars, Hand
      <4> QED
        BY <2>2, <4>1, <4>2
    <3> QED
      BY <3>1, <3>2 DEF CountedNow, Attempted, Accepted
  <2>3. CASE Reject \/ (FoldQuery /\ ~ HasAttempt)
    <3>1. next # 0 /\ next' = 0 /\ added' = added
      BY <2>3 DEF Reject, FoldQuery
    <3>2. Hand = {Len(added)} /\ Hand' = {}
      BY <3>1 DEF Hand
    <3>3. Len(added) \notin Attempted
      <4>1. CASE Reject
        <5>1. Len(added) \notin Accepted
          BY <3>1, <4>1, InHandLemma
        <5> QED
          BY <5>1 DEF Attempted
      <4>2. CASE ~ HasAttempt
        BY <4>2 DEF HasAttempt, Attempted, InHand
      <4> QED
        BY <2>3, <4>1, <4>2
    <3>4. Attempted' = Attempted
      BY <3>1 DEF Attempted, Accepted
    <3> QED
      BY <3>2, <3>3, <3>4 DEF CountedNow
  <2> QED
    BY <2>1, <2>2, <2>3
<1>3. \A i \in CountedNow : i \in DOMAIN added
  BY DEF CountedNow, Attempted, Accepted
<1>4. CallsNow' = [i \in CountedNow' |-> added'[i]]
  BY DEF CallsNow
<1> QED
  BY <1>1, <1>2, <1>3, <1>4 DEF CallsNow

LEMMA CountedMore ==
  ASSUME HandInv, PrefixInv, QueriesMirror, FoldQuery, HasAttempt
  PROVE  CallMore(CallsNow', CallsNow, Len(added)) /\ CallsNow'[Len(added)] = InHand
<1>0. PICK n : n = Len(added)
  OBVIOUS
<1>1. next # 0 /\ next' = 0 /\ added' = added
  BY DEF FoldQuery
<1>2. n \in DOMAIN added /\ n \in Accepted
  BY <1>0, <1>1, InHandLemma
<1>3. DOMAIN added = 1 .. n /\ n \in Nat
  BY <1>0 DEF HandInv
<1>4. Hand = {n} /\ Hand' = {}
  BY <1>0, <1>1 DEF Hand
<1>5. n \in Attempted
  BY <1>0, <1>2 DEF Attempted, HasAttempt, InHand
<1>6. Attempted' = Attempted
  BY <1>1 DEF Attempted, Accepted
<1>7. CountedNow' = CountedNow \union {n} /\ n \notin CountedNow
  BY <1>4, <1>5, <1>6 DEF CountedNow
<1>8. CallsNow' = [i \in CountedNow' |-> added[i]]
  BY <1>1 DEF CallsNow
<1>9. DOMAIN CallsNow = CountedNow /\ DOMAIN CallsNow' = CountedNow \union {n}
  BY <1>7, <1>8 DEF CallsNow
<1>10. \A i \in CountedNow : CallsNow'[i] = CallsNow[i]
  BY <1>7, <1>8 DEF CallsNow
<1>11. CallsNow'[n] = added[n]
  BY <1>7, <1>8
<1>12. added[n] \in CallsWithAttempt
  BY <1>0, <1>2, CallLemma DEF CallsWithAttempt, HasAttempt, InHand
<1>13. \A i \in CountedNow : i \in DOMAIN added
  BY DEF CountedNow, Attempted, Accepted
<1>14. \A i \in CountedNow : i \in Nat /\ i < n
  BY <1>3, <1>7, <1>13
<1>15. IsFiniteSet(CountedNow) /\ \A i \in CountedNow : CallsNow[i] \in CallsWithAttempt
  BY <1>9 DEF QueriesMirror, MirrorsCalls
<1>16. CallMore(CallsNow', CallsNow, n)
  BY <1>3, <1>9, <1>10, <1>11, <1>12, <1>14, <1>15 DEF CallMore, SameOn
<1> QED
  BY <1>0, <1>11, <1>16 DEF InHand

LEMMA QueriesMirrorNext ==
  RatesInv /\ StateInv /\ QueriesMirror /\ [Next]_vars => QueriesMirror'
<1> SUFFICES ASSUME RatesInv, StateInv, QueriesMirror, [Next]_vars
             PROVE  QueriesMirror'
  OBVIOUS
<1>0. HandInv /\ PrefixInv /\ QueriesInv
  BY DEF RatesInv, StateInv
<1>1. CASE FoldQuery /\ HasAttempt
  <2> DEFINE n == Len(added)
             c == InHand
             new == CallsNow'
  <2>1. CallMore(new, CallsNow, n) /\ new[n] = c
    BY <1>0, <1>1, CountedMore
  <2>2. queries' = Put(queries, QueryKey(c.q), WithQuery(QueryAcc(c.q), c.q, c.ms))
    BY <1>1 DEF FoldQuery, HasAttempt
  <2>3. QueryKey(c.q) = NameOfCall(c)
    BY DEF QueryKey, NameOfCall, NamesOf, deployment_to_cid_v0
  <2>4. MirrorsCalls(queries, CallsNow)
    BY DEF QueriesMirror
  <2> HIDE DEF n, c, new
  <2>5. MirrorsCalls(Put(queries, NameOfCall(new[n]),
                         WithQuery(QueryAcc(new[n].q), new[n].q, new[n].ms)), new)
    BY <1>0, <2>1, <2>4, CallTableGrows
  <2>6. MirrorsCalls(queries', new)
    BY <2>1, <2>2, <2>3, <2>5
  <2> QED
    BY <2>6 DEF QueriesMirror, new
<1>2. CASE \/ Begin \/ FoldAttempt \/ Reject \/ UNCHANGED vars
           \/ FoldQuery /\ ~ HasAttempt
  <2>1. queries' = queries
    BY <1>2 DEF Begin, FoldAttempt, Reject, FoldQuery, HasAttempt, vars, bucket
  <2>2. CallsNow' = CallsNow
    BY <1>0, <1>2, CountedSame
  <2>3. QueriesMirror' <=> MirrorsCalls(queries', CallsNow')
    BY DEF QueriesMirror
  <2> QED
    BY <2>1, <2>2, <2>3 DEF QueriesMirror
<1> QED
  BY <1>1, <1>2 DEF Next

-----------------------------------------------------------------------------
(***************************************************************************)
(* What mirrors the queries of a window closes to the reference.            *)
(***************************************************************************)
LEMMA OneAllocation ==
  ASSUME NEW acc \in AllocationAccs, NEW k, NEW at, NEW H \in SUBSET (Nat \X Nat),
         IsFiniteSet(H), at = [h \in H |-> AttemptAt(h)],
         \A h \in H : AttemptAt(h) \in Attempts,
         AttemptSamples(acc, at), AttemptFirst(acc, at)
  PROVE  AllocationRecord(k, acc) = ReferenceAllocation(k, H)
<1> DEFINE c == Cardinality(H)
           fee == [h \in H |-> AttemptAt(h).fee_grt]
           lat == [h \in H |-> AttemptAt(h).response_time_ms]
           beh == [h \in H |-> AttemptAt(h).blocks_behind]
           good == {h \in H : AttemptAt(h).result = "success"}
           first == CHOOSE h \in H :
                      \A g \in H : h[1] < g[1] \/ (h[1] = g[1] /\ h[2] <= g[2])
<1>1. FeesAt(at) = fee /\ LatenciesAt(at) = lat /\ BehindAt(at) = beh /\ GoodAt(at) = good
  BY DEF FeesAt, LatenciesAt, BehindAt, GoodAt
<1>2. fee \in [H -> Nat] /\ lat \in [H -> Nat] /\ beh \in [H -> Nat]
  BY AttemptsAssumption
<1>3. /\ Mirror(acc.latencies, lat) /\ Mirror(acc.fees, fee) /\ Mirror(acc.blocks_behind, beh)
      /\ acc.successes = Cardinality(good)
  BY <1>1 DEF AttemptSamples
<1>4. /\ acc.latencies \in Seq(Nat) /\ acc.fees \in Seq(Nat) /\ acc.blocks_behind \in Seq(Nat)
  BY DEF AllocationAccs
<1>5. acc.indexer_url = AttemptAt(first).url /\ acc.chain = AttemptAt(first).indexed_chain
  <2>1. PICK e \in H : /\ \A g \in H : Earlier(e, g)
                       /\ acc.indexer_url = AttemptAt(e).url
                       /\ acc.chain = AttemptAt(e).indexed_chain
    BY DEF AttemptFirst
  <2>2. first \in H /\ \A g \in H : Earlier(first, g)
    BY <2>1 DEF Earlier
  <2> HIDE DEF first
  <2>3. Earlier(first, e) /\ Earlier(e, first)
    BY <2>1, <2>2
  <2>4. PICK p \in Nat, q \in Nat : first = <<p, q>>
    BY <2>2
  <2>5. PICK r \in Nat, s \in Nat : e = <<r, s>>
    BY <2>1
  <2>6. p = r /\ q = s
    BY <2>3, <2>4, <2>5 DEF Earlier
  <2> QED
    BY <2>1, <2>4, <2>5, <2>6
<1>6. HasStatistics(acc.fees, fee)
  <2> HIDE DEF fee
  <2> QED
    BY <1>2, <1>3, <1>4, MirrorRecords
<1>7. HasStatistics(acc.blocks_behind, beh)
  <2> HIDE DEF beh
  <2> QED
    BY <1>2, <1>3, <1>4, MirrorRecords
<1>8. HasStatistics(acc.latencies, lat)
  <2> HIDE DEF lat
  <2> QED
    BY <1>2, <1>3, <1>4, MirrorRecords
<1>9. /\ {fee[x] : x \in H} = {AttemptAt(x).fee_grt : x \in H}
      /\ {lat[x] : x \in H} = {AttemptAt(x).response_time_ms : x \in H}
      /\ {beh[x] : x \in H} = {AttemptAt(x).blocks_behind : x \in H}
      /\ Squares(lat)
           = [x \in H |-> AttemptAt(x).response_time_ms * AttemptAt(x).response_time_ms]
      /\ DOMAIN fee = H /\ DOMAIN lat = H /\ DOMAIN beh = H
  BY DEF Squares
<1> DEFINE maxfee == Max({0} \union {AttemptAt(x).fee_grt : x \in H})
           maxlat == Max({0} \union {AttemptAt(x).response_time_ms : x \in H})
           maxbeh == Max({0} \union {AttemptAt(x).blocks_behind : x \in H})
           sp == c * SumFunction([x \in H |-> AttemptAt(x).response_time_ms
                                                * AttemptAt(x).response_time_ms])
                   - SumFunction(lat) * SumFunction(lat)
           sumfee == SumFunction(fee)
           sumlat == SumFunction(lat)
           sumbeh == SumFunction(beh)
           ngood == Cardinality(good)
           url == AttemptAt(first).url
           chain == AttemptAt(first).indexed_chain
<1>10. /\ acc.indexer_url = url /\ acc.chain = chain /\ acc.successes = ngood
       /\ Len(acc.latencies) = c
       /\ SumFunction(acc.fees) = sumfee
       /\ mean(acc.fees) = <<sumfee, c>> /\ max(acc.fees) = maxfee
       /\ mean(acc.latencies) = <<sumlat, c>> /\ max(acc.latencies) = maxlat
       /\ mean(acc.blocks_behind) = <<sumbeh, c>> /\ max(acc.blocks_behind) = maxbeh
       /\ spread(acc.latencies) = sp
  BY <1>3, <1>5, <1>6, <1>7, <1>8, <1>9 DEF HasStatistics
<1>11. ReferenceAllocation(k, H) =
         [subgraph_deployment_ipfs_hash |-> k[1], indexer_wallet |-> k[2],
          indexer_url |-> url, chain |-> chain,
          avg_query_fee |-> <<sumfee, c>>, max_query_fee |-> maxfee,
          total_query_fees |-> sumfee, query_count |-> c,
          avg_indexer_latency_ms |-> <<sumlat, c>>, max_indexer_latency_ms |-> maxlat,
          num_indexer_200_responses |-> ngood,
          proportion_indexer_200_responses |-> <<ngood, c>>,
          avg_indexer_blocks_behind |-> <<sumbeh, c>>, max_indexer_blocks_behind |-> maxbeh,
          stdev_indexer_latency_ms |-> sp]
  BY DEF ReferenceAllocation, SumOver, MaxOver, SpreadOver
<1> HIDE DEF c, maxfee, maxlat, maxbeh, sp, sumfee, sumlat, sumbeh, ngood, url, chain
<1> QED
  BY <1>10, <1>11 DEF AllocationRecord

LEMMA OneQuery ==
  ASSUME NEW acc \in QueryAccs, NEW k, NEW at, NEW Q \in SUBSET Nat,
         IsFiniteSet(Q), at = [i \in Q |-> added[i]],
         \A i \in Q : added[i] \in CallsWithAttempt,
         QuerySamples(acc, at), QueryRecent(acc, at), QueryFirst(acc, at)
  PROVE  QueryRecord(k, acc) = ReferenceQuery(k, Q)
<1> DEFINE c == Cardinality(Q)
           fee == [i \in Q |-> SumFunction(FeesOf(added[i].q))]
           lat == [i \in Q |-> added[i].q.response_time_ms]
           good == {i \in Q : added[i].q.result = "success"}
           user == {i \in Q : added[i].q.result \in UserErrors}
           first == Min(Q)
           times == {added[i].ms : i \in Q}
<1>1. /\ CostsAt(at) = fee /\ TimesAt(at) = lat
      /\ SuccessesAt(at) = good /\ UserErrorsAt(at) = user
  BY DEF CostsAt, TimesAt, SuccessesAt, UserErrorsAt
<1>2. fee \in [Q -> Nat] /\ lat \in [Q -> Nat] /\ \A i \in Q : added[i].ms \in Nat
  BY CallTypes
<1>3. /\ Mirror(acc.latencies, lat) /\ Mirror(acc.fees, fee)
      /\ acc.successes = Cardinality(good) /\ acc.user_errors = Cardinality(user)
  BY <1>1 DEF QuerySamples
<1>4. acc.latencies \in Seq(Nat) /\ acc.fees \in Seq(Nat) /\ acc.most_recent_ms \in Nat
  BY DEF QueryAccs
<1>5. Q # {} /\ acc.chain = added[first].q.indexer_queries[1].indexed_chain
  <2>1. PICK e \in Q : /\ \A j \in Q : e <= j
                       /\ acc.chain = added[e].q.indexer_queries[1].indexed_chain
    BY DEF QueryFirst
  <2>2. first \in Q /\ \A j \in Q : first <= j
    BY <2>1, MinOfNats
  <2> HIDE DEF first
  <2>3. first <= e /\ e <= first /\ first \in Nat /\ e \in Nat
    BY <2>1, <2>2
  <2>4. first = e
    BY <2>3
  <2> QED
    BY <2>1, <2>4
<1>6. acc.most_recent_ms = Max(times)
  <2> DEFINE m == acc.most_recent_ms
  <2>1. (\A i \in Q : added[i].ms <= m) /\ (\E i \in Q : added[i].ms = m)
    BY <1>5 DEF QueryRecent
  <2> HIDE DEF m
  <2>2. m \in times /\ m \in Nat /\ \A t \in times : t \in Nat /\ m >= t
    BY <1>2, <1>4, <2>1 DEF m
  <2> HIDE DEF times
  <2>3. Max(times) \in times /\ \A t \in times : Max(times) >= t
    BY <2>2 DEF Max
  <2>4. Max(times) \in Nat /\ Max(times) >= m /\ m >= Max(times)
    BY <2>2, <2>3
  <2>5. Max(times) = m
    BY <2>2, <2>4
  <2> QED
    BY <2>5 DEF m
<1>7. HasStatistics(acc.fees, fee)
  <2> HIDE DEF fee
  <2> QED
    BY <1>2, <1>3, <1>4, MirrorRecords
<1>8. HasStatistics(acc.latencies, lat)
  <2> HIDE DEF lat
  <2> QED
    BY <1>2, <1>3, <1>4, MirrorRecords
<1>9. \A i \in Q : SumOver(DOMAIN added[i].q.indexer_queries,
                           LAMBDA j : added[i].q.indexer_queries[j].fee_grt)
                     = SumFunction(FeesOf(added[i].q))
  BY DEF SumOver, FeesOf
<1> DEFINE Cost(i) == SumFunction(FeesOf(added[i].q))
           Latency(i) == added[i].q.response_time_ms
<1>10. /\ {fee[x] : x \in Q} = {Cost(x) : x \in Q}
       /\ {lat[x] : x \in Q} = {Latency(x) : x \in Q}
       /\ Squares(lat) = [x \in Q |-> Latency(x) * Latency(x)]
       /\ DOMAIN fee = Q /\ DOMAIN lat = Q
  BY DEF Squares
<1> DEFINE maxfee == Max({0} \union {Cost(x) : x \in Q})
           maxlat == Max({0} \union {Latency(x) : x \in Q})
           sp == c * SumFunction([x \in Q |-> Latency(x) * Latency(x)])
                   - SumFunction(lat) * SumFunction(lat)
           sumfee == SumFunction(fee)
           sumlat == SumFunction(lat)
           ngood == Cardinality(good)
           nuser == Cardinality(user)
           chain == added[first].q.indexer_queries[1].indexed_chain
           recent == Max(times)
<1>11. /\ acc.chain = chain /\ acc.successes = ngood /\ acc.user_errors = nuser
       /\ acc.most_recent_ms = recent
       /\ Len(acc.latencies) = c
       /\ SumFunction(acc.fees) = sumfee
       /\ mean(acc.fees) = <<sumfee, c>> /\ max(acc.fees) = maxfee
       /\ mean(acc.latencies) = <<sumlat, c>> /\ max(acc.latencies) = maxlat
       /\ spread(acc.latencies) = sp
  BY <1>3, <1>5, <1>6, <1>7, <1>8, <1>10 DEF HasStatistics
<1>12. ReferenceQuery(k, Q) =
         [subgraph_deployment_ipfs_hash |-> k, chain |-> chain,
          total_query_fees |-> sumfee,
          avg_query_fee |-> <<sumfee, c>>, max_query_fee |-> maxfee,
          query_count |-> c, most_recent_query_ts |-> recent,
          gateway_query_success_rate |-> <<ngood, c>>,
          user_attributed_error_rate |-> <<nuser, c>>,
          avg_gateway_latency_ms |-> <<sumlat, c>>, max_gateway_latency_ms |-> maxlat,
          stdev_gateway_latency_ms |-> sp]
  BY DEF ReferenceQuery, SumOver, MaxOver, SpreadOver, FeesOf
<1> HIDE DEF c, maxfee, maxlat, sp, sumfee, sumlat, ngood, nuser, chain, recent
<1> QED
  BY <1>11, <1>12 DEF QueryRecord

\* Whatever queries a window takes, in whatever order and with whatever failures and
\* malformed ids among their attempts, its records are the ones that counting the
\* queries anew gives: no record is missing, none is invented, and each figure of
\* each is the reference's.
THEOREM RecordsTheorem == Spec => []RecordsMatchReference
<1>1. RatesInv /\ StateInv /\ AllocationsMirror /\ QueriesMirror => RecordsMatchReference
  <2> SUFFICES ASSUME RatesInv, StateInv, AllocationsMirror, QueriesMirror, next = 0
               PROVE  /\ AllocationRecords =
                           {ReferenceAllocation(k, {h \in Folded : NamesOf(AttemptAt(h)) = k}) :
                              k \in {NamesOf(AttemptAt(h)) : h \in Folded}}
                      /\ QueryRecords =
                           {ReferenceQuery(k, {i \in Attempted : NameOf(i) = k}) :
                              k \in {NameOf(i) : i \in Attempted}}
    BY DEF RecordsMatchReference
  <2>0. HandInv /\ AllocationsInv /\ QueriesInv
    BY DEF RatesInv
  <2>1. Hand = {}
    BY DEF Hand
  <2>2. FoldedNow = Folded /\ CountedNow = Attempted
    BY <2>1 DEF FoldedNow, Folded, FoldedUpTo, CountedNow
  <2>3. AttemptsNow = [h \in Folded |-> AttemptAt(h)] /\ CallsNow = [i \in Attempted |-> added[i]]
    BY <2>2 DEF AttemptsNow, CallsNow
  <2>4. DOMAIN added \in SUBSET Nat
    BY <2>0 DEF HandInv
  <2>5. Folded \in SUBSET (Nat \X Nat)
    <3> SUFFICES ASSUME NEW h \in Folded PROVE h \in Nat \X Nat
      OBVIOUS
    <3>1. PICK i \in DOMAIN added : \E j \in 1 .. GoodPrefix(added[i].q) : h = <<i, j>>
      BY DEF Folded
    <3> QED
      BY <2>4, <3>1
  <2>6. Attempted \in SUBSET Nat
    BY <2>4 DEF Attempted, Accepted
  <2>7. /\ IsFiniteSet(Folded) /\ \A h \in Folded : AttemptAt(h) \in Attempts
        /\ DOMAIN allocations = {NamesOf(AttemptAt(h)) : h \in Folded}
        /\ \A k \in DOMAIN allocations : /\ AttemptSamples(allocations[k], OfKey(AttemptsNow, k))
                                         /\ AttemptFirst(allocations[k], OfKey(AttemptsNow, k))
    BY <2>3 DEF AllocationsMirror, MirrorsAttempts
  <2>8. /\ IsFiniteSet(Attempted) /\ \A i \in Attempted : added[i] \in CallsWithAttempt
        /\ DOMAIN queries = {NameOf(i) : i \in Attempted}
        /\ \A k \in DOMAIN queries : /\ QuerySamples(queries[k], OfName(CallsNow, k))
                                     /\ QueryRecent(queries[k], OfName(CallsNow, k))
                                     /\ QueryFirst(queries[k], OfName(CallsNow, k))
    BY <2>3 DEF QueriesMirror, MirrorsCalls, NameOfCall, NameOf
  <2>9. ASSUME NEW k \in DOMAIN allocations
        PROVE  AllocationRecord(k, allocations[k])
                 = ReferenceAllocation(k, {h \in Folded : NamesOf(AttemptAt(h)) = k})
    <3> DEFINE H == {h \in Folded : NamesOf(AttemptAt(h)) = k}
               at == OfKey(AttemptsNow, k)
               acc == allocations[k]
    <3>1. H \in SUBSET (Nat \X Nat) /\ IsFiniteSet(H) /\ \A h \in H : AttemptAt(h) \in Attempts
      BY <2>5, <2>7, FS_Subset
    <3>2. at = [h \in H |-> AttemptAt(h)]
      BY <2>3 DEF OfKey
    <3>3. AttemptSamples(acc, at) /\ AttemptFirst(acc, at) /\ acc \in AllocationAccs
      BY <2>0, <2>7 DEF AllocationsInv
    <3> HIDE DEF H, at, acc
    <3>4. AllocationRecord(k, acc) = ReferenceAllocation(k, H)
      BY <3>1, <3>2, <3>3, OneAllocation
    <3> QED
      BY <3>4 DEF acc, H
  <2>10. ASSUME NEW k \in DOMAIN queries
         PROVE  QueryRecord(k, queries[k])
                  = ReferenceQuery(k, {i \in Attempted : NameOf(i) = k})
    <3> DEFINE Q == {i \in Attempted : NameOf(i) = k}
               at == OfName(CallsNow, k)
               acc == queries[k]
    <3>1. Q \in SUBSET Nat /\ IsFiniteSet(Q) /\ \A i \in Q : added[i] \in CallsWithAttempt
      BY <2>6, <2>8, FS_Subset
    <3>2. at = [i \in Q |-> added[i]]
      BY <2>3 DEF OfName, NameOfCall, NameOf
    <3>3. /\ QuerySamples(acc, at) /\ QueryRecent(acc, at) /\ QueryFirst(acc, at)
          /\ acc \in QueryAccs
      BY <2>0, <2>8 DEF QueriesInv
    <3> HIDE DEF Q, at, acc
    <3>4. QueryRecord(k, acc) = ReferenceQuery(k, Q)
      BY <3>1, <3>2, <3>3, OneQuery
    <3> QED
      BY <3>4 DEF acc, Q
  <2>11. AllocationRecords =
           {ReferenceAllocation(k, {h \in Folded : NamesOf(AttemptAt(h)) = k}) :
              k \in DOMAIN allocations}
    BY <2>9 DEF AllocationRecords
  <2>12. QueryRecords =
           {ReferenceQuery(k, {i \in Attempted : NameOf(i) = k}) : k \in DOMAIN queries}
    BY <2>10 DEF QueryRecords
  <2> QED
    BY <2>7, <2>8, <2>11, <2>12
<1> QED
  BY <1>1, RatesInit, RatesNext, StateInit, StateNext, AllocationsMirrorInit,
     AllocationsMirrorNext, QueriesMirrorInit, QueriesMirrorNext, PTL DEF Spec
=============================================================================
