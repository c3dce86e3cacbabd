--------------------------- MODULE MCQosAggregate ---------------------------
(***************************************************************************)
(* Instances of QosAggregate: two deployments and two indexers, served and  *)
(* failed attempts, a truncated deployment id and a truncated address, and  *)
(* queries that mix them.                                                   *)
(***************************************************************************)
EXTENDS QosAggregate

Bytes(n, x) == [len |-> n, id |-> x]

Attempt(d, i, fee, ms, result) ==
  [indexer |-> i, deployment |-> d, url |-> i.id, indexed_chain |-> d.id,
   fee_grt |-> fee, response_time_ms |-> ms, blocks_behind |-> ms + fee,
   result |-> result]

D1 == Bytes(32, "d1")
D2 == Bytes(32, "d2")
I1 == Bytes(20, "i1")
I2 == Bytes(20, "i2")

Served == Attempt(D1, I1, 1, 2, "success")
Slower == [Attempt(D1, I1, 2, 5, "success") EXCEPT !.url = "moved"]
Failed == Attempt(D1, I2, 2, 3, "bad indexers:")
Migrated == Attempt(D2, I2, 3, 1, "success")
ShortDeployment == Attempt(Bytes(31, "d1"), I1, 1, 1, "success")
ShortAddress == Attempt(D1, Bytes(19, "i1"), 1, 1, "success")

MCAttempts == {Served, Slower, Failed, Migrated, ShortDeployment, ShortAddress}

\* Every sequence of at most two attempts, with a result of each attribution.
MCQueries ==
  [result : {"success", "auth error:", "no indexers found", "successfully"},
   response_time_ms : {4},
   indexer_queries : {<< >>} \union {<<a>> : a \in MCAttempts}
                       \union {<<a, b>> : a, b \in MCAttempts}]
    \union
  [result : {"success", "bad query:"}, response_time_ms : {7},
   indexer_queries : {<< >>, <<Migrated, Served>>, <<Failed, Slower>>}]
=============================================================================
