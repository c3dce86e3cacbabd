----------------------------- MODULE SmokeClaims -----------------------------
(***************************************************************************)
(* What the repository says of gib-smoke, and its run does not do. Each     *)
(* statement is checked by a run of its own that ends in a counterexample;  *)
(* README.md tells each one.                                                *)
(***************************************************************************)
EXTENDS MCSmoke

\* smoke/src/main.rs:7, "observing a `gateway_queries` record whose signer is the
\* configured signer, from a real dispatched query": when check (c) passes, a
\* record with that signer was written after the run began.
SignerIsObserved ==
  Passed("c") => \E i \in mark + 1 .. Len(topic) : topic[i].signer = SignerKey

\* smoke/src/kafka.rs:73, "Latest `ClientQuery` on the topic (highest offset)": a
\* fetch that works finds the record of the highest offset.
LatestIsLatest ==
  FetchOk => latest_client_query =
               Max({-1} \union {i - 1 : i \in {j \in DOMAIN topic : topic[j].by # "junk"}})
=============================================================================
