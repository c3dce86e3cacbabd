------------------------------ MODULE MCSmoke -------------------------------
(***************************************************************************)
(* Instances of Smoke: chain 16 ("10" in hexadecimal), a configured and a   *)
(* retired signer, and aggregators that were started with either, before or *)
(* after a rotation, with another chain or verifier, or broken.             *)
(***************************************************************************)
EXTENDS Smoke

Info(verifier, form, digits) ==
  [verifyingContract |-> verifier, form |-> form, digits |-> digits]

Ours == Info("collector", "number", <<1, 6>>)
OursInHex == Info("collector", "hex", <<1, 0>>)
OtherChain == Info("collector", "dec", <<1, 0>>)
OtherVerifier == Info("escrow", "dec", <<1, 6>>)

Aggregator(key, accepts, info) ==
  [key |-> key, accepts |-> accepts, honest |-> TRUE, info |-> info]
Broken(info) ==
  [key |-> "retired", accepts |-> {}, honest |-> FALSE, info |-> info]

MCAggregators ==
  {Aggregator("signer", {}, Ours), Aggregator("signer", {"retired"}, OursInHex),
   Aggregator("retired", {}, Ours), Aggregator("retired", {"signer"}, Ours),
   Aggregator("signer", {"wrong"}, Ours), Aggregator("signer", {}, OtherChain),
   Aggregator("signer", {}, OtherVerifier), Broken(Ours)}

\* Enough for the properties of records.
OneAggregator == {Aggregator("signer", {}, Ours)}
BrokenAggregators == {Broken(Ours), Broken(OtherChain)}

Rec(signer, by) == [signer |-> signer, candidates |-> 1, by |-> by]

MCOldTopics ==
  {<< >>, <<Rec("signer", "client")>>,
   <<Rec("retired", "smoke"), Rec("signer", "junk")>>}
=============================================================================
