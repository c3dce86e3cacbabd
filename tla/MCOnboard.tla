------------------------------ MODULE MCOnboard ------------------------------
(***************************************************************************)
(* Instances of Onboard: address books in up to three versions, two of them *)
(* in lower case, an operator with two senders, and .env files with what    *)
(* render.sh notices late or not at all. The chain is 26; like 42161 and    *)
(* 421614 it has a letter in hexadecimal.                                   *)
(***************************************************************************)
EXTENDS Onboard

Dec == [form |-> "dec", digits |-> <<2, 6>>]
Hex == [form |-> "hex", digits |-> <<1, 10>>]
\* What two fetches may find: both books in version 1, or the horizon book in version 2
\* and the other, published anew between the two downloads, in version 3.
MCBooks == {<<1, 1>>, <<2, 3>>}

Sender(name) == [name |-> <<name>>, checksummed |-> TRUE]

Good == [chain |-> Dec, sender |-> Sender("alice"), required |-> TRUE, api_keys |-> 1,
         studio_key |-> TRUE, gateway_values |-> TRUE, escrow_values |-> TRUE]

MCEnvs == {Good,
           [Good EXCEPT !.sender = Sender("bob"), !.chain = Hex, !.escrow_values = FALSE],
           [Good EXCEPT !.chain.digits = <<2, 7>>, !.api_keys = 0, !.studio_key = FALSE]}

\* Of the same chain, and the collector of one version.
MCStranger == [chain |-> Dec, verifier |-> Address(COLLECTOR, 26, 1), signer |-> 99]

Name(scheme, labels, behind) ==
  [scheme |-> scheme, octets |-> << >>, labels |-> labels, behind |-> behind]

MCUrls ==
  {Name("https", <<"agg", "example", "com">>, "aggregator"),
   Name("http", <<"agg", "example", "com">>, "other"),
   Name("https", <<"agg", "example", "org">>, "stranger"),
   Name("none", <<"agg", "example", "com">>, "nothing"),
   Name("http", <<"gib-tap-aggregator">>, "aggregator")}
=============================================================================
