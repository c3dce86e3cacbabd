------------------------------ MODULE SmokeLib ------------------------------
(***************************************************************************)
(* What gib-smoke and gib-onboard share: reading gateway.json (config.rs),  *)
(* the aggregator's EIP-712 domain and the topology source's answer         *)
(* (lib.rs); and what the topology-adapter (adapter.py) makes of the answer *)
(* of its upstream.                                                         *)
(*                                                                          *)
(* An Option, a Result or a file that may not be there is a set of at most  *)
(* one element. A chain id as text is its form, "dec" or "hex" (after a     *)
(* 0x), and its digits. An address as text is its name, Blank if it is not  *)
(* one, and whether it is written with its checksum.                        *)
(***************************************************************************)
EXTENDS Integers, Sequences, FiniteSetsExt, SequencesExt

Blank == << >>

Value(digits, base) == FoldLeft(LAMBDA n, d : n * base + d, 0, digits)

Decimal(digits) == \A i \in DOMAIN digits : digits[i] < 10

parse_chain_id(text) ==
  CASE text.digits = << >> -> {}
    [] text.form = "hex" -> {Value(text.digits, 16)}
    [] OTHER -> IF Decimal(text.digits) THEN {Value(text.digits, 10)} ELSE {}

\* What a run takes from gateway.json: nothing if the file is not there or not
\* JSON, if an address or the chain id does not parse, or without API keys.
from_gateway_json(file) ==
  {[chain_id |-> Max(parse_chain_id(g.chain_id)),
    verifier |-> g.verifier.name,
    payer |-> g.payer.name,
    data_service |-> g.subgraph_service.name,
    signer |-> g.signer] :
     g \in {f \in file : /\ parse_chain_id(f.chain_id) # {}
                         /\ Blank \notin {f.verifier.name, f.payer.name,
                                          f.subgraph_service.name}
                         /\ f.api_keys > 0}}

\* Mutant: a string is read in decimal only.
domain_matches_decimal(info, cfg) ==
  /\ info.verifyingContract = cfg.verifier
  /\ Value(info.digits, 10) = cfg.chain_id

\* A number is compared as it is; a string loses its 0x and is then read both
\* ways, in hexadecimal and, if it has decimal digits only, in decimal.
domain_matches(info, cfg) ==
  /\ info.verifyingContract = cfg.verifier
  /\ IF info.form = "number"
     THEN Value(info.digits, 10) = cfg.chain_id
     ELSE \/ Value(info.digits, 16) = cfg.chain_id
          \/ Decimal(info.digits) /\ Value(info.digits, 10) = cfg.chain_id

-----------------------------------------------------------------------------
\* The counts of an answer: an envelope around JSON text, or the JSON itself.
fetch_topology_counts(answer) ==
  {<<i, s>> : i \in IF answer.json THEN answer.indexerCount ELSE {},
              s \in answer.subgraphCount}

\* The adapter answers with 200 whatever happens: the upstream's text in an
\* envelope, or an error without counts if it is not configured or its upstream
\* does not answer.
do_POST(configured, upstream) ==
  IF configured /\ upstream.ok
  THEN [json |-> upstream.json, indexerCount |-> upstream.indexerCount,
        subgraphCount |-> upstream.subgraphCount]
  ELSE [json |-> TRUE, indexerCount |-> {}, subgraphCount |-> {}]
=============================================================================
