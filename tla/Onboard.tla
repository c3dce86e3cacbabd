------------------------------- MODULE Onboard -------------------------------
(***************************************************************************)
(* gib-onboard (smoke/src/onboard.rs and onboard_main.rs): one run against  *)
(* a Deployment that goes on living. The run reads gateway.json, asks the   *)
(* aggregator behind the public URL for its domain, reads the address book, *)
(* and prints the block for the indexer if no check failed. The block is    *)
(* about receipts of the running gateway, which the run never asks.         *)
(*                                                                          *)
(* A URL is its scheme, its host, and what answers behind it. A host is an  *)
(* IPv4 address, as octets, or a name, as labels; user names, ports and     *)
(* paths are left out. Behind it may be the deployment's aggregator, one of *)
(* somebody else, another service, or nothing.                              *)
(***************************************************************************)
EXTENDS Deployment

CONSTANTS Urls,     \* the URLs the operator may hand out
          Stranger  \* how a tap-aggregator of somebody else is configured

ASSUME UrlAssumption ==
  /\ Urls \subseteq [scheme : {"https", "http", "none"},
                     octets : [1 .. 4 -> 0 .. 255] \union {<< >>},
                     labels : Seq(STRING), behind : {"aggregator", "stranger", "other", "nothing"}]
  /\ \A u \in Urls : u.octets = << >> => u.labels # << >>
ASSUME StrangerAssumption ==
  Stranger.chain \in [form : {"dec", "hex"}, digits : Seq(0 .. 15)]

\* Octets are told apart by their decimal text, which for these is the text the
\* checks of the code name.
ASSUME OctetAssumption ==
  /\ \A a, b \in 0 .. 255 : ToString(a) = ToString(b) => a = b
  /\ /\ ToString(0) = "0" /\ ToString(10) = "10" /\ ToString(127) = "127"
     /\ ToString(172) = "172" /\ ToString(192) = "192" /\ ToString(168) = "168"
     /\ ToString(169) = "169" /\ ToString(254) = "254"

NoUrl == [scheme |-> "none", octets |-> << >>, labels |-> << >>, behind |-> "nothing"]

VARIABLES
  pc,         \* what the run does next
  url,        \* --aggregator-url
  cfg,        \* what it took from gateway.json
  checks,     \* the checks made so far
  result,     \* "none", "fatal", "NOT READY" or "READY"
  block,      \* the block printed
  told,       \* history: the domain of the aggregator that was asked
  book_read,  \* history: the address book that was read
  disturbed   \* history: the deployment changed during the run

onboard == <<pc, url, cfg, checks, result, block, told, book_read>>

-----------------------------------------------------------------------------
(***************************************************************************)
(* The checks.                                                              *)
(***************************************************************************)
Check(name, outcome) == [name |-> name, outcome |-> outcome]

\* The host as the code sees it: its text, split at the dots.
Host(u) ==
  IF u.octets = << >> THEN u.labels ELSE [i \in DOMAIN u.octets |-> ToString(u.octets[i])]

StartsWith(host, labels) == Len(host) > Len(labels) /\ IsPrefix(labels, host)

\* Mutant: the last octet of the range is left out.
unreachable_short(host) ==
  \/ host \in {<<"">>, <<"localhost">>, <<"0", "0", "0", "0">>}
  \/ \E p \in {<<"127">>, <<"10">>, <<"192", "168">>, <<"169", "254">>} : StartsWith(host, p)
  \/ StartsWith(host, <<"172">>) /\ \E o \in 16 .. 30 : host[2] = ToString(o)
  \/ Len(host) = 1

unreachable(host) ==
  \/ host \in {<<"">>, <<"localhost">>, <<"0", "0", "0", "0">>}
  \/ \E p \in {<<"127">>, <<"10">>, <<"192", "168">>, <<"169", "254">>} : StartsWith(host, p)
  \/ StartsWith(host, <<"172">>) /\ \E o \in 16 .. 31 : host[2] = ToString(o)
  \/ Len(host) = 1

check_aggregator_url(u) ==
  IF u.scheme = "none" THEN {Check("reachable", "Fail")}
  ELSE {Check("reachable", IF unreachable(Host(u)) THEN "Fail" ELSE "Pass"),
        Check("TLS", IF u.scheme = "https" THEN "Pass" ELSE "Warn")}

\* A number in hexadecimal.
HexDigits[n \in Nat] ==
  IF n < 16 THEN <<n>> ELSE Append(HexDigits[n \div 16], n % 16)

\* What an aggregator is configured with, and what it advertises of it. It does not
\* start without its collector, or a chain id it can read.
Starts(a) == a.verifier.name # Blank /\ parse_chain_id(a.chain) # {}
DomainOf(a) == <<Max(parse_chain_id(a.chain)), a.verifier.name>>
InfoOf(a) == [verifyingContract |-> a.verifier.name, form |-> "hex",
              digits |-> HexDigits[DomainOf(a)[1]]]

\* The aggregator a URL leads to, if it runs.
Behind(u) ==
  CASE u.behind = "aggregator" -> {a \in aggregator : Starts(a)}
    [] u.behind = "stranger" -> {a \in {Stranger} : Starts(a)}
    [] OTHER -> {}

\* The answer to eip712domain_info, if there is one: a service that is no aggregator
\* has no data.
fetch_domain_info(u) ==
  CASE u.scheme = "none" -> {}
    [] u.behind = "other" -> {[verifyingContract |-> Blank, form |-> "hex", digits |-> << >>]}
    [] OTHER -> {InfoOf(a) : a \in Behind(u)}

\* Mutant: any answer will do.
check_domain_answers(c) ==
  Check("domain", IF fetch_domain_info(url) # {} THEN "Pass" ELSE "Fail")

check_domain(c) ==
  Check("domain", IF \E info \in fetch_domain_info(url) : domain_matches(info, c)
                  THEN "Pass" ELSE "Fail")

\* Address::to_string writes the checksum.
Checksummed(address) == [name |-> address, checksummed |-> TRUE]

\* Mutant: the texts are compared as they are.
eq_exact(a, b) == a = b

eq_ignore_ascii_case(a, b) == a.name = b.name

\* Mutant: another address is a warning.
check_address_drift_warns(rendered, fetched) ==
  Check("addresses",
        IF \A key \in DOMAIN fetched \intersect DOMAIN rendered :
             eq_ignore_ascii_case(rendered[key], fetched[key])
        THEN "Pass" ELSE "Warn")

\* Each name that both have must have the same address.
check_address_drift(rendered, fetched) ==
  Check("addresses",
        IF \A key \in DOMAIN fetched \intersect DOMAIN rendered :
             eq_ignore_ascii_case(rendered[key], fetched[key])
        THEN "Pass" ELSE "Fail")

\* The addresses gateway.json has, by the names the address book has for them.
RenderedAddresses(c) ==
  [key \in {COLLECTOR, SERVICE} |->
     Checksummed(IF key = COLLECTOR THEN c.verifier ELSE c.data_service)]

\* An address book that cannot be read is a warning.
check_addresses(c) ==
  IF addresses = {} THEN {Check("addresses", "Warn")}
  ELSE {check_address_drift(RenderedAddresses(c), book) : book \in addresses}

may_onboard(made) == \A c \in made : c.outcome # "Fail"

-----------------------------------------------------------------------------
(***************************************************************************)
(* The run.                                                                 *)
(***************************************************************************)
OnboardInit ==
  /\ Init
  /\ pc = "config"
  /\ url = NoUrl
  /\ cfg = {}
  /\ checks = {}
  /\ result = "none"
  /\ block = {}
  /\ told = {}
  /\ book_read = {}
  /\ disturbed = FALSE

\* gateway.json, without which there is no table; then the checks of the URL.
ReadConfig ==
  /\ pc = "config"
  /\ url' \in Urls
  /\ cfg' = from_gateway_json(gateway_json)
  /\ IF cfg' = {}
     THEN pc' = "done" /\ result' = "fatal" /\ UNCHANGED checks
     ELSE pc' = "domain" /\ checks' = check_aggregator_url(url') /\ UNCHANGED result
  /\ UNCHANGED <<deployment, block, told, book_read, disturbed>>

FetchDomain ==
  /\ pc = "domain"
  /\ checks' = checks \union {check_domain(c) : c \in cfg}
  /\ told' = {DomainOf(a) : a \in Behind(url)}
  /\ pc' = "addresses"
  /\ UNCHANGED <<deployment, url, cfg, result, block, book_read, disturbed>>

\* Mutant: the block is printed before the checks are looked at.
ReadAddresses_prints ==
  /\ pc = "addresses"
  /\ checks' = checks \union UNION {check_addresses(c) : c \in cfg}
  /\ book_read' = addresses
  /\ result' = IF may_onboard(checks') THEN "READY" ELSE "NOT READY"
  /\ block' = {[sender |-> c.payer, aggregator_url |-> url,
                collector |-> c.verifier, subgraph_service |-> c.data_service,
                chain_id |-> c.chain_id] : c \in cfg}
  /\ pc' = "done"
  /\ UNCHANGED <<deployment, url, cfg, told, disturbed>>

\* The address book, the table, and the block unless a check failed.
ReadAddresses ==
  /\ pc = "addresses"
  /\ checks' = checks \union UNION {check_addresses(c) : c \in cfg}
  /\ book_read' = addresses
  /\ IF may_onboard(checks')
     THEN /\ result' = "READY"
          /\ block' = {[sender |-> c.payer, aggregator_url |-> url,
                        collector |-> c.verifier, subgraph_service |-> c.data_service,
                        chain_id |-> c.chain_id] : c \in cfg}
     ELSE result' = "NOT READY" /\ UNCHANGED block
  /\ pc' = "done"
  /\ UNCHANGED <<deployment, url, cfg, told, disturbed>>

Run == ReadConfig \/ FetchDomain \/ ReadAddresses

\* The deployment moves on, until the run is over.
Meanwhile ==
  /\ pc # "done"
  /\ DeploymentNext
  /\ disturbed' = (pc # "config")
  /\ UNCHANGED onboard

Next == Run \/ Meanwhile

Spec == OnboardInit /\ [][Next]_<<deployment, onboard, disturbed>>
-----------------------------------------------------------------------------
(***************************************************************************)
(* Properties.                                                              *)
(***************************************************************************)
OnboardTypeOK ==
  /\ TypeOK
  /\ pc \in {"config", "domain", "addresses", "done"}
  /\ url \in Urls \union {NoUrl}
  /\ Cardinality(cfg) <= 1
  /\ checks \subseteq [name : {"reachable", "TLS", "domain", "addresses"},
                       outcome : {"Pass", "Warn", "Fail"}]
  /\ result \in {"none", "fatal", "NOT READY", "READY"}
  /\ block # {} <=> result = "READY"

\* The special-purpose IPv4 blocks the code knows: the first two octets, as a number,
\* of their first address, and how many such numbers they span (a /8 spans 256).
In(octets, first, second, span) ==
  (octets[1] * 256 + octets[2]) \div span = (first * 256 + second) \div span

Public(u) ==
  IF u.octets # << >>
  THEN /\ u.octets # <<0, 0, 0, 0>>
       /\ ~ In(u.octets, 10, 0, 256)
       /\ ~ In(u.octets, 127, 0, 256)
       /\ ~ In(u.octets, 172, 16, 16)
       /\ ~ In(u.octets, 192, 168, 1)
       /\ ~ In(u.octets, 169, 254, 1)
  ELSE Len(u.labels) > 1

\* For every first two octets the check's comparison of text, octet by octet, tells
\* the addresses outside these blocks from those inside. It asks nothing of the
\* state: initial states are enough.
UrlCheckExact ==
  OnboardInit => \A a, b \in 0 .. 255, c \in 0 .. 1 :
    LET u == [scheme |-> "http", octets |-> <<a, b, c, 0>>, labels |-> << >>,
              behind |-> "nothing"]
    IN  Check("reachable", "Pass") \in check_aggregator_url(u) <=> Public(u)

\* The addresses an address book has are these.
Agrees(book, collector, service) ==
  /\ Entry(book, COLLECTOR).name \in {collector, Blank}
  /\ Entry(book, SERVICE).name \in {service, Blank}

\* The chain an aggregator on chain n is taken to be on: n, or, by domain_matches, also
\* its hexadecimal digits read in decimal if none of them is a letter. Arbitrum's 0xa4b1
\* and 0x66eee have letters.
TakenFor(n, chain_id) ==
  n = chain_id \/ (Decimal(HexDigits[n]) /\ Value(HexDigits[n], 10) = chain_id)

\* A block is never printed for a URL that is not public, nor unless an aggregator
\* behind it worked in the block's domain when it was asked (as far as the code tells
\* chains apart, TakenFor), and the address book that was read had no other address:
\* whatever the deployment did while the run read these three at three times. Its
\* two addresses come from one run of fetch-addresses.sh.
BlockIsVouched ==
  \A b \in block :
    /\ Public(b.aggregator_url)
    /\ \E n \in {d[1] : d \in told} : /\ told = {<<n, b.collector>>}
                                     /\ TakenFor(n, b.chain_id)
    /\ \A book \in book_read : Agrees(book, b.collector, b.subgraph_service)
    /\ <<b.collector, b.subgraph_service>> \in fetches

\* The running gateway sends its receipts for the block's sender, in its domain.
SentBy(b, g) ==
  /\ g.payer.name = b.sender
  /\ <<Max(parse_chain_id(g.chain_id)), g.verifier.name>> = <<b.chain_id, b.collector>>

\* The aggregator behind the block's URL works in its domain and accepts the key the
\* gateway signs with: it accepts no other but its own.
Accepts(b, a, g) ==
  /\ DomainOf(a) = <<b.chain_id, b.collector>>
  /\ a.signer = g.signer

\* An indexer's receipts would aggregate by the block.
WouldWork(b) ==
  /\ Public(b.aggregator_url)
  /\ \E g \in gateway : SentBy(b, g) /\ \E a \in Behind(b.aggregator_url) : Accepts(b, a, g)

\* Once the deployment has settled, and stays so during the run, the gateway sends as
\* the block says, and the block works, unless its URL leads to somebody else's
\* aggregator: one in the same domain passes check_domain, and refuses every receipt
\* of this gateway if its signer is another.
SettledBlockWorks ==
  (Settled /\ gateway # {} /\ ~ disturbed) =>
    \A b \in block : /\ \E g \in gateway : SentBy(b, g)
                     /\ b.aggregator_url.behind # "stranger" => WouldWork(b)

\* And the block is printed: over a settled deployment whose addresses are the
\* book's, with an API key and a sender, a public URL of the aggregator is not refused.
NoFalseRefusal ==
  (/\ pc = "done" /\ Settled /\ ~ disturbed
   /\ aggregator # {}
   /\ Public(url) /\ url.scheme # "none" /\ url.behind = "aggregator"
   /\ url.octets # << >> \/ url.labels[1] \notin {"0", "10", "127", "172", "192", "169"}
   /\ \E g \in gateway_json :
        /\ g.api_keys > 0
        /\ Blank \notin {g.subgraph_service.name, g.payer.name}
        /\ \A book \in addresses : Agrees(book, g.verifier.name, g.subgraph_service.name))
    => result = "READY"
=============================================================================
