# Gateway-in-a-Box, specified

TLA+ specifications of the programs of this repository (gib: a self-hosted
Graph gateway with its QoS publisher, its self-test and its deployment), the TLC
runs that check them, and TLAPS proofs of what matters most. `PROJECT.json`
lists components, runs, findings, hazards and theorems, and maps every
definition to the lines it translates.

    tlc -workers 2 -config MCQosPublisherStops.cfg QosPublisher
    tlc -workers 2 -config MCOnboard.cfg MCOnboard
    tlapm QosPublisherProofs.tla

## The system

gib is a Compose deployment of third-party services with three programs of its
own around them. Traffic flows like this:

    client -> gateway -> indexers
                 |  (one record per client query)
                 v
          Kafka topic gateway_queries --> gib-qos-publisher --> two payloads per window
                 ^                                (stdout; pinning is not written yet)
                 | (read over the HTTP proxy)
    gib-smoke ---+--> gateway, tap-aggregator, topology source
    gib-onboard -----> tap-aggregator (public URL), rendered gateway.json, address book
    topology-adapter: gateway -> hosted gateway, re-wraps answers
    scripts: fetch-addresses.sh, gen-keys.sh, render.sh -> runtime/*.json, runtime/.env

| Component | State | Operations | Hard behaviour | What makes it correct |
|---|---|---|---|---|
| **qos-publisher loop** (`qos-publisher/src/main.rs`) | the open window, in memory; the group's offsets, in Kafka | receive, decode, close, emit (two lines), fold | the close test reads the wall clock, the window the record's timestamp; the library commits offsets behind the loop's back; a stop loses memory; late and out-of-order records | windows hold their own messages only; none is published early, no message twice by one process, and no window again but for a late record; both topics agree; every message is accounted for; windows get published |
| **aggregation** (`aggregate.rs`, `cid.rs`, `attribution.rs`) | accumulators per (deployment, indexer) and per deployment | `add`, `close` | `add` may give up half way; attempts of one query spread over deployments | the records are those counting gives; the two topics' fees agree; rates stay in [0, 1] |
| **gib-smoke** (`smoke/src/main.rs`, `lib.rs`, `kafka.rs`, `config.rs`) | a table of checks, a baseline offset | eight requests to four peers, bounded polling | peers restart, fail or hang between requests; other clients write the same topic; a page limit and retention | exit 0 is evidence; no false alarm; it ends |
| **gib-onboard** (`onboard.rs`, `onboard_main.rs`) | a list of checks | checks of the URL, the aggregator's domain, the address book; prints the block | it reads files and one service at three times, while a render or a restart may lie between them; it never asks the running gateway | the block is vouched for by what was read; over a settled deployment it is printed exactly when it works, as far as the URL leads to the deployment's own aggregator |
| **topology-adapter** (`adapter.py`) | none | relay a query, health | answers every error with 200 | a broken upstream is not a sane count; the gateway is not made before the adapter is configured |
| **operator scripts** (`scripts/`) | `secrets/`, `config/addresses.env`, `runtime/` | fetch, generate, render | interrupted between and within files; inputs read twice; kept bad files | no key is lost; what was rendered agrees |
| **compose deployment** (`docker-compose.yml`, templates) | containers and the values each started with | up, start, stop, down | each service takes its values at another time: at creation, or at every start | a settled deployment agrees with itself |
| monitoring | none | | | third-party configuration |

External, and modelled only as far as these programs see them: the gateway, the
tap-aggregator, Kafka (Redpanda) and its client library, clocks, indexers.
Escrow and the chain are not touched by any program here.

## Modules

| Module | Models | Composes |
|---|---|---|
| `QosFeed` | what the publisher promises the readers of its topics | abstract specification |
| `QosPublisher` | the publisher's loop with Kafka's offsets, the clock, kills and restarts | implements `QosFeed` (INSTANCE, `ImplementsFeed`); a window here is the sequence of messages `Bucket::add` was called with |
| `QosPublisherProofs`, `QosFeedProofs`, `QosOrderProofs` | TLAPS proofs about it | extend `QosPublisher` |
| `QosPublisherClaims` | statements of docs and comments the loop does not keep | extends `QosPublisher` |
| `QosAggregate` | one `Bucket`: `add`, one step per attempt, and `close` | what a sequence of `QosPublisher` adds up to |
| `MCQosAggregate` | an instance of it | |
| `FoldLemmas` | no code: what the sums and folds of the community modules compute | |
| `QosAggregateProofs` | TLAPS proofs about it | extends `QosAggregate`, `FoldLemmas` |
| `SmokeLib` | what the two self-tests share: reading gateway.json, comparing domains, the topology answer and the adapter's | |
| `Smoke` | one run of gib-smoke against a deployment that changes | extends `SmokeLib` |
| `MCSmoke`, `SmokeClaims` | instances; statements not kept | |
| `SmokeProofs` | TLAPS proofs about it | extends `Smoke` |
| `Deployment` | the operator, the scripts, the rendered files, the services that read them | extends `SmokeLib` |
| `DeploymentProofs` | TLAPS proofs about it | extends `Deployment` |
| `Onboard` | one run of gib-onboard | extends `Deployment`: the two move at the same time |
| `MCOnboard`, `OnboardClaims` | an instance; a statement not kept | |
| `OnboardProofs` | TLAPS proofs about it | extends `Onboard`, `DeploymentProofs`, `FoldLemmas` |

### QosPublisher

`pc` is where `main` stands: `recv` is the await of line 90, `route` the test of
107-108, `emit_allocations` and `emit_queries` the two `println!` of `emit`,
`fold` the code from 113 on. `current` is the variable of line 87, `closing` the
bucket `take()` moved out of it. `committed`, `stored` and `position` are the
group's offset, the client library's offset store, and the next record of the
stream. `Deliver` stores the offset as a record is handed over, `AutoCommit`
commits it at any later moment: that is `enable.auto.commit`. `Crash` is a kill;
`FailRecv` is an error of `recv`, which `main` returns, so that the consumer is
closed and commits what is stored (when that commit fails too, the outcome is
the one of `Crash`). `Start` begins with `auto.offset.reset = latest`. Local
code between two awaits that nothing else can observe is one step. `received`,
`published` and `skipped` are history; `log[i].at` is when a record reached the
topic, and no action reads it.

Kafka here is one partition with one consumer in the group: rebalances are not
modelled. `Produce` gives a record any timestamp up to `MaxLateMs` behind the
clock (batching and retrying producers), no timestamp if `Untimestamped`, or a
payload that does not decode. The `gateway_id` a window carries, logging and the
JSON layout are left out.

### QosFeed

A consumer of the two topics sees payloads and no loop: the specification has the
clock, the topic, the payloads and how often the publisher stopped, and says that
payloads come in pairs, of aligned windows whose delay is over, and hold records
of the topic, of the window's own time, in its order, each at most once between
two stops. The refinement mapping of `QosPublisher!Feed` is: `feed` is
`published`, `run` is `stops`, `counted` is what this process wrote on the queries
topic, and `half`, the window of which one payload is out, is `closing` while
`pc = "emit_queries"`. Open windows, offsets and commits are not in it: every step
on them is a stutter.

### QosAggregate

`Begin`, `FoldAttempt`, `Reject` and `FoldQuery` are one call of `Bucket::add`,
cut at each turn of its loop, since a `?` may leave it at each. `close` does not
change state and is the operators `AllocationRecords` and `QueryRecords`. An id
is its length and a name, since the code tests the one and prints the other. A
mean is the pair of sum and count, a standard deviation the integer `n * sum of
squares - square of sum`: equality of these is equality of the real numbers, and
floating-point rounding is not modelled. `classify` looks at prefixes; the
model's results are the prefixes, one text that merely looks like a success
included.

### Smoke

One step per request (`pc` names the next), since the deployment may change
while each is awaited; the deployment's actions are `PeerChanges` (down, up,
hung), `GatewayRestarts` and `AggregatorRestarts` (with any configuration),
`TopicExpires`, `ClientQuery` and `WriteOwed` (the producer writes the record of
the run's own query, perhaps late, perhaps never). A request to a peer that is
down is an error; to one that hangs it does not return, because no client here
sets a timeout. `rows` is the set of checks with their outcomes: what counts for
the exit code is whether a failed one is among them. The labels name the rows of the
table; a `d` or `e` without more is the row of a failed aggregation.

A signed message remembers who signed what under which domain;
`recover_signer` returns the signer if nothing was changed and the domain is the
same, else nobody. An honest aggregator makes a RAV of receipts that all recover,
under its domain, to its own key or to one of `accepts` (the public keys of
docker-compose.yml), and signs it with its key; one that is not honest answers
anything, a signature that cannot be recovered included (exit code 2). Receipt
construction fails only for a clock before 1970, and is not modelled to fail.

The topology row is decided by what the source answers, through the adapter's
`do_POST` and `fetch_topology_counts` of `SmokeLib`: a configured adapter wraps the
text of its upstream, an error becomes an answer of 200 without counts. A chain id
as text is its form and its digits, so that the two bases it may be read in
(`domain_matches`) are computed and not assumed.

### Deployment

`secrets` holds the number of the wallet in each key file (0 for none, -1 for a file
without a key), `env` and `addresses` what a script would read, `gateway_json`,
`escrow_json` and `compose_env` the three rendered files; {} is a file that is not
there or no reader can use. `GenKey` is one turn of gen-keys.sh, which writes a file before it
looks at it and keeps any file that is there; `FetchAddresses` takes the
collector from the horizon book and the subgraph service from the other, two downloads
that may find two versions when the ref moves between them (fetch-addresses.sh:29-30; the
constant `Books` is the set of pairs of versions a fetch may find), and then writes
addresses.env from its start; it may be interrupted after any line (an exception between
two lines closes the file); `Load`, `WriteGatewayJson`, `WriteEscrowJson`, `Validate` and
`WriteComposeEnv` are render.sh, cut wherever another process can see or change a
file, and `Interrupt` ends it anywhere, perhaps with the file it was about to write
empty. `script.loaded` is what it exported from the files at lines 25-31;
`WriteComposeEnv` reads `.env` and the address book again (lines 82, 83), as the
script does, but not the keys. `env.required`, `gateway_values` and `escrow_values`
stand for the `:?` checks and for values that leave a template invalid JSON.

The services: `Up` is `docker compose --env-file runtime/.env up -d`, which makes the
aggregator and the adapter anew when their environment changed; the gateway's
container has none of the rendered values in its environment, waits for the adapter's
health, and reads `gateway.json`, a mounted file, when its process starts
(`StartGateway`, after `StopGateway`, a crash, a reboot or a restart). `done`,
`removed` and `fetches` (the pairs of collector and service that one fetch wrote) are
history. `Validate` always parses both files: render.sh:73 skips that where python3 is
missing, a prerequisite by README.md:47 without which fetch-addresses.sh:17 does not run
either; that host is not modelled.

### Onboard

One step per read: `ReadConfig` (gateway.json and the checks of the URL),
`FetchDomain`, `ReadAddresses` (the address book, the table, the block).
`Meanwhile` is any step of Deployment until the run is over. A host is an IPv4
address, as octets, or a name, as labels: `unreachable` compares their text as
onboard.rs does, `Public` is the arithmetic of the address blocks it stands for.
What answers behind the URL (`Behind`) is the deployment's aggregator, a tap-aggregator of
somebody else (`Stranger`), another service or nothing. A service that is no aggregator
answers without domain data; a stranger's answers as ours does, and passes `check_domain`
when it works on the same chain with the same collector (lib.rs:158-177 compares nothing
else). READY is printed then, and every receipt refused: `SettledBlockWorks` says that of
a settled deployment's block the gateway's part is right in any case, and that it works
unless its URL leads to a stranger's aggregator. No check of gib-onboard could tell: it
sends no receipt.
`TakenFor` is what a chain may be taken for when the aggregator's hexadecimal text is
compared in both bases: itself and, if its hexadecimal digits have no letter, the number
they are in decimal. `BlockIsVouched` promises that much of the chain and no more.

`UrlAssumption` says what a host of `Urls` is: four octets, or a name of at least one
label. `OctetAssumption` is about TLC's `ToString`, of which the prover knows nothing: the
text of different octets is different, and the texts onboard.rs names are those of the
numbers meant. TLC evaluates both on every run.

## Runs

All bounds are constants of the configurations. Deadlock is not checked: a
stopped bound (no more records, no more time, a run that has ended) is a legal end.

| Run | Properties | Instance, and why it is enough |
|---|---|---|
| publisher_stops | TypeOK, Accounting, AtMostOnce, TopicsPaired, ImplementsFeed | windows of 2 s, delay 1, five seconds (three windows), three records up to 2 s late, one stop: a message can be early, late by a window, skipped, re-read after the stop, and fall between the two payloads |
| publisher_clock | WindowPurity, NoEarlyPublish, SkipsOnlyInCloseDelay, ReopenedByLateRecord | no stop, two milliseconds a second, records up to a second late or without a timestamp: every boundary of the conversion, two windows published while a third opens or the first opens again, at every lag of the loop. With a fourth record, all with timestamps, it passes, too; 48 million states are too many for a run |
| publisher_live | EventuallyPublished | the same loop under `FairSpec` |
| aggregate | TypeOK, RecordsMatchReference, QueriesConserved, FeesAgree, RatesBounded | every pair of the queries of at most two attempts over two deployments, two indexers and two malformed ids: accumulators found, started and left half way |
| smoke_records | TypeOK, SignerIsFresh, EndsInTime, Terminates | two changes of the deployment, two looks, a page of two records, old topics with a record of the configured signer, of a retired one, and one that does not decode |
| onboard | OnboardTypeOK, UrlCheckExact, BlockIsVouched, SettledBlockWorks, NoFalseRefusal, KeysKept, OneFetch, RenderAgrees, SettlesInAgreement | two changes of the inputs after they were made, two pairs of address books a fetch may find: both in one version, or in two different ones (in lower case), three `.env` files (two senders, two chains, a chain in hexadecimal, values that leave escrow-manager.json invalid, no API key, no studio key), five URLs (public, a stranger's aggregator, which works in the domain of one of the two pairs, another service, no scheme, a Compose name): enough for an edit or a fetch during a render, a failed render over a good one, a rotation of a key with `up` or `restart` only, and any of them between two reads of gib-onboard. About 6.7 million states |
| smoke_evidence | PassIsEvidence, NoFalseAlarm | eight aggregators: with either key, before and after a rotation, accepting the wrong key, on another chain or verifier, advertising in two encodings, broken; one change at any moment |

Fairness. `QosPublisher!FairSpec` is weakly fair to the loop (one thread, nothing
else can hold it up), to `Start` (an operator or supervisor starts it again) and
to the clock; not to the gateway, to the library's commits, or to stops.
`Deployment` and `Onboard` have no fairness: an operator owes nobody a step. `UrlCheckExact`
asks nothing of the state and is evaluated in the initial states, for every first two
octets of an address. `Smoke!FairSpec` is weakly fair to the run and to nothing else; a step of the run
is not enabled while its peer hangs.

Every property has a mutant in `PROJECT.json`: the definitions marked as
mutants in the modules are plausible mistakes in the code, and the run finds each.

## Findings

Each is a run that ends in a counterexample to what a document or comment says.

| Run | The repository says | The code does |
|---|---|---|
| claim_counts_every_query | docs/08-qos-publishing.md:215 `query_count` counts client queries | messages of the next window read during the close delay are let go without a log line (main.rs:115): with the defaults, up to the first minute of each window |
| claim_restart_keeps_window | docs/08-qos-publishing.md:258 a restart should not lose a window | offsets of the window in memory are committed (main.rs:74) |
| claim_signer_is_observed | smoke/src/main.rs:7 the signer is observed from a real dispatched query | after a failed baseline request any old record passes (main.rs:160) |
| claim_ready_works | docs/04-indexer-onboarding.md:14 the block is printed "only if it would actually work" | it compares gateway.json, the aggregator's domain and the address book (onboard_main.rs:78, 86, 113), and asks neither which file the running gateway has read nor whose receipts the aggregator accepts: after a failed render, or a rotated signer and `up -d`, a block that does not work is printed. A URL that leads to somebody else's aggregator in the same domain is a third way; the run is without one (`OwnUrls`), to show the others |
| claim_latest_is_latest | smoke/src/kafka.rs:73 the highest offset | the highest of the first page (kafka.rs:44, 75); on a longer topic checks (b) and (c) can never pass |

Noted while modelling, without a run of its own: a late message opens a published
window again, which is then published twice (oracle.rs:64, one message per topic
per bucket; `ReopenedByLateRecord` says that nothing but a record that goes back in the topic
does it); the comment of the close test has "traffic from a later one" (main.rs:106), the
test any other window; a query whose second attempt is malformed stays in the allocations
with its first (main.rs:117, "skipped"; `FeesAgree` says how far the topics then
differ); a query without attempts is in no record (`QueriesConserved` counts it
apart); gib-smoke may read another client's record (main.rs:154); a chain id that is
a string is read in both bases, so 10 matches 0x10 (lib.rs:172; `TakenFor` says how far, and
Arbitrum's two chains are taken for themselves only); the last window before
traffic ends is never published (main.rs:107; docs/08-qos-publishing.md:260 has
each bucket closed on a delay); an aggregator that went down passes check (f)
(smoke/src/main.rs:291; lib.rs:9 says bad receipts are rejected). Around the deployment:
docs/03 has `restart gateway` after a render, which leaves the aggregator with the
old environment, while render.sh:90 has `up -d`, which leaves the running gateway with the
old file: only both settle (`SettlesInAgreement`). `.env.example` and the README say
that listing a signer in GRAPH_TALLY_PUBLIC_KEYS is enough, but docker-compose.yml:52 has that
line commented out. The message of render.sh:32 for a file without a key is never
printed: `set -e` with `pipefail` ends the script at line 30. The `::1` branch of
onboard.rs:86 cannot be taken, since the host was split at the colon, and a name such as
10.example.com is refused. fetch-addresses.sh:13 takes the chain from the shell,
not from `.env`, and reads two books with two downloads (29, 30): when the branch moves
between them, the collector and the subgraph service are of two versions, and no program
here notices, for all compare with the one file written from both. `OneFetch` and
`BlockIsVouched` promise addresses of one fetch, and no more.

## Proofs

`QosPublisherProofs`, `QosFeedProofs` and `QosOrderProofs` prove, for every width of the window, every delay (a
negative one included), every lateness, every number of milliseconds a second
and every bound, from the four named assumptions of `QosPublisher`:

| Theorem | Property | Argument |
|---|---|---|
| TypeCorrect | TypeOK | `TypeInv` = TypeOK and `Phases`: a message is in hand exactly while the loop works on it, a window is in `closing` exactly during `emit`, no window is open between the two, and a stopped process has no memory and no stored offset. Without `Phases` a payload could be written from no window |
| PurityTheorem | WindowPurity | inductive with TypeInv. The arithmetic is in `OneWindow`: a time lies in a window iff its second's quotient is the window's, `BoundsLemma`, and `NewBucketLemma` |
| EarlyTheorem | NoEarlyPublish | `Due`: the window in `closing` is due already, and time only grows |
| SkipTheorem | SkipsOnlyInCloseDelay | Fold from `route` skips only when the close test failed on the clock; Fold from `fold` finds no window and never skips |
| OnceTheorem | AtMostOnce | `OffsetInv`: offsets grow along each window, and everything published on a topic by this process lies before what is in `closing`, that before what is in `current`, that before the message in hand, that before `position` |
| PairedTheorem | TopicsPaired | `HalfEmitted`: between the two writes the last payload is the allocations payload of the window in `closing` |
| AccountingTheorem | Accounting | each step moves a message between the parts of the union; `PublishedOnLemma` says what one more payload adds |
| FeedTheorem | ImplementsFeed | `FeedInv` = TypeInv, WindowPurity, `Due`, OffsetInv and `SourceInv` (every message in hand or in a window stands for a record of the topic). `MayPublishLemma`: these make the window in `closing` one that may be published; `CountedLemma`: no other step changes what was counted. The proof has a step for each action: a step of QosFeed, or a stutter |
| OrderTheorem | ReopenedByLateRecord | `OrderInv`: what the process published lies before the window in hand, and both before the message that closed it, except where a record that goes back explains it (`Explained`); a process that has no window has published nothing. `Descent`: a message of an earlier window than one before it is a record that goes back, by `SourceInv`. `TakenLemma`: when a window is taken, the message in hand is either newer, and what explained a payload to the window explains it to the message, or older, and goes back itself; by OffsetInv the payload ends before both |

`DeploymentProofs` proves, for every set of `.env` contents, chains, pairs of versions of the
two address books and every number of changes, from the assumptions of `Deployment`:

| Theorem | Property | Argument |
|---|---|---|
| KeysTheorem | KeysKept | `KeyInv`: the keys render.sh has loaded are kept, too, for it writes them after the operator may have removed them. `KeptLemma`: gen-keys.sh fills only files that are not there, so a key that was kept stays so |
| RenderTheorem | RenderAgrees | `Rendering`: while the script runs nothing counts as done, the files it wrote are the templates of what it loaded, and, undisturbed, `.env` and the address book are what it loaded; `Rendered`: the three files of a render agree |
| SettlesTheorem | SettlesInAgreement | `Deployed`: after `up` the aggregator is of runtime/.env, after a start the gateway of gateway.json, while no render began since; with `Rendered` they agree |
| DeploymentTypes | (TypeOK) | `TypeInv`: what the script loaded, a rendered file and what a service runs with are one or none, and carry a chain text of the `.env` files |
| FetchTheorem | OneFetch | `FetchInv`: a file of addresses, what was loaded and what was rendered of it are of one fetch, however much of it was written (`OfOneFetch`): a collector and a service in it are a pair in `fetches`. A render needs a collector, a gateway starts only with a subgraph service; `FetchesGrow` keeps the pair over later fetches |

`QosAggregateProofs` proves, for every set of attempts and queries and every number of
calls of `add`, from the assumptions of `QosAggregate`:

| Theorem | Property | Argument |
|---|---|---|
| RatesTheorem | RatesBounded | `RatesInv`: the samples of an accumulator are equally many, at least one, and `add` works on a query of the window. `AttemptLemma` and `QueryLemma` say what one more sample does, `FoundAllocation` and `FoundQuery` that the accumulator it is added to, found or started, is even |
| TypeTheorem | TypeOK | `StateInv`: the tables stay finite, which no sum over them is defined without; `PutLemma` |
| FeesTheorem | FeesAgree | `FeesInv`, at every step of `add` and not only between calls: the allocations hold what the queries hold and what the query in hand cost so far (`HandFees`), and the rest of a query that was cut short. `GoodPrefixUnique` and `InHandLemma`: `add` stands just where the well-formed attempts of the query end |
| ConservedTheorem | QueriesConserved | `CountInv`: queries are counted, missed, or in hand. `EndsMissed`: a call that ends without `FoldQuery` had no attempt or a malformed one |
| RecordsTheorem | RecordsMatchReference | `AllocationsMirror` and `QueriesMirror`: the samples of an accumulator, a sequence in the order they came, stand for the attempts (the queries) of its key that were folded so far: as many of them, with the same sum, the same sum of squares and the same values (`Mirror`). `TableGrows` and `CallTableGrows` keep that when one more is folded; `FoldedMore`, `FoldedSame`, `CountedMore` and `CountedSame` say when the reference has one more; `OneAllocation` and `OneQuery`: mirrored samples make equal records |

A sum of the community modules is a recursive function over the subsets of a finite set,
and to the prover a function chosen to satisfy its equation. `FoldLemmas` shows by
induction that there is one (`FoldExists`) and that the chosen one is it (`FoldsAgree`), and from
there what the sum of a set split in two, of one more member, of one changed member or of
a sequence with one more item is (`SumSplit`, `SumGrow`, `SumChange`, `SumOfAppend`). The induction
is `NatSetInduction`: a set of numbers without a least counterexample, from the
well-foundedness of the naturals, in place of the library's theorems over an operator.

`OnboardProofs` proves, for every set of URLs and every deployment, from the assumptions
of `Onboard` and `Deployment`:

| Theorem | Property | Argument |
|---|---|---|
| BesideTheorem | DeploymentSpec | a run only reads: each of its steps leaves the deployment alone, `Meanwhile` is a step of it. `DeploymentBeside` is what follows: KeysKept, OneFetch, RenderAgrees and SettlesInAgreement hold beside a run |
| OnboardTypes | OnboardTypeOK | `DeploymentInv` and `RunTypes`: until the run is over it has no result, and between its reads it has one configuration |
| UrlTheorem | UrlCheckExact | `OctetText`, `StartsWithOne` and `StartsWithTwo` turn each comparison of text into one of octets, `OctetUrl` those into the arithmetic of `In`. `UrlLemma` says the same of every URL of `Urls`, names included |
| BlockTheorem | BlockIsVouched | `Vouched`: while no check failed, the URL is public once it was checked, and the aggregator has answered for the configuration once it was asked (`AnsweredFor`). `HexValue`: the digits the aggregator writes are those of its number (strong induction); `ChainId` and `AnswerLemma`: what domain_matches lets pass is `TakenFor`. That the two addresses are of one fetch is `FetchInv` of DeploymentProofs, of the gateway.json the run read |
| WorksTheorem | SettledBlockWorks | `Undisturbed`: what an undisturbed run has found so far is what the checks would find now. With it, over a settled deployment, `SettledLemma`: gateway.json is what the gateway runs with, and the aggregator is of the same render; the gateway's part needs no more, the aggregator's part needs the URL to lead to it |
| RefusalTheorem | NoFalseRefusal | `Undisturbed` and `SettledLemma`, with `Startable` (a gateway that started has a chain id that can be read) and `NamesGiven` (no entry of an address book is blank): neither can be seen in what the run reads, and without them the configuration might be refused |

TLC checked `Startable`, `NamesGiven`, `RunTypes`, `Vouched` and `Undisturbed` on the
instance of the onboard run before they were proved. `BlockIsVouched` was first stated of
chains whose hexadecimal digits have a letter; the proof asked what the others are taken
for, and `TakenFor` is the answer. `NoFalseRefusal` first forgot the name `0` among the
names `unreachable` refuses and a sender that is blank: no instance had either.

`SmokeProofs` proves, for every set of signers, aggregators and old topics, every page,
number of looks, of records and of changes, from the assumptions of `Smoke` (what nobody
signed recovers to none of the signers, and a signer is not garbage; a text of decimal form
has decimal digits; old records decode or are junk):

| Theorem | Property | Argument |
|---|---|---|
| TypeTheorem | TypeOK | `TypeInv` adds `LooksLeft`: while the run looks, a look is left. `LatestLemma`: what latest_client_query finds is a place of the page, and the highest (`MaxLemma`, from the well-foundedness of the naturals) |
| FreshTheorem | SignerIsFresh | `BaselineInv`: no decodable record of the page that lay there when the baseline was read is above it; so a record above the baseline is behind the mark (`RecordInv`), and check (c) is made once, on that record (`CheckedInv`) |
| EndTheorem | EndsInTime | `FollowsLemma`: where each step leads; by `LooksLeft` a look that is not the last one leaves one fewer, and nothing else starts the looking again. `EndInv`: a run has its exit code when it is over. With it, what `Terminates` adds is only that a run takes its steps while it can |
| EvidenceTheorem | PassIsEvidence | a check a later request relies on was made (`MadeInv`), a RAV of another key or domain leaves a failed row (`RavInv`), and so does a bad receipt that became a RAV (`RepliesInv`); rows are never taken back, and exit code 0 leaves none failed (`ExitInv`) |
| AlarmTheorem | NoFalseAlarm | `CalmInv`: without a change every peer is up, every record behind the mark is of the configured signer (`SignedInv`), and only (a) to (c) can have failed, each for the reason the property excludes (`FailuresInv`); `OrderlyAnswers` is what an aggregator in order makes of good and of bad receipts |

Each invariance proof has a step for each action or group of actions that leave the
same things alone. The strengthenings of the publisher's were checked by TLC first.

Every invariant, action property and refinement a passing run checks is a theorem. Only
model-checked: `EventuallyPublished` and `Terminates` (liveness under fairness is not within the
prover's reach), and the counterexamples of the findings, which are runs.

## Not modelled

- Monitoring: static configuration of third-party images.
- The escrow-manager's and Redpanda's containers: no program of this repository asks them
  anything; the file rendered for the first is modelled, since a render that fails on it
  leaves the others behind.
- What the gateway does without a topology, Kafka rebalances, replication and
  several partitions: third-party code.
- The layout of payloads (`proto.rs`, `oracle.rs` fields), logs, the wording of tables and of
  the block, images, ports and volumes.
- In URLs: user names, ports, paths, trailing dots, IPv6. Floating-point rounding.

## Plan

Done: QosPublisher with its claims and proofs, QosFeed and the refinement with its proof;
QosAggregate, Smoke, Deployment and Onboard with the proofs of all their safety properties.

Next, in this order:

1. A window of QosPublisher as a run of QosAggregate: that `add` over the sequence of messages in
   `current` leaves the records `RecordsMatchReference` states, so that a query record is followed
   from the topic to the payload. RecordsTheorem is stated of any sequence of calls, which is what
   this needs.
2. Rebalances, should the publisher ever run as several processes.
