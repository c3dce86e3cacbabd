----------------------------- MODULE Deployment -----------------------------
(***************************************************************************)
(* A gib deployment in the hands of its operator: the scripts that fetch    *)
(* addresses, make keys and render the files under runtime/, and the        *)
(* Compose services that read those files, each at a time of its own. The   *)
(* gateway reads gateway.json, a mounted file, whenever its process starts; *)
(* the aggregator and the adapter get their environment when their          *)
(* container is made, and keep it over a restart. The scripts may be        *)
(* interrupted at any point, by an error, a full disk or the operator.      *)
(*                                                                          *)
(* A file that is not there, or that no reader can use, is {}; a file that  *)
(* is there is the set of its content. A key is the number of its wallet.   *)
(***************************************************************************)
EXTENDS SmokeLib

CONSTANTS Envs,       \* contents .env may have
          Chains,     \* chains fetch-addresses.sh may be told to read
          Books,      \* versions of the two published address books that a fetch may find
          MaxChanges  \* bound: how often inputs change after they were first made

ASSUME EnvAssumption ==
  Envs \subseteq [chain : [form : {"dec", "hex"}, digits : Seq(0 .. 15)],
                  sender : [name : Seq(STRING), checksummed : BOOLEAN],
                  required : BOOLEAN, api_keys : Nat, studio_key : BOOLEAN,
                  gateway_values : BOOLEAN, escrow_values : BOOLEAN]
ASSUME BookAssumption == Chains \subseteq Nat /\ Books \subseteq Nat \X Nat
ASSUME ChangeAssumption == MaxChanges \in Nat

Names == {"sender", "signer"}
Absent == 0   \* no key file
Bad == -1     \* a key file from which no key can be read

GRT == "GRT"  \* the first line; nothing here reads it
COLLECTOR == "GRAPH_TALLY_COLLECTOR"
SERVICE == "SUBGRAPH_SERVICE"

VARIABLES
  secrets,       \* SECRETS_DIR: the key in each file
  wallets,       \* how many wallets were made
  env,           \* .env
  addresses,     \* config/addresses.env: from names to addresses
  gateway_json,  \* runtime/gateway.json
  escrow_json,   \* runtime/escrow-manager.json
  compose_env,   \* runtime/.env
  script,        \* render.sh: the file it writes next, and what it loaded
  adapter,       \* whether the adapter's container has an upstream
  gateway_made,  \* whether the gateway's container was made
  gateway,       \* the gateway.json the running gateway read
  aggregator,    \* the environment of the aggregator's container
  changes,       \* how often inputs changed
  removed,       \* history: the keys the operator removed
  fetches,       \* history: the pairs of collector and service one fetch wrote
  done           \* history: what was done since a render began that succeeded

inputs == <<secrets, wallets, env, addresses, changes, removed, fetches>>
runtime == <<gateway_json, escrow_json, compose_env>>
services == <<adapter, gateway_made, gateway, aggregator>>
deployment == <<inputs, runtime, script, services, done>>

Idle == [pc |-> "idle", loaded |-> {}, clean |-> FALSE]

-----------------------------------------------------------------------------
(***************************************************************************)
(* What the operator and the scripts do to the inputs.                      *)
(***************************************************************************)
\* An address in a version of a published book. Some write it in lower case.
Address(key, chain, version) ==
  [name |-> <<key, chain, version>>, checksummed |-> version = 1]

\* What fetch-addresses.sh takes from the two books: the horizon book's version is
\* books[1], and that of the subgraph-service book, which has the service, books[2].
Fields(chain, books) ==
  [key \in {GRT, COLLECTOR, SERVICE} |->
     Address(key, chain, IF key = SERVICE THEN books[2] ELSE books[1])]

\* The value of a variable of addresses.env, empty if it is not there.
Entry(book, key) ==
  IF key \in DOMAIN book THEN book[key] ELSE [name |-> Blank, checksummed |-> FALSE]

Init ==
  /\ secrets = [name \in Names |-> Absent]
  /\ wallets = 0
  /\ env \in Envs
  /\ addresses = {}
  /\ gateway_json = {}
  /\ escrow_json = {}
  /\ compose_env = {}
  /\ script = Idle
  /\ adapter = {}
  /\ gateway_made = FALSE
  /\ gateway = {}
  /\ aggregator = {}
  /\ changes = 0
  /\ removed = {}
  /\ fetches = {}
  /\ done = {}

Change == changes < MaxChanges /\ changes' = changes + 1

\* A change of .env or addresses.env while render.sh runs.
Disturb == script' = [script EXCEPT !.clean = FALSE]

EditEnv ==
  /\ Change
  /\ env' \in Envs \ {env}
  /\ Disturb
  /\ UNCHANGED <<secrets, wallets, addresses, removed, fetches, runtime, services, done>>

PairOf(fields) == <<fields[COLLECTOR].name, fields[SERVICE].name>>

\* History: a fetch that wrote the service, too, wrote a pair.
Fetch(written, fields) ==
  fetches' = fetches \union (IF SERVICE \in written THEN {PairOf(fields)} ELSE {})

\* Mutant: the lines of the file are replaced one by one.
FetchAddresses_in_place ==
  /\ IF addresses = {} THEN UNCHANGED changes ELSE Change
  /\ \E chain \in Chains, books \in Books,
        written \in {{}, {GRT}, {GRT, COLLECTOR}, {GRT, COLLECTOR, SERVICE}} :
       /\ addresses' = {[key \in written |-> Fields(chain, books)[key]] @@ old :
                          old \in IF addresses = {} THEN {<< >>} ELSE addresses}
       /\ Fetch(written, Fields(chain, books))
  /\ Disturb
  /\ UNCHANGED <<secrets, wallets, env, removed, runtime, services, done>>

\* fetch-addresses.sh. It downloads one book and then the other, each as it is
\* published at that moment (the ref is a branch unless the operator pins it): the
\* two may be of different versions. Without both books and every address in them
\* it ends before it touches the file, which it then writes from its start, line
\* by line: interrupted, it leaves the lines written until then.
FetchAddresses ==
  /\ IF addresses = {} THEN UNCHANGED changes ELSE Change
  /\ \E chain \in Chains, books \in Books,
        written \in {{}, {GRT}, {GRT, COLLECTOR}, {GRT, COLLECTOR, SERVICE}} :
       /\ addresses' = {[key \in written |-> Fields(chain, books)[key]]}
       /\ Fetch(written, Fields(chain, books))
  /\ Disturb
  /\ UNCHANGED <<secrets, wallets, env, removed, runtime, services, done>>

\* Mutant: a key that is there is made again.
GenKey_anew(name) ==
  /\ name = "signer" => secrets["sender"] # Absent
  /\ wallets < 3 /\ wallets' = wallets + 1
  /\ \E key \in {wallets + 1, Bad} : secrets' = [secrets EXCEPT ![name] = key]
  /\ UNCHANGED <<env, addresses, changes, removed, fetches, runtime, script, services, done>>

\* gen-keys.sh makes the files that are not there, the sender's first. A file is
\* written before it is checked: without a key in it the script ends, and leaves it.
GenKey(name) ==
  /\ secrets[name] = Absent
  /\ name = "signer" => secrets["sender"] # Absent
  /\ wallets' = wallets + 1
  /\ \E key \in {wallets + 1, Bad} : secrets' = [secrets EXCEPT ![name] = key]
  /\ UNCHANGED <<env, addresses, changes, removed, fetches, runtime, script, services, done>>

\* "delete to regenerate"
RemoveKey(name) ==
  /\ Change
  /\ secrets[name] # Absent
  /\ secrets' = [secrets EXCEPT ![name] = Absent]
  /\ removed' = removed \union {<<name, secrets[name]>>}
  /\ UNCHANGED <<wallets, env, addresses, fetches, runtime, script, services, done>>

-----------------------------------------------------------------------------
(***************************************************************************)
(* render.sh.                                                               *)
(***************************************************************************)
\* The files are loaded and checked. Nothing is written unless all is there.
Load ==
  /\ script.pc = "idle"
  /\ \A name \in Names : secrets[name] \notin {Absent, Bad}
  /\ env.required
  /\ \E book \in addresses :
       /\ Entry(book, COLLECTOR).name # Blank
       /\ script' = [pc |-> "gateway", clean |-> TRUE,
                     loaded |-> {[env |-> env, book |-> book, keys |-> secrets]}]
  /\ done' = {}
  /\ UNCHANGED <<inputs, runtime, services>>

\* The templates, filled: not JSON where a number or a boolean is missing.
GatewayJson(v) ==
  IF v.env.gateway_values
  THEN {[chain_id |-> v.env.chain, payer |-> v.env.sender, signer |-> v.keys["signer"],
         verifier |-> Entry(v.book, COLLECTOR),
         subgraph_service |-> Entry(v.book, SERVICE), api_keys |-> v.env.api_keys]}
  ELSE {}

EscrowJson(v) ==
  IF v.env.escrow_values
  THEN {[signer |-> v.keys["signer"], secret_key |-> v.keys["sender"],
         collector |-> Entry(v.book, COLLECTOR)]}
  ELSE {}

At(pc, then) == script.pc = pc /\ script' = [script EXCEPT !.pc = then]

WriteGatewayJson ==
  /\ At("gateway", "escrow")
  /\ gateway_json' = UNION {GatewayJson(v) : v \in script.loaded}
  /\ UNCHANGED <<inputs, escrow_json, compose_env, services, done>>

WriteEscrowJson ==
  /\ At("escrow", "validate")
  /\ escrow_json' = UNION {EscrowJson(v) : v \in script.loaded}
  /\ UNCHANGED <<inputs, gateway_json, compose_env, services, done>>

\* Both files must parse. Without python3, which README.md:47 lists as a prerequisite,
\* the script skips this (render.sh:73); that case is left out.
Validate ==
  /\ At("validate", "compose")
  /\ gateway_json # {} /\ escrow_json # {}
  /\ UNCHANGED <<inputs, runtime, services, done>>

\* Mutant: the signer's key is read again, too.
WriteComposeEnv_rereads ==
  /\ script.pc = "compose"
  /\ script' = Idle
  /\ LET files(v) == {[chain |-> env.chain, verifier |-> Entry(book, COLLECTOR),
                       signer |-> secrets["signer"], studio_key |-> env.studio_key] :
                        book \in {b \in addresses : DOMAIN b # {}}}
     IN  compose_env' = UNION {files(v) : v \in script.loaded}
  /\ done' = IF compose_env' = {} THEN {}
             ELSE {"render"} \union (IF script.clean THEN {"clean"} ELSE {})
  /\ UNCHANGED <<inputs, gateway_json, escrow_json, services>>

\* .env and addresses.env are read again. A file without a line ends the script
\* (grep finds none, set -e), with a part of runtime/.env written.
WriteComposeEnv ==
  /\ script.pc = "compose"
  /\ script' = Idle
  /\ LET files(v) == {[chain |-> env.chain, verifier |-> Entry(book, COLLECTOR),
                       signer |-> v.keys["signer"], studio_key |-> env.studio_key] :
                        book \in {b \in addresses : DOMAIN b # {}}}
     IN  compose_env' = UNION {files(v) : v \in script.loaded}
  /\ done' = IF compose_env' = {} THEN {}
             ELSE {"render"} \union (IF script.clean THEN {"clean"} ELSE {})
  /\ UNCHANGED <<inputs, gateway_json, escrow_json, services>>

\* The script ends early: in Validate, or anywhere by an error or a signal, which
\* may leave the file it is about to write empty.
Interrupt ==
  /\ script.pc # "idle"
  /\ script' = Idle
  /\ gateway_json' \in {gateway_json} \union (IF script.pc = "gateway" THEN {{}} ELSE {})
  /\ escrow_json' \in {escrow_json} \union (IF script.pc = "escrow" THEN {{}} ELSE {})
  /\ compose_env' \in {compose_env} \union (IF script.pc = "compose" THEN {{}} ELSE {})
  /\ UNCHANGED <<inputs, services, done>>

-----------------------------------------------------------------------------
(***************************************************************************)
(* Compose.                                                                 *)
(***************************************************************************)
\* What was done counts only after a render that succeeded.
Did(step) == done' = IF done = {} THEN {} ELSE done \union {step}

\* The adapter's /health, which the gateway's container waits for.
healthy == adapter' = {TRUE}

\* Mutant: an aggregator that runs is left alone.
Up_keeps ==
  /\ \E file \in compose_env :
       /\ aggregator' = IF aggregator # {} THEN aggregator
                        ELSE {[chain |-> file.chain, verifier |-> file.verifier,
                               signer |-> file.signer]}
       /\ adapter' = {file.studio_key}
  /\ gateway_made' = (gateway_made \/ healthy)
  /\ Did("up")
  /\ UNCHANGED <<inputs, runtime, script, gateway>>

\* docker compose --env-file runtime/.env up -d: containers whose environment
\* changed are made anew. The gateway's has none of the rendered values in it:
\* it is made once, when the adapter is healthy, and then left alone.
Up ==
  /\ \E file \in compose_env :
       /\ aggregator' = {[chain |-> file.chain, verifier |-> file.verifier,
                          signer |-> file.signer]}
       /\ adapter' = {file.studio_key}
  /\ gateway_made' = (gateway_made \/ healthy)
  /\ Did("up")
  /\ UNCHANGED <<inputs, runtime, script, gateway>>

\* The gateway's process starts, for the first time or again ("unless-stopped"),
\* when it can read its file.
StartGateway ==
  /\ gateway_made
  /\ gateway = {}
  /\ gateway' = {g \in gateway_json : /\ parse_chain_id(g.chain_id) # {}
                                      /\ g.subgraph_service.name # Blank}
  /\ gateway' # {}
  /\ Did("restart")
  /\ UNCHANGED <<inputs, runtime, script, adapter, gateway_made, aggregator>>

\* It ends: docker compose restart gateway, a crash, a reboot.
StopGateway ==
  /\ gateway # {}
  /\ gateway' = {}
  /\ UNCHANGED <<inputs, runtime, script, adapter, gateway_made, aggregator, done>>

\* docker compose down: the containers are gone.
Down ==
  /\ adapter' = {}
  /\ gateway_made' = FALSE
  /\ gateway' = {}
  /\ aggregator' = {}
  /\ UNCHANGED <<inputs, runtime, script, done>>

-----------------------------------------------------------------------------
Operator == EditEnv \/ FetchAddresses \/ (\E name \in Names : GenKey(name) \/ RemoveKey(name))
Render == Load \/ WriteGatewayJson \/ WriteEscrowJson \/ Validate \/ WriteComposeEnv
            \/ Interrupt
Compose == Up \/ StartGateway \/ StopGateway \/ Down

DeploymentNext == Operator \/ Render \/ Compose

DeploymentSpec == Init /\ [][DeploymentNext]_deployment
-----------------------------------------------------------------------------
(***************************************************************************)
(* Properties.                                                              *)
(***************************************************************************)
Key == Nat \ {0}

\* The pairs of collector and service a fetch may write.
Pairs == {PairOf(Fields(chain, books)) : chain \in Chains, books \in Books}

TypeOK ==
  /\ secrets \in [Names -> Int]
  /\ wallets \in Nat
  /\ env \in Envs
  /\ Cardinality(addresses) <= 1
  /\ Cardinality(gateway_json) <= 1
  /\ Cardinality(escrow_json) <= 1
  /\ Cardinality(compose_env) <= 1
  /\ script.pc \in {"idle", "gateway", "escrow", "validate", "compose"}
  /\ adapter \in {{}, {TRUE}, {FALSE}}
  /\ gateway_made \in BOOLEAN
  /\ Cardinality(gateway) <= 1
  /\ Cardinality(aggregator) <= 1
  /\ changes \in 0 .. MaxChanges
  /\ removed \subseteq Names \X Int
  /\ fetches \subseteq Pairs
  /\ done \subseteq {"render", "clean", "up", "restart"}

\* The keys rendered files and services hold, with the file each came from.
KeysInUse ==
  {<<"signer", f.signer>> : f \in gateway_json \union compose_env \union gateway
                                    \union aggregator \union escrow_json}
    \union {<<"sender", f.secret_key>> : f \in escrow_json}

\* No script loses a key: whatever is generated, rendered or interrupted, a key
\* that a rendered file or a service holds is a key, and is still in the file it
\* came from unless the operator removed it there.
KeysKept ==
  \A used \in KeysInUse :
    used[2] \in Key /\ (secrets[used[1]] = used[2] \/ used \in removed)

\* A gateway that runs has its collector and its subgraph service from one run of
\* fetch-addresses.sh: never one address of an earlier fetch and one of a later,
\* whatever was fetched, cut short, rendered and interrupted between the two. (The
\* two books one fetch reads may still be of different versions.)
OneFetch ==
  \A g \in gateway : <<g.verifier.name, g.subgraph_service.name>> \in fetches

\* When render.sh reports success the three files hold the same signer, and, if
\* its inputs did not change while it ran, the same chain and collector.
RenderAgrees ==
  "render" \in done =>
    \E g \in gateway_json, e \in escrow_json, c \in compose_env :
      /\ g.signer = c.signer /\ e.signer = c.signer
      /\ "clean" \in done => /\ g.chain_id = c.chain
                             /\ g.verifier = c.verifier
                             /\ e.collector = c.verifier

\* A render that succeeded undisturbed, and after it, in any order, `up -d` and a
\* start of the gateway.
Settled == {"render", "clean", "up", "restart"} \subseteq done

\* Then the gateway and the aggregator work with the same signer, chain and
\* collector, whatever was rendered, interrupted, restarted or rotated before and
\* however the steps interleaved.
SettlesInAgreement ==
  Settled => \A g \in gateway, a \in aggregator :
               /\ g.signer = a.signer
               /\ g.chain_id = a.chain
               /\ g.verifier = a.verifier
=============================================================================
