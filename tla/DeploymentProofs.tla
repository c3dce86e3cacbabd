-------------------------- MODULE DeploymentProofs --------------------------
(***************************************************************************)
(* Theorems about Deployment, for every .env, address book and bound.       *)
(***************************************************************************)
EXTENDS Deployment, FiniteSetTheorems, TLAPS

-----------------------------------------------------------------------------
(***************************************************************************)
(* render.sh, and the other actions beside it.                              *)
(***************************************************************************)
ScriptShape ==
  script = [pc |-> script.pc, loaded |-> script.loaded, clean |-> script.clean]

\* The actions that leave the rendered files and the services alone.
Quiet == \/ EditEnv \/ FetchAddresses \/ (\E name \in Names : GenKey(name) \/ RemoveKey(name))
         \/ UNCHANGED deployment

LEMMA NextSplit ==
  [DeploymentNext]_deployment =>
    \/ Quiet \/ Load \/ WriteGatewayJson \/ WriteEscrowJson \/ Validate
    \/ WriteComposeEnv \/ Interrupt \/ Up \/ StartGateway \/ StopGateway \/ Down
  BY DEF DeploymentNext, Operator, Render, Compose, Quiet

LEMMA QuietLemma ==
  Quiet => /\ UNCHANGED <<runtime, services, done>>
           /\ script' = script \/ Disturb
  BY DEF Quiet, EditEnv, FetchAddresses, GenKey, RemoveKey, deployment, runtime, services

\* A step of the script changes where it stands, and nothing of what it loaded.
LEMMA AtLemma ==
  ASSUME ScriptShape, NEW p, NEW q, At(p, q)
  PROVE  script.pc = p /\ script' = [pc |-> q, loaded |-> script.loaded, clean |-> script.clean]
  BY DEF ScriptShape, At

LEMMA DisturbLemma ==
  ASSUME ScriptShape, Disturb
  PROVE  script' = [pc |-> script.pc, loaded |-> script.loaded, clean |-> FALSE]
  BY DEF ScriptShape, Disturb

LEMMA IdleLemma == Idle.pc = "idle" /\ Idle.loaded = {} /\ Idle.clean = FALSE
  BY DEF Idle

LEMMA ShapeNext ==
  ASSUME ScriptShape, [DeploymentNext]_deployment
  PROVE  /\ ScriptShape'
         /\ Load \/ script'.loaded = script.loaded \/ script'.loaded = {}
<1>1. CASE script' = script
  BY <1>1 DEF ScriptShape
<1>2. CASE Disturb
  BY <1>2, DisturbLemma DEF ScriptShape
<1>3. CASE script' = Idle
  BY <1>3, IdleLemma DEF ScriptShape, Idle
<1>4. CASE \E p, q : At(p, q)
  <2>1. PICK p, q : At(p, q)
    BY <1>4
  <2> QED
    BY <2>1, AtLemma DEF ScriptShape
<1>5. CASE Load
  BY <1>5 DEF Load, ScriptShape
<1>6. CASE Quiet
  BY <1>1, <1>2, <1>6, QuietLemma
<1> QED
  BY <1>1, <1>3, <1>4, <1>5, <1>6, NextSplit DEF WriteGatewayJson, WriteEscrowJson,
     Validate, WriteComposeEnv, Interrupt, Up, StartGateway, StopGateway, Down

-----------------------------------------------------------------------------
(***************************************************************************)
(* Keys.                                                                    *)
(***************************************************************************)
\* A key is where it came from, or the operator removed it.
Kept(name, key) ==
  key \in Key /\ (secrets[name] = key \/ <<name, key>> \in removed)

\* KeysKept, file by file.
KeysHeld ==
  /\ \A f \in gateway_json \union compose_env \union gateway \union aggregator
               \union escrow_json : Kept("signer", f.signer)
  /\ \A f \in escrow_json : Kept("sender", f.secret_key)

\* What makes it inductive: the keys render.sh loaded are kept, too, for it writes
\* them after the operator may have removed them.
KeyInv ==
  /\ wallets \in Nat
  /\ secrets \in [Names -> Nat \union {Bad}]
  /\ ScriptShape
  /\ \A v \in script.loaded, name \in Names : Kept(name, v.keys[name])
  /\ KeysHeld

\* An action that keeps secrets, or changes them as the scripts and the operator
\* do, keeps every key that was kept.
LEMMA KeptLemma ==
  ASSUME KeyInv, [DeploymentNext]_deployment
  PROVE  \A name \in Names : \A key : Kept(name, key) => Kept(name, key)'
<1>1. CASE UNCHANGED <<secrets, removed>>
  BY <1>1 DEF Kept
<1>2. ASSUME NEW n \in Names, GenKey(n)
      PROVE  \A name \in Names : \A key : Kept(name, key) => Kept(name, key)'
  <2>1. secrets[n] = Absent /\ removed' = removed
        /\ \E k : secrets' = [secrets EXCEPT ![n] = k]
    BY <1>2 DEF GenKey
  <2>2. \A name \in Names : \A key : Kept(name, key) /\ secrets[name] = key => name # n
    BY <2>1 DEF Kept, Key, Absent
  <2> QED
    BY <2>1, <2>2 DEF Kept, KeyInv
<1>3. ASSUME NEW n \in Names, RemoveKey(n)
      PROVE  \A name \in Names : \A key : Kept(name, key) => Kept(name, key)'
  <2>1. /\ removed' = removed \union {<<n, secrets[n]>>}
        /\ secrets' = [secrets EXCEPT ![n] = Absent]
    BY <1>3 DEF RemoveKey
  <2> QED
    BY <2>1 DEF Kept, KeyInv
<1> QED
  BY <1>1, <1>2, <1>3 DEF DeploymentNext, Operator, Render, Compose, EditEnv,
     FetchAddresses, Load, WriteGatewayJson, WriteEscrowJson, Validate,
     WriteComposeEnv, Interrupt, Up, StartGateway, StopGateway, Down, deployment, inputs

\* Every action makes its files of these keys.
LEMMA KeyNext == KeyInv /\ [DeploymentNext]_deployment => KeyInv'
<1> SUFFICES ASSUME KeyInv, [DeploymentNext]_deployment
             PROVE  KeyInv'
  OBVIOUS
<1>1. \A name \in Names : \A key : Kept(name, key) => Kept(name, key)'
  BY KeptLemma
<1>2. /\ \A f \in gateway_json \union compose_env \union gateway \union aggregator
                  \union escrow_json : Kept("signer", f.signer)'
      /\ \A f \in escrow_json : Kept("sender", f.secret_key)'
      /\ \A v \in script.loaded : Kept("signer", v.keys["signer"])'
                                /\ Kept("sender", v.keys["sender"])'
  BY <1>1 DEF KeyInv, KeysHeld, Names
<1>3. wallets' \in Nat /\ secrets' \in [Names -> Nat \union {Bad}]
  <2>1. CASE UNCHANGED <<secrets, wallets>>
    BY <2>1 DEF KeyInv
  <2>2. CASE \E name \in Names : GenKey(name) \/ RemoveKey(name)
    BY <2>2 DEF GenKey, RemoveKey, KeyInv, Absent
  <2> QED
    BY <2>1, <2>2 DEF DeploymentNext, Operator, Render, Compose, EditEnv,
       FetchAddresses, Load, WriteGatewayJson, WriteEscrowJson, Validate,
       WriteComposeEnv, Interrupt, Up, StartGateway, StopGateway, Down, deployment, inputs
<1>4. ScriptShape' /\ \A v \in script'.loaded, name \in Names : Kept(name, v.keys[name])'
  <2>1. CASE Load
    <3>1. /\ \A v \in script'.loaded : v.keys = secrets
          /\ \A name \in Names : secrets[name] \notin {Absent, Bad}
          /\ UNCHANGED <<secrets, removed>>
      BY <2>1 DEF Load, inputs
    <3>2. \A name \in Names : secrets[name] \in Key
      BY <3>1 DEF KeyInv, Key, Absent
    <3>3. ScriptShape'
      BY ShapeNext DEF KeyInv
    <3> QED
      BY <3>1, <3>2, <3>3 DEF Kept
  <2>2. CASE ~ Load
    BY <1>2, <2>2, ShapeNext DEF KeyInv, Names
  <2> QED
    BY <2>1, <2>2
<1>5. KeysHeld'
  <2>1. CASE Quiet \/ Load \/ Validate
    <3>1. UNCHANGED <<runtime, services>>
      BY <2>1, QuietLemma DEF Load, Validate
    <3> QED
      BY <1>2, <3>1 DEF KeysHeld, runtime, services
  <2>2. CASE WriteGatewayJson
    <3>1. \A f \in gateway_json' : \E v \in script.loaded : f.signer = v.keys["signer"]
      BY <2>2 DEF WriteGatewayJson, GatewayJson
    <3> QED
      BY <1>2, <2>2, <3>1 DEF WriteGatewayJson, services, KeysHeld
  <2>3. CASE WriteEscrowJson
    <3>1. \A f \in escrow_json' : \E v \in script.loaded :
            f.signer = v.keys["signer"] /\ f.secret_key = v.keys["sender"]
      BY <2>3 DEF WriteEscrowJson, EscrowJson
    <3> QED
      BY <1>2, <2>3, <3>1 DEF WriteEscrowJson, services, KeysHeld
  <2>4. CASE WriteComposeEnv
    <3>1. \A f \in compose_env' : \E v \in script.loaded : f.signer = v.keys["signer"]
      BY <2>4 DEF WriteComposeEnv
    <3> QED
      BY <1>2, <2>4, <3>1 DEF WriteComposeEnv, services, KeysHeld
  <2>5. CASE Interrupt
    <3>1. /\ gateway_json' \subseteq gateway_json
          /\ escrow_json' \subseteq escrow_json
          /\ compose_env' \subseteq compose_env
      BY <2>5 DEF Interrupt
    <3> QED
      BY <1>2, <2>5, <3>1 DEF Interrupt, services, KeysHeld
  <2>6. CASE Up
    <3>1. \A a \in aggregator' : \E f \in compose_env : a.signer = f.signer
      BY <2>6 DEF Up
    <3> QED
      BY <1>2, <2>6, <3>1 DEF Up, runtime, KeysHeld
  <2>7. CASE StartGateway \/ StopGateway \/ Down
    <3>1. /\ UNCHANGED runtime
          /\ gateway' \subseteq gateway_json
          /\ aggregator' \subseteq aggregator
      BY <2>7 DEF StartGateway, StopGateway, Down
    <3> QED
      BY <1>2, <3>1 DEF runtime, KeysHeld
  <2> QED
    BY <2>1, <2>2, <2>3, <2>4, <2>5, <2>6, <2>7, NextSplit
<1> QED
  BY <1>3, <1>4, <1>5 DEF KeyInv, Kept

LEMMA KeyInit == Init => KeyInv
<1> SUFFICES ASSUME Init PROVE KeyInv
  OBVIOUS
<1>1. ScriptShape /\ script.loaded = {}
  BY DEF Init, ScriptShape, Idle
<1>2. KeysHeld
  BY DEF Init, KeysHeld
<1>3. wallets \in Nat /\ secrets \in [Names -> Nat \union {Bad}]
  BY DEF Init, Absent
<1> QED
  BY <1>1, <1>2, <1>3 DEF KeyInv

\* No script loses a key, whatever is generated, rendered, interrupted and deleted.
THEOREM KeysTheorem == DeploymentSpec => []KeysKept
<1>1. KeyInv => KeysKept
  BY DEF KeyInv, KeysHeld, Kept, KeysKept, KeysInUse
<1> QED
  BY <1>1, KeyInit, KeyNext, PTL DEF DeploymentSpec

-----------------------------------------------------------------------------
(***************************************************************************)
(* Agreement.                                                               *)
(***************************************************************************)
\* While render.sh runs nothing counts as done, and what it wrote is what it
\* loaded; undisturbed, .env and addresses.env are still what it loaded.
Rendering ==
  /\ ScriptShape
  /\ \A a, b \in addresses : a = b
  /\ script.pc # "idle" => done = {} /\ \E v : script.loaded = {v}
  /\ script.clean => \A v \in script.loaded : env = v.env /\ addresses = {v.book}
  /\ script.pc \in {"escrow", "validate", "compose"} =>
       gateway_json = UNION {GatewayJson(v) : v \in script.loaded}
  /\ script.pc \in {"validate", "compose"} =>
       escrow_json = UNION {EscrowJson(v) : v \in script.loaded}
  /\ script.pc = "compose" => gateway_json # {} /\ escrow_json # {}

\* After a render the three files are there and agree.
Rendered ==
  "render" \in done =>
    /\ gateway_json # {} /\ escrow_json # {} /\ compose_env # {}
    /\ \A g \in gateway_json, e \in escrow_json, c \in compose_env :
         /\ g.signer = c.signer /\ e.signer = c.signer
         /\ "clean" \in done => /\ g.chain_id = c.chain
                                /\ g.verifier = c.verifier
                                /\ e.collector = c.verifier

\* After `up -d` the aggregator, and after a start the gateway, is from these files.
Deployed ==
  /\ "up" \in done =>
       \A a \in aggregator : \E c \in compose_env :
         a.chain = c.chain /\ a.verifier = c.verifier /\ a.signer = c.signer
  /\ "restart" \in done => gateway \subseteq gateway_json

AgreeInv == Rendering /\ Rendered /\ Deployed

LEMMA AgreeInit == Init => AgreeInv
  BY DEF Init, AgreeInv, Rendering, Rendered, Deployed, ScriptShape, Idle

\* A step of Compose, or of nothing but the script, adds to what was done only
\* after a render.
LEMMA DidLemma ==
  ASSUME NEW step, Did(step)
  PROVE  /\ done = {} => done' = {}
         /\ \A d : d \in done' => d \in done \/ d = step
         /\ done' # {} => done # {}
  BY DEF Did

LEMMA RenderingNext == AgreeInv /\ [DeploymentNext]_deployment => Rendering'
<1> SUFFICES ASSUME AgreeInv, [DeploymentNext]_deployment
             PROVE  Rendering'
  OBVIOUS
<1>1. ScriptShape'
  BY ShapeNext DEF AgreeInv, Rendering
<1>2. CASE /\ script' = script
           /\ UNCHANGED <<env, addresses, gateway_json, escrow_json>>
           /\ done = {} => done' = {}
  BY <1>2 DEF AgreeInv, Rendering, ScriptShape
<1>3. CASE /\ Disturb
           /\ UNCHANGED <<gateway_json, escrow_json, done>>
           /\ \A a, b \in addresses' : a = b
  <2>1. script' = [pc |-> script.pc, loaded |-> script.loaded, clean |-> FALSE]
    BY <1>3, DisturbLemma DEF AgreeInv, Rendering
  <2> QED
    BY <1>1, <1>3, <2>1 DEF AgreeInv, Rendering
<1>4. CASE script' = Idle /\ addresses' = addresses
  BY <1>1, <1>4 DEF AgreeInv, Rendering, Idle
<1>5. CASE Load
  <2>1. PICK book \in addresses :
          script' = [pc |-> "gateway", clean |-> TRUE,
                     loaded |-> {[env |-> env, book |-> book, keys |-> secrets]}]
    BY <1>5 DEF Load
  <2>2. done' = {} /\ UNCHANGED <<env, addresses>>
    BY <1>5 DEF Load, inputs
  <2>3. addresses = {book}
    BY <2>1 DEF AgreeInv, Rendering
  <2> DEFINE v == [env |-> env, book |-> book, keys |-> secrets]
  <2>4. script'.pc = "gateway" /\ script'.loaded = {v}
        /\ v.env = env /\ v.book = book
    BY <2>1
  <2> HIDE DEF v
  <2> QED
    BY <1>1, <2>2, <2>3, <2>4 DEF Rendering
<1>6. CASE WriteGatewayJson
  <2>1. script.pc = "gateway"
        /\ script' = [pc |-> "escrow", loaded |-> script.loaded, clean |-> script.clean]
    BY <1>6, AtLemma DEF WriteGatewayJson, AgreeInv, Rendering
  <2>2. gateway_json' = UNION {GatewayJson(v) : v \in script.loaded}
        /\ UNCHANGED <<env, addresses, done>>
    BY <1>6 DEF WriteGatewayJson, inputs
  <2> QED
    BY <1>1, <2>1, <2>2 DEF AgreeInv, Rendering
<1>7. CASE WriteEscrowJson
  <2>1. script.pc = "escrow"
        /\ script' = [pc |-> "validate", loaded |-> script.loaded, clean |-> script.clean]
    BY <1>7, AtLemma DEF WriteEscrowJson, AgreeInv, Rendering
  <2>2. escrow_json' = UNION {EscrowJson(v) : v \in script.loaded}
        /\ UNCHANGED <<env, addresses, gateway_json, done>>
    BY <1>7 DEF WriteEscrowJson, inputs
  <2> QED
    BY <1>1, <2>1, <2>2 DEF AgreeInv, Rendering
<1>8. CASE Validate
  <2>1. script.pc = "validate"
        /\ script' = [pc |-> "compose", loaded |-> script.loaded, clean |-> script.clean]
    BY <1>8, AtLemma DEF Validate, AgreeInv, Rendering
  <2>2. gateway_json # {} /\ escrow_json # {}
        /\ UNCHANGED <<env, addresses, gateway_json, escrow_json, done>>
    BY <1>8 DEF Validate, inputs, runtime
  <2> QED
    BY <1>1, <2>1, <2>2 DEF AgreeInv, Rendering
<1>9. CASE Quiet
  <2>1. UNCHANGED <<gateway_json, escrow_json, done>>
    BY <1>9, QuietLemma DEF runtime
  <2>2. \/ Disturb /\ (addresses' = addresses \/ \E book : addresses' = {book})
        \/ script' = script /\ UNCHANGED <<env, addresses>>
    BY <1>9 DEF Quiet, EditEnv, FetchAddresses, GenKey, RemoveKey, deployment, inputs
  <2>3. \A a, b \in addresses : a = b
    BY DEF AgreeInv, Rendering
  <2> QED
    BY <1>2, <1>3, <2>1, <2>2, <2>3
<1>10. CASE Up \/ StartGateway \/ StopGateway \/ Down
  BY <1>2, <1>10, DidLemma DEF Up, StartGateway, StopGateway, Down, inputs, runtime
<1> QED
  BY <1>4, <1>5, <1>6, <1>7, <1>8, <1>9, <1>10, NextSplit DEF WriteComposeEnv, Interrupt,
     inputs

LEMMA RenderedNext == AgreeInv /\ [DeploymentNext]_deployment => Rendered' /\ Deployed'
<1> SUFFICES ASSUME AgreeInv, [DeploymentNext]_deployment
             PROVE  Rendered' /\ Deployed'
  OBVIOUS
<1>1. CASE done' = {}
  BY <1>1 DEF Rendered, Deployed
<1>2. CASE Load \/ WriteGatewayJson \/ WriteEscrowJson \/ Validate \/ Interrupt
  <2>1. CASE Load
    BY <1>1, <2>1 DEF Load
  <2>2. ASSUME NEW p, NEW q, At(p, q), p # "idle", done' = done
        PROVE  done' = {}
    BY <2>2 DEF At, AgreeInv, Rendering
  <2>3. CASE Interrupt
    BY <1>1, <2>3 DEF Interrupt, AgreeInv, Rendering
  <2> QED
    BY <1>1, <1>2, <2>1, <2>2, <2>3 DEF WriteGatewayJson, WriteEscrowJson, Validate
<1>3. CASE WriteComposeEnv
  <2>1. /\ script.pc = "compose"
        /\ UNCHANGED <<gateway_json, escrow_json>>
        /\ \A c \in compose_env' : \E v \in script.loaded, book \in addresses :
             /\ c.chain = env.chain
             /\ c.verifier = Entry(book, COLLECTOR)
             /\ c.signer = v.keys["signer"]
        /\ done' = IF compose_env' = {} THEN {}
                   ELSE {"render"} \union (IF script.clean THEN {"clean"} ELSE {})
    BY <1>3 DEF WriteComposeEnv
  <2>2. PICK v : script.loaded = {v}
    BY <2>1 DEF AgreeInv, Rendering
  <2>3. gateway_json = GatewayJson(v) /\ escrow_json = EscrowJson(v)
        /\ gateway_json # {} /\ escrow_json # {}
    <3>1. /\ gateway_json = UNION {GatewayJson(w) : w \in {v}}
          /\ escrow_json = UNION {EscrowJson(w) : w \in {v}}
          /\ gateway_json # {} /\ escrow_json # {}
      BY <2>1, <2>2 DEF AgreeInv, Rendering
    <3>2. /\ UNION {GatewayJson(w) : w \in {v}} = GatewayJson(v)
          /\ UNION {EscrowJson(w) : w \in {v}} = EscrowJson(v)
      OBVIOUS
    <3> QED
      BY <3>1, <3>2
  <2>4. /\ \A g \in gateway_json : /\ g.signer = v.keys["signer"]
                                   /\ g.chain_id = v.env.chain
                                   /\ g.verifier = Entry(v.book, COLLECTOR)
        /\ \A e \in escrow_json : /\ e.signer = v.keys["signer"]
                                  /\ e.collector = Entry(v.book, COLLECTOR)
    BY <2>3 DEF GatewayJson, EscrowJson
  <2>5. script.clean => env = v.env /\ addresses = {v.book}
    BY <2>2 DEF AgreeInv, Rendering
  <2>6. ASSUME NEW c \in compose_env'
        PROVE  /\ c.signer = v.keys["signer"]
               /\ script.clean => /\ c.chain = v.env.chain
                                  /\ c.verifier = Entry(v.book, COLLECTOR)
    <3>1. PICK w \in script.loaded, book \in addresses :
            /\ c.chain = env.chain
            /\ c.verifier = Entry(book, COLLECTOR)
            /\ c.signer = w.keys["signer"]
      BY <2>1
    <3>2. w = v
      BY <2>2
    <3>3. script.clean => env = v.env /\ book = v.book
      BY <2>5
    <3> QED
      BY <3>1, <3>2, <3>3
  <2>7. "clean" \in done' => script.clean
    BY <2>1
  <2>8. "render" \in done' => compose_env' # {}
    BY <2>1
  <2>9. "up" \notin done' /\ "restart" \notin done'
    BY <2>1
  <2>10. ASSUME NEW g \in gateway_json, NEW e \in escrow_json, NEW c \in compose_env'
         PROVE  /\ g.signer = c.signer /\ e.signer = c.signer
                /\ "clean" \in done' => /\ g.chain_id = c.chain
                                        /\ g.verifier = c.verifier
                                        /\ e.collector = c.verifier
    <3>1. /\ g.signer = v.keys["signer"]
          /\ g.chain_id = v.env.chain
          /\ g.verifier = Entry(v.book, COLLECTOR)
      BY <2>4
    <3>2. e.signer = v.keys["signer"] /\ e.collector = Entry(v.book, COLLECTOR)
      BY <2>4
    <3>3. c.signer = v.keys["signer"]
      BY <2>6
    <3>4. "clean" \in done' => /\ c.chain = v.env.chain
                              /\ c.verifier = Entry(v.book, COLLECTOR)
      BY <2>6, <2>7
    <3> QED
      BY <3>1, <3>2, <3>3, <3>4
  <2>11. gateway_json' = gateway_json /\ escrow_json' = escrow_json
    BY <2>1
  <2>12. Rendered'
    BY <2>3, <2>8, <2>10, <2>11 DEF Rendered
  <2> QED
    BY <2>9, <2>12 DEF Deployed
<1>4. CASE Quiet
  BY <1>4, QuietLemma DEF AgreeInv, Rendered, Deployed, runtime, services
<1>5. CASE Up
  <2>1. /\ UNCHANGED <<gateway_json, escrow_json, compose_env, gateway>>
        /\ \A a \in aggregator' : \E c \in compose_env :
             a.chain = c.chain /\ a.verifier = c.verifier /\ a.signer = c.signer
        /\ Did("up")
    BY <1>5 DEF Up, runtime
  <2> QED
    BY <2>1, DidLemma DEF AgreeInv, Rendered, Deployed
<1>6. CASE StartGateway
  <2>1. /\ UNCHANGED <<gateway_json, escrow_json, compose_env, aggregator>>
        /\ gateway' \subseteq gateway_json
        /\ Did("restart")
    BY <1>6 DEF StartGateway, runtime
  <2> QED
    BY <2>1, DidLemma DEF AgreeInv, Rendered, Deployed
<1>7. CASE StopGateway \/ Down
  <2>1. /\ UNCHANGED <<gateway_json, escrow_json, compose_env, done>>
        /\ gateway' = {}
        /\ aggregator' = aggregator \/ aggregator' = {}
    BY <1>7 DEF StopGateway, Down, runtime
  <2> QED
    BY <2>1 DEF AgreeInv, Rendered, Deployed
<1> QED
  BY <1>2, <1>3, <1>4, <1>5, <1>6, <1>7, NextSplit

LEMMA AgreeInvariance == DeploymentSpec => []AgreeInv
  BY AgreeInit, RenderingNext, RenderedNext, PTL DEF AgreeInv, DeploymentSpec

\* When render.sh has reported success the files it wrote agree.
THEOREM RenderTheorem == DeploymentSpec => []RenderAgrees
<1>1. AgreeInv => RenderAgrees
  BY DEF AgreeInv, Rendered, RenderAgrees
<1> QED
  BY <1>1, AgreeInvariance, PTL

\* After an undisturbed render, an `up -d` and a start of the gateway, in any order
\* and over anything that was done before, gateway and aggregator agree.
THEOREM SettlesTheorem == DeploymentSpec => []SettlesInAgreement
<1>1. AgreeInv => SettlesInAgreement
  BY DEF AgreeInv, Rendered, Deployed, SettlesInAgreement, Settled
<1> QED
  BY <1>1, AgreeInvariance, PTL
-----------------------------------------------------------------------------
(***************************************************************************)
(* One fetch.                                                               *)
(***************************************************************************)
\* What one fetch wrote: a collector, and the service it wrote with it unless it was
\* cut short before.
OfOneFetch(collector, service) ==
  collector # Blank /\ (service # Blank => <<collector, service>> \in fetches)

\* Along the way of the addresses, from the file through render.sh to the gateway,
\* which starts only with a subgraph service; render.sh lets a file without one pass,
\* but none without a collector.
FetchInv ==
  /\ ScriptShape
  /\ \A book \in addresses : COLLECTOR \in DOMAIN book =>
       OfOneFetch(Entry(book, COLLECTOR).name, Entry(book, SERVICE).name)
  /\ \A v \in script.loaded :
       OfOneFetch(Entry(v.book, COLLECTOR).name, Entry(v.book, SERVICE).name)
  /\ \A g \in gateway_json : OfOneFetch(g.verifier.name, g.subgraph_service.name)
  /\ OneFetch
  /\ fetches \subseteq Pairs

LEMMA NoEntry ==
  ASSUME NEW book, NEW key, key \notin DOMAIN book
  PROVE  Entry(book, key).name = Blank
  BY DEF Entry

LEMMA FieldNames ==
  ASSUME NEW chain, NEW books, NEW key \in {GRT, COLLECTOR, SERVICE}
  PROVE  Fields(chain, books)[key].name # Blank
<1>1. \A version : Address(key, chain, version).name = <<key, chain, version>>
  BY DEF Address
<1>2. \A version : <<key, chain, version>> # << >>
  OBVIOUS
<1>3. \E version : Fields(chain, books)[key] = Address(key, chain, version)
  BY DEF Fields
<1> QED
  BY <1>1, <1>2, <1>3 DEF Blank

\* A fetch leaves what earlier ones wrote known, and writes what it takes.
LEMMA FetchLemma ==
  ASSUME FetchAddresses
  PROVE  /\ fetches \subseteq fetches'
         /\ \A book \in addresses' : COLLECTOR \in DOMAIN book =>
              OfOneFetch(Entry(book, COLLECTOR).name, Entry(book, SERVICE).name)'
         /\ \E chain \in Chains, books \in Books :
              fetches' \subseteq fetches \union {PairOf(Fields(chain, books))}
<1>1. PICK chain \in Chains, books \in Books,
           written \in {{}, {GRT}, {GRT, COLLECTOR}, {GRT, COLLECTOR, SERVICE}} :
        /\ addresses' = {[key \in written |-> Fields(chain, books)[key]]}
        /\ Fetch(written, Fields(chain, books))
  BY DEF FetchAddresses
<1> DEFINE fields == Fields(chain, books)
           file == [key \in written |-> fields[key]]
<1>2. fetches' = IF SERVICE \in written THEN fetches \union {PairOf(fields)} ELSE fetches
  BY <1>1 DEF Fetch, PairOf
<1>3. /\ fields[COLLECTOR].name # Blank
  BY FieldNames
<1> HIDE DEF fields
<1>4. COLLECTOR # SERVICE /\ COLLECTOR # GRT /\ SERVICE # GRT
  BY DEF COLLECTOR, SERVICE, GRT
<1>5. ASSUME COLLECTOR \in written
      PROVE  OfOneFetch(Entry(file, COLLECTOR).name, Entry(file, SERVICE).name)'
  <2>1. Entry(file, COLLECTOR) = fields[COLLECTOR]
    BY <1>5 DEF Entry
  <2>2. CASE SERVICE \in written
    <3>1. Entry(file, SERVICE) = fields[SERVICE]
      BY <2>2 DEF Entry
    <3>2. <<fields[COLLECTOR].name, fields[SERVICE].name>> \in fetches'
      BY <1>2, <2>2 DEF PairOf
    <3> HIDE DEF file
    <3> QED
      BY <1>3, <2>1, <3>1, <3>2 DEF OfOneFetch
  <2>3. CASE SERVICE \notin written
    <3>1. Entry(file, SERVICE).name = Blank
      BY <2>3, NoEntry
    <3> HIDE DEF file
    <3> QED
      BY <1>3, <2>1, <3>1 DEF OfOneFetch
  <2> QED
    BY <2>2, <2>3
<1>6. addresses' = {file} /\ DOMAIN file = written
  BY <1>1 DEF fields
<1> HIDE DEF file
<1>7. fetches \subseteq fetches' /\ fetches' \subseteq fetches \union {PairOf(fields)}
  BY <1>2
<1> QED
  BY <1>5, <1>6, <1>7 DEF fields

LEMMA FetchesGrow == [DeploymentNext]_deployment => fetches \subseteq fetches'
  BY FetchLemma DEF DeploymentNext, Operator, Render, Compose, EditEnv, GenKey, RemoveKey, Load,
     WriteGatewayJson, WriteEscrowJson, Validate, WriteComposeEnv, Interrupt, Up, StartGateway,
     StopGateway, Down, deployment, inputs

LEMMA FetchNext == FetchInv /\ [DeploymentNext]_deployment => FetchInv'
<1> SUFFICES ASSUME FetchInv, [DeploymentNext]_deployment
             PROVE  FetchInv'
  OBVIOUS
<1>0. \A collector, service :
        OfOneFetch(collector, service) => OfOneFetch(collector, service)'
  BY FetchesGrow DEF OfOneFetch
<1>1. /\ \A book \in addresses' : COLLECTOR \in DOMAIN book =>
           OfOneFetch(Entry(book, COLLECTOR).name, Entry(book, SERVICE).name)'
      /\ fetches' \subseteq Pairs
  <2>1. CASE UNCHANGED <<addresses, fetches>>
    BY <1>0, <2>1 DEF FetchInv
  <2>2. CASE FetchAddresses
    <3>1. PICK chain \in Chains, books \in Books :
            fetches' \subseteq fetches \union {PairOf(Fields(chain, books))}
      BY <2>2, FetchLemma
    <3>2. fetches \subseteq Pairs
      BY DEF FetchInv
    <3>3. fetches' \subseteq Pairs
      BY <3>1, <3>2 DEF Pairs
    <3> QED
      BY <2>2, <3>3, FetchLemma
  <2> QED
    BY <2>1, <2>2 DEF DeploymentNext, Operator, Render, Compose, EditEnv, GenKey,
       RemoveKey, Load, WriteGatewayJson, WriteEscrowJson, Validate, WriteComposeEnv,
       Interrupt, Up, StartGateway, StopGateway, Down, deployment, inputs
<1>2. /\ ScriptShape'
      /\ \A v \in script'.loaded :
           OfOneFetch(Entry(v.book, COLLECTOR).name, Entry(v.book, SERVICE).name)'
  <2>1. CASE Load
    <3>1. \A v \in script'.loaded : v.book \in addresses
                                  /\ Entry(v.book, COLLECTOR).name # Blank
      BY <2>1 DEF Load
    <3>2. \A v \in script'.loaded : COLLECTOR \in DOMAIN v.book
      BY <3>1, NoEntry
    <3>3. \A v \in script'.loaded :
            OfOneFetch(Entry(v.book, COLLECTOR).name, Entry(v.book, SERVICE).name)
      BY <3>1, <3>2 DEF FetchInv
    <3> QED
      BY <1>0, <3>3, ShapeNext DEF FetchInv
  <2>2. CASE script'.loaded \subseteq script.loaded
    BY <1>0, <2>2, ShapeNext DEF FetchInv
  <2> QED
    BY <2>1, <2>2, ShapeNext DEF FetchInv
<1>3. \A g \in gateway_json' : OfOneFetch(g.verifier.name, g.subgraph_service.name)'
  <2>1. CASE gateway_json' \subseteq gateway_json
    BY <1>0, <2>1 DEF FetchInv
  <2>2. CASE WriteGatewayJson
    <3>1. \A g \in gateway_json' : \E v \in script.loaded :
            /\ g.verifier = Entry(v.book, COLLECTOR)
            /\ g.subgraph_service = Entry(v.book, SERVICE)
      BY <2>2 DEF WriteGatewayJson, GatewayJson
    <3> QED
      BY <1>0, <3>1 DEF FetchInv
  <2>3. CASE Interrupt
    BY <2>1, <2>3 DEF Interrupt
  <2> QED
    BY <2>1, <2>2, <2>3, NextSplit, QuietLemma DEF Load, WriteEscrowJson, Validate,
       WriteComposeEnv, Up, StartGateway, StopGateway, Down, runtime
<1>4. OneFetch'
  <2>0. fetches \subseteq fetches'
    BY FetchesGrow
  <2>1. CASE gateway' \subseteq gateway
    <3>1. \A g \in gateway : <<g.verifier.name, g.subgraph_service.name>> \in fetches
      BY DEF FetchInv, OneFetch
    <3>2. \A g \in gateway' : <<g.verifier.name, g.subgraph_service.name>> \in fetches'
      BY <2>0, <2>1, <3>1
    <3> QED
      BY <3>2 DEF OneFetch
  <2>2. CASE StartGateway
    <3>1. \A g \in gateway' : g \in gateway_json /\ g.subgraph_service.name # Blank
      BY <2>2 DEF StartGateway
    <3>2. \A g \in gateway' : OfOneFetch(g.verifier.name, g.subgraph_service.name)
      BY <3>1 DEF FetchInv
    <3>3. \A g \in gateway' : <<g.verifier.name, g.subgraph_service.name>> \in fetches
      BY <3>1, <3>2 DEF OfOneFetch
    <3>4. \A g \in gateway' : <<g.verifier.name, g.subgraph_service.name>> \in fetches'
      BY <2>0, <3>3
    <3> QED
      BY <3>4 DEF OneFetch
  <2> QED
    BY <2>1, <2>2, NextSplit, QuietLemma DEF Load, WriteGatewayJson, WriteEscrowJson,
       Validate, WriteComposeEnv, Interrupt, Up, StopGateway, Down, services
<1> QED
  BY <1>1, <1>2, <1>3, <1>4 DEF FetchInv

LEMMA FetchInit == Init => FetchInv
  BY DEF Init, FetchInv, ScriptShape, Idle, OneFetch

LEMMA FetchInvariance == DeploymentSpec => []FetchInv
  BY FetchInit, FetchNext, PTL DEF DeploymentSpec

\* No gateway runs with a collector of one run of fetch-addresses.sh and a subgraph
\* service of another, although fetches that were cut short, renders and restarts may
\* lie between their writing.
THEOREM FetchTheorem == DeploymentSpec => []OneFetch
<1>1. FetchInv => OneFetch
  BY DEF FetchInv
<1> QED
  BY <1>1, FetchInvariance, PTL
-----------------------------------------------------------------------------
(***************************************************************************)
(* Types.                                                                   *)
(***************************************************************************)
Small(S) == S = {} \/ \E x : S = {x}

\* Chain ids as .env writes them.
ChainTexts == [form : {"dec", "hex"}, digits : Seq(0 .. 15)]

\* What render.sh works on: one .env at a time, one step after the other.
ScriptTypes ==
  /\ ScriptShape
  /\ script.pc \in {"idle", "gateway", "escrow", "validate", "compose"}
  /\ Small(script.loaded)
  /\ \A v \in script.loaded : v.env \in Envs

\* Every file is there once or not at all, and what is read of it is well-formed.
FileTypes ==
  /\ Small(addresses)
  /\ Small(gateway_json) /\ \A g \in gateway_json : g.chain_id \in ChainTexts
  /\ Small(escrow_json)
  /\ Small(compose_env)
  /\ \A c \in compose_env : c.chain \in ChainTexts /\ c.studio_key \in BOOLEAN

ServiceTypes ==
  /\ adapter \in {{}, {TRUE}, {FALSE}}
  /\ gateway_made \in BOOLEAN
  /\ Small(gateway) /\ \A g \in gateway : g.chain_id \in ChainTexts
  /\ Small(aggregator) /\ \A a \in aggregator : a.chain \in ChainTexts

InputTypes ==
  /\ env \in Envs
  /\ changes \in 0 .. MaxChanges
  /\ removed \subseteq Names \X Int
  /\ done \subseteq {"render", "clean", "up", "restart"}

TypeInv == KeyInv /\ ScriptTypes /\ FileTypes /\ ServiceTypes /\ InputTypes

LEMMA SmallLemma ==
  /\ \A S, T : Small(S) /\ T \subseteq S => Small(T)
  /\ \A x : Small({x})
  /\ Small({})
  BY DEF Small

LEMMA SmallCardinality == ASSUME NEW S, Small(S) PROVE Cardinality(S) <= 1
<1>1. CASE S = {}
  BY <1>1, FS_EmptySet
<1>2. CASE \E x : S = {x}
  BY <1>2, FS_Singleton
<1> QED
  BY <1>1, <1>2 DEF Small

LEMMA EnvLemma ==
  ASSUME NEW e \in Envs
  PROVE  e.chain \in ChainTexts /\ e.studio_key \in BOOLEAN
  BY EnvAssumption DEF ChainTexts

LEMMA TypeInit == Init => TypeInv
<1> SUFFICES ASSUME Init PROVE TypeInv
  OBVIOUS
<1>1. KeyInv
  BY KeyInit
<1>2. ScriptTypes
  BY SmallLemma DEF Init, ScriptTypes, ScriptShape, Idle
<1>3. FileTypes /\ ServiceTypes
  BY SmallLemma DEF Init, FileTypes, ServiceTypes
<1>4. InputTypes
  BY ChangeAssumption DEF Init, InputTypes
<1> QED
  BY <1>1, <1>2, <1>3, <1>4 DEF TypeInv

LEMMA InputNext == TypeInv /\ [DeploymentNext]_deployment => InputTypes'
<1> SUFFICES ASSUME TypeInv, [DeploymentNext]_deployment PROVE InputTypes'
  OBVIOUS
<1>0. InputTypes /\ secrets \in [Names -> Nat \union {Bad}]
  BY DEF TypeInv, KeyInv
<1>1. env' \in Envs
  BY <1>0 DEF InputTypes, DeploymentNext, Operator, Render, Compose, EditEnv, FetchAddresses,
     GenKey, RemoveKey, Load, WriteGatewayJson, WriteEscrowJson, Validate, WriteComposeEnv,
     Interrupt, Up, StartGateway, StopGateway, Down, deployment, inputs
<1>2. changes' \in 0 .. MaxChanges
  <2>1. CASE Change
    BY <1>0, <2>1, ChangeAssumption DEF InputTypes, Change
  <2>2. CASE changes' = changes
    BY <1>0, <2>2 DEF InputTypes
  <2> QED
    BY <2>1, <2>2 DEF DeploymentNext, Operator, Render, Compose, EditEnv, FetchAddresses,
       GenKey, RemoveKey, Load, WriteGatewayJson, WriteEscrowJson, Validate, WriteComposeEnv,
       Interrupt, Up, StartGateway, StopGateway, Down, deployment, inputs
<1>3. removed' \subseteq Names \X Int
  <2>1. CASE removed' = removed
    BY <1>0, <2>1 DEF InputTypes
  <2>2. ASSUME NEW name \in Names, RemoveKey(name)
        PROVE  removed' \subseteq Names \X Int
    <3>1. removed' = removed \union {<<name, secrets[name]>>}
      BY <2>2 DEF RemoveKey
    <3>2. secrets[name] \in Int
      BY <1>0 DEF Bad
    <3> QED
      BY <1>0, <3>1, <3>2 DEF InputTypes
  <2> QED
    BY <2>1, <2>2 DEF DeploymentNext, Operator, Render, Compose, EditEnv, FetchAddresses,
       GenKey, Load, WriteGatewayJson, WriteEscrowJson, Validate, WriteComposeEnv,
       Interrupt, Up, StartGateway, StopGateway, Down, deployment, inputs
<1>4. done' \subseteq {"render", "clean", "up", "restart"}
  <2>1. CASE done' \subseteq done \/ done' = {}
    BY <1>0, <2>1 DEF InputTypes
  <2>2. ASSUME NEW step \in {"up", "restart"}, Did(step)
        PROVE  done' \subseteq {"render", "clean", "up", "restart"}
    BY <1>0, <2>2, DidLemma DEF InputTypes
  <2>3. CASE WriteComposeEnv
    BY <2>3 DEF WriteComposeEnv
  <2> QED
    BY <2>1, <2>2, <2>3, NextSplit, QuietLemma DEF Load, WriteGatewayJson, WriteEscrowJson,
       Validate, Interrupt, Up, StartGateway, StopGateway, Down
<1> QED
  BY <1>1, <1>2, <1>3, <1>4 DEF InputTypes

LEMMA ScriptNext == TypeInv /\ [DeploymentNext]_deployment => ScriptTypes'
<1> SUFFICES ASSUME TypeInv, [DeploymentNext]_deployment PROVE ScriptTypes'
  OBVIOUS
<1>0. ScriptTypes /\ env \in Envs
  BY DEF TypeInv, InputTypes
<1>1. ScriptShape' /\ (Load \/ script'.loaded = script.loaded \/ script'.loaded = {})
  BY <1>0, ShapeNext DEF ScriptTypes
<1>2. script'.pc \in {"idle", "gateway", "escrow", "validate", "compose"}
  <2>1. CASE script' = script
    BY <1>0, <2>1 DEF ScriptTypes
  <2>2. CASE Disturb
    BY <1>0, <2>2, DisturbLemma DEF ScriptTypes
  <2>3. CASE script' = Idle
    BY <2>3, IdleLemma
  <2>4. CASE Load
    BY <2>4 DEF Load
  <2>5. ASSUME NEW p, NEW q \in {"escrow", "validate", "compose"}, At(p, q)
        PROVE  script'.pc \in {"idle", "gateway", "escrow", "validate", "compose"}
    BY <1>0, <2>5, AtLemma DEF ScriptTypes
  <2> QED
    BY <2>1, <2>2, <2>3, <2>4, <2>5, NextSplit, QuietLemma DEF WriteGatewayJson,
       WriteEscrowJson, Validate, WriteComposeEnv, Interrupt, Up, StartGateway, StopGateway, Down
<1>3. Small(script'.loaded) /\ \A v \in script'.loaded : v.env \in Envs
  <2>1. CASE script'.loaded = script.loaded
    BY <1>0, <2>1 DEF ScriptTypes
  <2>2. CASE script'.loaded = {}
    BY <2>2, SmallLemma
  <2>3. CASE Load
    <3> DEFINE Loaded(book) == [env |-> env, book |-> book, keys |-> secrets]
    <3>1. PICK book \in addresses : script'.loaded = {Loaded(book)}
      BY <2>3 DEF Load
    <3>2. Loaded(book).env = env
      OBVIOUS
    <3> HIDE DEF Loaded
    <3>3. Small(script'.loaded)
      BY <3>1, SmallLemma
    <3>4. \A v \in script'.loaded : v.env \in Envs
      BY <1>0, <3>1, <3>2
    <3> QED
      BY <3>3, <3>4
  <2> QED
    BY <1>1, <2>1, <2>2, <2>3
<1> QED
  BY <1>1, <1>2, <1>3 DEF ScriptTypes, Small

\* What render.sh makes of what it loaded is one file, or none.
LEMMA SmallUnion ==
  ASSUME NEW S, Small(S), NEW F, DOMAIN F = S, \A v \in S : Small(F[v])
  PROVE  Small(UNION {F[v] : v \in S})
<1>1. CASE S = {}
  BY <1>1 DEF Small
<1>2. CASE \E x : S = {x}
  <2>1. PICK x : S = {x}
    BY <1>2
  <2>2. UNION {F[v] : v \in S} = F[x]
    BY <2>1
  <2> QED
    BY <2>1, <2>2
<1> QED
  BY <1>1, <1>2 DEF Small

LEMMA FileNext == TypeInv /\ [DeploymentNext]_deployment => FileTypes'
<1> SUFFICES ASSUME TypeInv, [DeploymentNext]_deployment PROVE FileTypes'
  OBVIOUS
<1>0. ScriptTypes /\ FileTypes /\ env \in Envs
  BY DEF TypeInv, InputTypes
<1>1. Small(addresses')
  <2>1. CASE addresses' = addresses
    BY <1>0, <2>1 DEF FileTypes
  <2>2. CASE FetchAddresses
    BY <2>2, SmallLemma DEF FetchAddresses
  <2> QED
    BY <2>1, <2>2 DEF DeploymentNext, Operator, Render, Compose, EditEnv,
       GenKey, RemoveKey, Load, WriteGatewayJson, WriteEscrowJson, Validate, WriteComposeEnv,
       Interrupt, Up, StartGateway, StopGateway, Down, deployment, inputs
<1>2. Small(gateway_json') /\ \A g \in gateway_json' : g.chain_id \in ChainTexts
  <2>1. CASE gateway_json' \subseteq gateway_json
    BY <1>0, <2>1, SmallLemma DEF FileTypes
  <2>2. CASE WriteGatewayJson
    <3> DEFINE F == [v \in script.loaded |-> GatewayJson(v)]
    <3>1. gateway_json' = UNION {GatewayJson(v) : v \in script.loaded}
      BY <2>2 DEF WriteGatewayJson
    <3>2. \A v \in script.loaded : F[v] = GatewayJson(v)
      OBVIOUS
    <3>3. gateway_json' = UNION {F[v] : v \in script.loaded}
      BY <3>1, <3>2
    <3>4. \A v \in script.loaded : Small(F[v])
      BY <3>2 DEF GatewayJson, Small
    <3>5. DOMAIN F = script.loaded
      OBVIOUS
    <3> HIDE DEF F
    <3>6. Small(gateway_json')
      BY <1>0, <3>3, <3>4, <3>5, SmallUnion DEF ScriptTypes
    <3>7. ASSUME NEW g \in gateway_json' PROVE g.chain_id \in ChainTexts
      <4>1. PICK v \in script.loaded : g \in GatewayJson(v)
        BY <3>1
      <4>2. g.chain_id = v.env.chain
        BY <4>1 DEF GatewayJson
      <4>3. v.env \in Envs
        BY <1>0 DEF ScriptTypes
      <4> QED
        BY <4>2, <4>3, EnvLemma
    <3> QED
      BY <3>6, <3>7
  <2>3. CASE Interrupt
    BY <2>1, <2>3 DEF Interrupt
  <2> QED
    BY <2>1, <2>2, <2>3, NextSplit, QuietLemma DEF Load, WriteEscrowJson, Validate,
       WriteComposeEnv, Up, StartGateway, StopGateway, Down, runtime
<1>3. Small(escrow_json')
  <2>1. CASE escrow_json' \subseteq escrow_json
    BY <1>0, <2>1, SmallLemma DEF FileTypes
  <2>2. CASE WriteEscrowJson
    <3> DEFINE F == [v \in script.loaded |-> EscrowJson(v)]
    <3>1. \A v \in script.loaded : F[v] = EscrowJson(v)
      OBVIOUS
    <3>2. escrow_json' = UNION {F[v] : v \in script.loaded}
      BY <2>2, <3>1 DEF WriteEscrowJson
    <3>3. \A v \in script.loaded : Small(F[v])
      BY <3>1 DEF EscrowJson, Small
    <3>4. DOMAIN F = script.loaded
      OBVIOUS
    <3> HIDE DEF F
    <3> QED
      BY <1>0, <3>2, <3>3, <3>4, SmallUnion DEF ScriptTypes
  <2>3. CASE Interrupt
    BY <2>1, <2>3 DEF Interrupt
  <2> QED
    BY <2>1, <2>2, <2>3, NextSplit, QuietLemma DEF Load, WriteGatewayJson, Validate,
       WriteComposeEnv, Up, StartGateway, StopGateway, Down, runtime
<1>4. /\ Small(compose_env')
      /\ \A c \in compose_env' : c.chain \in ChainTexts /\ c.studio_key \in BOOLEAN
  <2>1. CASE compose_env' \subseteq compose_env
    BY <1>0, <2>1, SmallLemma DEF FileTypes
  <2>2. CASE WriteComposeEnv
    <3> DEFINE File(v, book) ==
                 [chain |-> env.chain, verifier |-> Entry(book, COLLECTOR),
                  signer |-> v.keys["signer"], studio_key |-> env.studio_key]
               read == {b \in addresses : DOMAIN b # {}}
               F == [v \in script.loaded |-> {File(v, book) : book \in read}]
    <3>1. \A v \in script.loaded : F[v] = {File(v, book) : book \in read}
      OBVIOUS
    <3>0. compose_env' = UNION {{File(v, book) : book \in read} : v \in script.loaded}
      BY <2>2 DEF WriteComposeEnv
    <3>2. compose_env' = UNION {F[v] : v \in script.loaded}
      <4> HIDE DEF F, File, read
      <4>1. {{File(v, book) : book \in read} : v \in script.loaded}
              = {F[v] : v \in script.loaded}
        BY <3>1
      <4> QED
        BY <3>0, <4>1
    <3>3. DOMAIN F = script.loaded
      OBVIOUS
    <3>4. Small(read)
      BY <1>0, SmallLemma DEF FileTypes
    <3>5. ASSUME NEW v \in script.loaded PROVE Small(F[v])
      <4> HIDE DEF File, read
      <4>1. CASE read = {}
        BY <3>1, <4>1 DEF Small
      <4>2. CASE \E b : read = {b}
        <5>1. PICK b : read = {b}
          BY <4>2
        <5>2. F[v] = {File(v, b)}
          BY <3>1, <5>1
        <5> QED
          BY <5>2, SmallLemma
      <4> QED
        BY <3>4, <4>1, <4>2 DEF Small
    <3>6. \A c \in compose_env' : c.chain = env.chain /\ c.studio_key = env.studio_key
      BY <2>2 DEF WriteComposeEnv
    <3>7. \A c \in compose_env' : c.chain \in ChainTexts /\ c.studio_key \in BOOLEAN
      BY <1>0, <3>6, EnvLemma
    <3> HIDE DEF F
    <3>8. Small(compose_env')
      BY <1>0, <3>2, <3>3, <3>5, SmallUnion DEF ScriptTypes
    <3> QED
      BY <3>7, <3>8
  <2>3. CASE Interrupt
    BY <2>1, <2>3 DEF Interrupt
  <2> QED
    BY <2>1, <2>2, <2>3, NextSplit, QuietLemma DEF Load, WriteGatewayJson, WriteEscrowJson,
       Validate, Up, StartGateway, StopGateway, Down, runtime
<1> QED
  BY <1>1, <1>2, <1>3, <1>4 DEF FileTypes, Small

LEMMA ServiceNext == TypeInv /\ [DeploymentNext]_deployment => ServiceTypes'
<1> SUFFICES ASSUME TypeInv, [DeploymentNext]_deployment PROVE ServiceTypes'
  OBVIOUS
<1>0. FileTypes /\ ServiceTypes
  BY DEF TypeInv
<1>1. CASE Up
  <2>1. PICK file \in compose_env :
          /\ aggregator' = {[chain |-> file.chain, verifier |-> file.verifier,
                             signer |-> file.signer]}
          /\ adapter' = {file.studio_key}
    BY <1>1 DEF Up
  <2>2. file.chain \in ChainTexts /\ file.studio_key \in BOOLEAN
    BY <1>0 DEF FileTypes
  <2>3. adapter' \in {{}, {TRUE}, {FALSE}}
    BY <2>1, <2>2
  <2>4. Small(aggregator') /\ \A a \in aggregator' : a.chain \in ChainTexts
    <3> DEFINE new == [chain |-> file.chain, verifier |-> file.verifier,
                       signer |-> file.signer]
    <3>1. aggregator' = {new} /\ new.chain = file.chain
      BY <2>1
    <3> HIDE DEF new
    <3>2. Small(aggregator')
      BY <3>1, SmallLemma
    <3> QED
      BY <2>2, <3>1, <3>2
  <2>5. gateway_made' \in BOOLEAN /\ gateway' = gateway
    BY <1>0, <1>1 DEF Up, ServiceTypes, healthy
  <2> QED
    BY <1>0, <2>3, <2>4, <2>5 DEF ServiceTypes, Small
<1>2. CASE StartGateway
  <2>1. /\ gateway' \subseteq gateway_json
        /\ UNCHANGED <<adapter, gateway_made, aggregator>>
    BY <1>2 DEF StartGateway
  <2>2. Small(gateway') /\ \A g \in gateway' : g.chain_id \in ChainTexts
    BY <1>0, <2>1, SmallLemma DEF FileTypes
  <2> QED
    BY <1>0, <2>1, <2>2 DEF ServiceTypes, Small
<1>3. CASE StopGateway \/ Down
  <2>1. /\ gateway' = {}
        /\ aggregator' = aggregator \/ aggregator' = {}
        /\ adapter' = adapter \/ adapter' = {}
        /\ gateway_made' = gateway_made \/ gateway_made' = FALSE
    BY <1>3 DEF StopGateway, Down
  <2> QED
    BY <1>0, <2>1 DEF ServiceTypes, Small
<1>4. CASE UNCHANGED services
  BY <1>0, <1>4 DEF ServiceTypes, services
<1> QED
  BY <1>1, <1>2, <1>3, <1>4, NextSplit, QuietLemma DEF Load, WriteGatewayJson,
     WriteEscrowJson, Validate, WriteComposeEnv, Interrupt

LEMMA TypeNext == TypeInv /\ [DeploymentNext]_deployment => TypeInv'
  BY KeyNext, InputNext, ScriptNext, FileNext, ServiceNext DEF TypeInv

LEMMA TypeLemma == TypeInv /\ FetchInv => TypeOK
<1> SUFFICES ASSUME TypeInv, FetchInv PROVE TypeOK
  OBVIOUS
<1>1. secrets \in [Names -> Int] /\ wallets \in Nat
  BY DEF TypeInv, KeyInv, Bad
<1>2. /\ Cardinality(addresses) <= 1 /\ Cardinality(gateway_json) <= 1
      /\ Cardinality(escrow_json) <= 1 /\ Cardinality(compose_env) <= 1
      /\ Cardinality(gateway) <= 1 /\ Cardinality(aggregator) <= 1
  BY SmallCardinality DEF TypeInv, FileTypes, ServiceTypes
<1>3. fetches \subseteq Pairs
  BY DEF FetchInv
<1>4. /\ env \in Envs /\ changes \in 0 .. MaxChanges
      /\ removed \subseteq Names \X Int
      /\ done \subseteq {"render", "clean", "up", "restart"}
      /\ script.pc \in {"idle", "gateway", "escrow", "validate", "compose"}
      /\ adapter \in {{}, {TRUE}, {FALSE}} /\ gateway_made \in BOOLEAN
  BY DEF TypeInv, ScriptTypes, ServiceTypes, InputTypes
<1> QED
  BY <1>1, <1>2, <1>3, <1>4 DEF TypeOK

\* Every variable has its type: the scripts leave at most one of each file, and no
\* service runs twice.
THEOREM DeploymentTypes == DeploymentSpec => []TypeOK
  BY TypeInit, TypeNext, TypeLemma, FetchInvariance, PTL DEF DeploymentSpec
=============================================================================
