---------------------------- MODULE SmokeProofs ----------------------------
(***************************************************************************)
(* Theorems about Smoke, for every deployment, topic and bound.             *)
(***************************************************************************)
EXTENDS Smoke, WellFoundedInduction, TLAPS

-----------------------------------------------------------------------------
(***************************************************************************)
(* Kafka.                                                                   *)
(***************************************************************************)
\* A set of integers between two bounds that is not empty has a greatest element.
LEMMA MaxLemma ==
  ASSUME NEW hi \in Int, NEW S, S \subseteq -1 .. hi, S # {}
  PROVE  Max(S) \in S /\ \A y \in S : y <= Max(S)
<1> DEFINE T == {hi - x : x \in S}
<1>1. T \in SUBSET Nat
  OBVIOUS
<1>2. PICK n : n \in T
  OBVIOUS
<1> DEFINE R == OpToRel(<, Nat)
<1>3. PICK m \in T : \A k \in T : m <= k
  <2>1. IsWellFoundedOn(R, Nat)
    BY NatLessThanWellFounded
  <2>2. PICK m \in T : \A k \in T : ~ (<<k, m>> \in R)
    <3> HIDE DEF T, R
    <3> QED
      BY <1>1, <1>2, <2>1, WFMin
  <2>3. \A k \in T : k < m => <<k, m>> \in R
    <3> HIDE DEF T
    <3> QED
      BY <1>1 DEF OpToRel
  <2> HIDE DEF T, R
  <2>4. \A k \in T : ~ (k < m)
    BY <2>2, <2>3
  <2>5. \A k \in T : m <= k
    BY <1>1, <2>4
  <2> QED
    BY <2>5
<1>4. PICK x \in S : m = hi - x
  BY <1>3
<1>5. \A y \in S : x >= y
  <2> SUFFICES ASSUME NEW y \in S PROVE x >= y
    OBVIOUS
  <2>1. m <= hi - y
    BY <1>3
  <2> QED
    BY <1>4, <2>1
<1>6. \E z \in S : \A y \in S : z >= y
  BY <1>5
<1>7. Max(S) \in S /\ \A y \in S : Max(S) >= y
  BY <1>6 DEF Max
<1> QED
  BY <1>7

\* What latest_client_query finds: nothing, or the highest record of the page.
LEMMA LatestLemma ==
  ASSUME topic \in Seq(Record)
  PROVE  /\ latest_client_query \in -1 .. Len(topic) - 1
         /\ latest_client_query # -1 =>
              /\ FetchOk
              /\ latest_client_query + 1 \in DOMAIN topic
              /\ latest_client_query + 1 <= PageMax
              /\ topic[latest_client_query + 1].by # "junk"
         /\ FetchOk => \A i \in DOMAIN topic :
              i <= PageMax /\ topic[i].by # "junk" => i - 1 <= latest_client_query
<1> DEFINE S == {-1} \union Page
           hi == Len(topic) - 1
<1>1. Len(topic) \in Nat /\ DOMAIN topic = 1 .. Len(topic)
  OBVIOUS
<1>2. \A x \in Page : /\ x + 1 \in DOMAIN topic
                      /\ x \in 0 .. hi
                      /\ x + 1 <= PageMax
                      /\ topic[x + 1].by # "junk"
  <2> SUFFICES ASSUME NEW x \in Page
               PROVE  /\ x + 1 \in DOMAIN topic
                      /\ x \in 0 .. hi
                      /\ x + 1 <= PageMax
                      /\ topic[x + 1].by # "junk"
    OBVIOUS
  <2>1. PICK j \in DOMAIN topic : j <= PageMax /\ topic[j].by # "junk" /\ x = j - 1
    BY DEF Page
  <2>2. j \in Nat /\ x + 1 = j
    BY <1>1, <2>1
  <2> QED
    BY <1>1, <2>1, <2>2
<1>3. \A i \in DOMAIN topic : i <= PageMax /\ topic[i].by # "junk" => i - 1 \in Page
  BY DEF Page
<1>4. hi \in Int /\ S \subseteq -1 .. hi /\ S # {}
  BY <1>1, <1>2
<1>5. Max(S) \in S /\ \A y \in S : y <= Max(S)
  <2> HIDE DEF S, hi
  <2> QED
    BY <1>4, MaxLemma
<1>6. CASE FetchOk
  <2>1. latest_client_query = Max(S)
    BY <1>6 DEF latest_client_query
  <2>2. Max(S) # -1 => Max(S) \in Page
    BY <1>5
  <2> HIDE DEF S
  <2> QED
    BY <1>2, <1>3, <1>4, <1>5, <1>6, <2>1, <2>2 DEF S
<1>7. CASE ~ FetchOk
  BY <1>1, <1>7 DEF latest_client_query
<1> QED
  BY <1>6, <1>7

-----------------------------------------------------------------------------
(***************************************************************************)
(* Type correctness.                                                        *)
(***************************************************************************)
\* TypeOK in three parts: the deployment, the run, and the places in the topic.
DeploymentOk ==
  /\ peers \in [Peers -> Modes]
  /\ gateway_signer \in Signers
  /\ aggregator \in Aggregators
  /\ owed \in Record
  /\ changes \in 0 .. MaxChanges

RowsOk(set) == set \subseteq [check : Checks, pass : BOOLEAN]

RunOk ==
  /\ pc \in {"topology", "baseline", "dispatch", "poll", "check", "domain",
             "aggregate", "tampered", "wrong key", "table", "done"}
  /\ RowsOk(rows)
  /\ polls \in 0 .. Polls
  /\ record \in Record
  /\ domain_ok \in BOOLEAN
  /\ exit \in -1 .. 2
  /\ read \in BOOLEAN
  /\ rav_by \in Aggregators \union {NoAggregator}
  /\ replies \subseteq {"tampered", "wrong key"} \X {"rav", "rejected", "unreachable"}

PlacesOk ==
  /\ topic \in Seq(Record)
  /\ first \in 0 .. Len(topic)
  /\ baseline \in -1 .. Len(topic) - 1
  /\ mark \in 0 .. Len(topic)

\* While the run looks for the record it has a look left.
LooksLeft == pc \in {"topology", "baseline", "dispatch", "poll"} => polls < Polls

TypeInv == DeploymentOk /\ RunOk /\ PlacesOk /\ LooksLeft

LEMMA TypeParts == TypeOK <=> DeploymentOk /\ RunOk /\ PlacesOk
  BY Zenon DEF TypeOK, DeploymentOk, RunOk, PlacesOk, RowsOk

\* A row more.
LEMMA ReportLemma ==
  ASSUME RowsOk(rows), NEW c \in Checks, NEW p \in BOOLEAN, Report(c, p)
  PROVE  RowsOk(rows')
  BY DEF RowsOk, Report

\* A record more: every place in the topic stays one.
LEMMA AppendTopic ==
  ASSUME PlacesOk, NEW r \in Record, topic' = Append(topic, r),
         UNCHANGED <<first, baseline, mark>>
  PROVE  PlacesOk'
<1>1. /\ topic \in Seq(Record)
      /\ first \in 0 .. Len(topic)
      /\ baseline \in -1 .. Len(topic) - 1
      /\ mark \in 0 .. Len(topic)
  BY DEF PlacesOk
<1>2. topic' \in Seq(Record) /\ Len(topic') = Len(topic) + 1 /\ Len(topic) \in Nat
  BY <1>1
<1>3. /\ first \in 0 .. Len(topic')
      /\ baseline \in -1 .. Len(topic') - 1
      /\ mark \in 0 .. Len(topic')
  BY <1>1, <1>2
<1> QED
  BY <1>2, <1>3 DEF PlacesOk

LEMMA NobodyLemma ==
  /\ NoRecord \in Record
  /\ \A a \in Aggregators : a # NoAggregator
<1>1. NoRecord \in Record
  BY DEF NoRecord, Record
<1>2. \A a \in Aggregators : a.key \in Signers
  BY AggregatorAssumption
<1>3. NoAggregator.key = Junk
  BY DEF NoAggregator
<1> QED
  BY <1>1, <1>2, <1>3, NobodyAssumption

LEMMA TypeInit == Init => TypeInv
<1> SUFFICES ASSUME Init PROVE TypeInv
  OBVIOUS
<1>1. topic \in Seq(Record)
  <2> DEFINE Old == [signer : Signers \union {Junk}, candidates : {0, 1},
                     by : {"client", "smoke", "junk"}]
  <2>1. Old \subseteq Record
    BY DEF Record
  <2>2. topic \in Seq(Old)
    BY TopicAssumption DEF Init
  <2> HIDE DEF Old
  <2> QED
    BY <2>1, <2>2
<1>2. Polls \in Nat /\ 0 < Polls /\ MaxChanges \in Nat
  BY LimitAssumption
<1>3. PlacesOk
  <2>1. Len(topic) \in Nat
    BY <1>1
  <2> QED
    BY <1>1, <2>1 DEF Init, PlacesOk
<1>4. DeploymentOk
  BY <1>2, NobodyLemma DEF Init, DeploymentOk, Modes
<1>5. polls \in 0 .. Polls /\ polls < Polls /\ exit \in -1 .. 2
  BY <1>2 DEF Init
<1>6. RunOk /\ LooksLeft
  BY <1>5, NobodyLemma DEF Init, RunOk, LooksLeft, RowsOk
<1> QED
  BY <1>3, <1>4, <1>6 DEF TypeInv

\* A change of the deployment keeps its limit.
LEMMA ChangeLemma ==
  ASSUME TypeInv, Change
  PROVE  changes' \in 0 .. MaxChanges
<1>1. MaxChanges \in Nat
  BY LimitAssumption
<1> QED
  BY <1>1 DEF Change, TypeInv, DeploymentOk

\* What the deployment does.
LEMMA TypeDeployment == TypeInv /\ Deployment => TypeInv'
<1> SUFFICES ASSUME TypeInv, Deployment PROVE TypeInv'
  OBVIOUS
<1>1. UNCHANGED <<pc, rows, found, exit, hist>>
  BY DEF Deployment, PeerChanges, GatewayRestarts, AggregatorRestarts, TopicExpires,
     ClientQuery, WriteOwed, Change, run
<1>2. RunOk' /\ LooksLeft'
  BY <1>1 DEF TypeInv, RunOk, LooksLeft, found, hist, RowsOk
<1>3. CASE ClientQuery \/ WriteOwed
  <2>1. PICK r \in Record : topic' = Append(topic, r)
    <3>1. CASE WriteOwed
      BY <3>1 DEF WriteOwed, TypeInv, DeploymentOk
    <3>2. CASE ClientQuery
      <4>1. PICK n \in {0, 1} :
              topic' = Append(topic, [signer |-> gateway_signer, candidates |-> n,
                                      by |-> "client"])
        BY <3>2 DEF ClientQuery
      <4>2. [signer |-> gateway_signer, candidates |-> n, by |-> "client"] \in Record
        BY DEF TypeInv, DeploymentOk, Record
      <4> QED
        BY <4>1, <4>2
    <3> QED
      BY <1>3, <3>1, <3>2
  <2>2. UNCHANGED <<peers, gateway_signer, aggregator, first, changes>>
    BY <1>3 DEF ClientQuery, WriteOwed, deployment
  <2>3. owed' \in Record
    BY <1>3, NobodyLemma DEF ClientQuery, WriteOwed, TypeInv, DeploymentOk
  <2>4. PlacesOk'
    BY <1>1, <2>1, <2>2, AppendTopic DEF TypeInv, found, hist
  <2>5. DeploymentOk'
    BY <2>2, <2>3 DEF TypeInv, DeploymentOk
  <2> QED
    BY <1>2, <2>4, <2>5 DEF TypeInv
<1>4. CASE PeerChanges \/ GatewayRestarts \/ AggregatorRestarts \/ TopicExpires
  <2>1. Change /\ topic' = topic
    BY <1>4 DEF PeerChanges, GatewayRestarts, AggregatorRestarts, TopicExpires, Change
  <2>2. /\ peers' \in [Peers -> Modes]
        /\ gateway_signer' \in Signers
        /\ aggregator' \in Aggregators
        /\ owed' \in Record
    BY <1>4, NobodyLemma DEF PeerChanges, GatewayRestarts, AggregatorRestarts,
       TopicExpires, TypeInv, DeploymentOk
  <2>3. first' \in 0 .. Len(topic)
    <3>1. first \in 0 .. Len(topic) /\ Len(topic) \in Nat
      BY DEF TypeInv, PlacesOk
    <3>2. first' = first \/ first' \in first + 1 .. Len(topic)
      BY <1>4 DEF PeerChanges, GatewayRestarts, AggregatorRestarts, TopicExpires
    <3> QED
      BY <3>1, <3>2
  <2>4. PlacesOk'
    BY <1>1, <2>1, <2>3 DEF TypeInv, PlacesOk, found, hist
  <2>5. DeploymentOk'
    BY <2>1, <2>2, ChangeLemma DEF DeploymentOk
  <2> QED
    BY <1>2, <2>4, <2>5 DEF TypeInv
<1> QED
  BY <1>3, <1>4 DEF Deployment

\* What the run leaves alone.
LEMMA RunFrame ==
  ASSUME Run
  PROVE  /\ UNCHANGED <<peers, gateway_signer, aggregator, first, changes, topic>>
         /\ Dispatch \/ owed' = owed
         /\ ReadBaseline \/ UNCHANGED <<baseline, mark, read>>
         /\ Poll \/ UNCHANGED <<polls, record>>
         /\ FetchDomain \/ domain_ok' = domain_ok
         /\ Aggregate \/ rav_by' = rav_by
         /\ Aggregate \/ Finish \/ exit' = exit
         /\ SendTampered \/ SendWrongKey \/ replies' = replies
  BY DEF Run, SyncTopology, ReadBaseline, Dispatch, Poll, CheckRecord, FetchDomain,
     Aggregate, SendTampered, SendWrongKey, Negative, Finish, deployment, kafka, found,
     hist

\* The rows of a RAV.
LEMMA VerifyRows ==
  ASSUME NEW rav, domain_ok \in BOOLEAN, rav.payer \in BOOLEAN, rav.data_service \in BOOLEAN
  PROVE  RowsOk(verify_rav(rav))
<1>1. PICK p \in BOOLEAN, q \in BOOLEAN :
        verify_rav(rav) = {[check |-> "d signer", pass |-> p],
                           [check |-> "d domain", pass |-> domain_ok],
                           [check |-> "d value", pass |-> q],
                           [check |-> "e payer", pass |-> rav.payer],
                           [check |-> "e data service", pass |-> rav.data_service]}
  BY DEF verify_rav
<1>2. \A c \in Checks, b \in BOOLEAN :
        [check |-> c, pass |-> b] \in [check : Checks, pass : BOOLEAN]
  OBVIOUS
<1>3. {"d signer", "d domain", "d value", "e payer", "e data service"} \subseteq Checks
  BY DEF Checks
<1> QED
  BY <1>1, <1>2, <1>3, Zenon DEF RowsOk
\* What aggregate returns: an honest aggregator makes the RAV of its receipts.
LEMMA AnswerLemma ==
  ASSUME NEW receipts, NEW total, NEW answer \in aggregate(receipts, total)
  PROVE  /\ answer.kind \in {"rav", "rejected", "unreachable"}
         /\ answer.rav.payer \in BOOLEAN /\ answer.rav.data_service \in BOOLEAN
         /\ aggregator.honest /\ answer.kind = "rav" =>
              answer.rav = RavOf(aggregator, total)
<1>1. \A kind : /\ NoReply(kind).kind = kind
                /\ NoReply(kind).rav.payer = TRUE
                /\ NoReply(kind).rav.data_service = TRUE
  BY DEF NoReply, RavOf
<1>2. \A a \in [kind : {"rav"}, rav : BrokenRavs] :
        a.kind = "rav" /\ a.rav.payer \in BOOLEAN /\ a.rav.data_service \in BOOLEAN
  BY DEF BrokenRavs
<1>3. RavOf(aggregator, total).payer = TRUE /\ RavOf(aggregator, total).data_service = TRUE
  BY DEF RavOf
<1>4. \/ answer = NoReply("unreachable") \/ answer = NoReply("rejected")
      \/ ~ aggregator.honest /\ answer \in [kind : {"rav"}, rav : BrokenRavs]
      \/ answer = [kind |-> "rav", rav |-> RavOf(aggregator, total)]
  BY DEF aggregate
<1>5. CASE answer = NoReply("unreachable") \/ answer = NoReply("rejected")
  <2>1. PICK kind \in {"unreachable", "rejected"} : answer = NoReply(kind)
    BY <1>5
  <2>2. answer.kind = kind /\ answer.rav.payer = TRUE /\ answer.rav.data_service = TRUE
    BY <1>1, <2>1
  <2> QED
    BY <2>2
<1>6. CASE ~ aggregator.honest /\ answer \in [kind : {"rav"}, rav : BrokenRavs]
  BY <1>2, <1>6
<1>7. CASE answer = [kind |-> "rav", rav |-> RavOf(aggregator, total)]
  <2>1. answer.kind = "rav" /\ answer.rav = RavOf(aggregator, total)
    BY <1>7
  <2> QED
    BY <1>3, <2>1
<1> QED
  BY <1>4, <1>5, <1>6, <1>7

\* A bad receipt leads to a reply, and to a row that says whether it was refused.
LEMMA NegativeLemma ==
  ASSUME SendTampered \/ SendWrongKey
  PROVE  \E label \in {"tampered", "wrong key"}, kind \in {"rav", "rejected", "unreachable"} :
           /\ pc = label
           /\ pc' = IF label = "tampered" THEN "wrong key" ELSE "table"
           /\ Report(label, kind # "rav")
           /\ replies' = replies \union {<<label, kind>>}
<1>1. ASSUME NEW label, NEW receipt, NEW then, Negative(label, receipt, then)
      PROVE  \E kind \in {"rav", "rejected", "unreachable"} :
               /\ pc = label
               /\ pc' = then
               /\ Report(label, kind # "rav")
               /\ replies' = replies \union {<<label, kind>>}
  <2>1. PICK answer \in aggregate({receipt}, receipt.value) :
          /\ Report(label, answer.kind # "rav")
          /\ replies' = replies \union {<<label, answer.kind>>}
    BY <1>1 DEF Negative
  <2>2. pc = label /\ pc' = then
    BY <1>1 DEF Negative, Request
  <2>3. answer.kind \in {"rav", "rejected", "unreachable"}
    BY AnswerLemma
  <2> QED
    BY <2>1, <2>2, <2>3
<1>2. CASE SendTampered
  <2>1. \E kind \in {"rav", "rejected", "unreachable"} :
          /\ pc = "tampered"
          /\ pc' = "wrong key"
          /\ Report("tampered", kind # "rav")
          /\ replies' = replies \union {<<"tampered", kind>>}
    BY <1>1, <1>2 DEF SendTampered
  <2> QED
    BY <2>1
<1>3. CASE SendWrongKey
  <2>1. \E kind \in {"rav", "rejected", "unreachable"} :
          /\ pc = "wrong key"
          /\ pc' = "table"
          /\ Report("wrong key", kind # "rav")
          /\ replies' = replies \union {<<"wrong key", kind>>}
    BY <1>1, <1>3 DEF SendWrongKey
  <2> QED
    BY <2>1
<1> QED
  BY <1>2, <1>3

\* What each step of the run makes of the table.
LEMMA RowsNext == TypeInv /\ Run => RowsOk(rows')
<1> SUFFICES ASSUME TypeInv, Run PROVE RowsOk(rows')
  OBVIOUS
<1>0. RowsOk(rows) /\ domain_ok \in BOOLEAN
  BY DEF TypeInv, RunOk
<1>1. ASSUME NEW c \in Checks, NEW p \in BOOLEAN, Report(c, p) PROVE RowsOk(rows')
  BY <1>0, <1>1, ReportLemma
<1>2. {"a", "b", "c", "d", "e", "tampered", "wrong key"} \subseteq Checks
  BY DEF Checks
<1>3. CASE SyncTopology
  <2>1. PICK p \in BOOLEAN : Report("a", p)
    BY <1>3 DEF SyncTopology
  <2> QED
    BY <1>1, <1>2, <2>1
<1>4. CASE Dispatch
  BY <1>0, <1>1, <1>2, <1>4 DEF Dispatch
<1>5. CASE CheckRecord
  <2>1. PICK p \in BOOLEAN, q \in BOOLEAN :
          rows' = rows \union {[check |-> "b", pass |-> p], [check |-> "c", pass |-> q]}
    BY <1>5 DEF CheckRecord
  <2>2. \A c \in Checks, b \in BOOLEAN :
          [check |-> c, pass |-> b] \in [check : Checks, pass : BOOLEAN]
    OBVIOUS
  <2> QED
    BY <1>0, <1>2, <2>1, <2>2, Zenon DEF RowsOk
<1>6. CASE Aggregate
  <2>1. PICK answer \in aggregate({mint_receipt(SignerKey, v) : v \in {100, 200, 300}}, 600) :
          \/ rows' = rows \union {[check |-> c, pass |-> FALSE] : c \in {"d", "e"}}
          \/ rows' = rows
          \/ rows' = rows \union verify_rav(answer.rav)
    BY <1>6 DEF Aggregate
  <2>2. RowsOk(verify_rav(answer.rav))
    BY <1>0, VerifyRows, AnswerLemma
  <2>3. RowsOk({[check |-> c, pass |-> FALSE] : c \in {"d", "e"}})
    <3>1. \A c \in Checks, b \in BOOLEAN :
            [check |-> c, pass |-> b] \in [check : Checks, pass : BOOLEAN]
      OBVIOUS
    <3>2. \A c \in {"d", "e"} :
            [check |-> c, pass |-> FALSE] \in [check : Checks, pass : BOOLEAN]
      BY <1>2, <3>1
    <3> QED
      BY <3>2, Zenon DEF RowsOk
  <2> QED
    BY <1>0, <2>1, <2>2, <2>3 DEF RowsOk
<1>7. CASE SendTampered \/ SendWrongKey
  <2>1. PICK c \in {"tampered", "wrong key"}, p \in BOOLEAN : Report(c, p)
    BY <1>7 DEF SendTampered, SendWrongKey, Negative
  <2> QED
    BY <1>1, <1>2, <2>1
<1>8. CASE ReadBaseline \/ Poll \/ FetchDomain \/ Finish
  BY <1>0, <1>8 DEF ReadBaseline, Poll, FetchDomain, Finish
<1> QED
  BY <1>3, <1>4, <1>5, <1>6, <1>7, <1>8 DEF Run

\* What the run does.
LEMMA TypeRun == TypeInv /\ Run => TypeInv'
<1> SUFFICES ASSUME TypeInv, Run PROVE TypeInv'
  OBVIOUS
<1>0. /\ topic \in Seq(Record)
      /\ baseline \in Int /\ baseline >= -1
      /\ Len(topic) \in Nat
  <2>1. topic \in Seq(Record) /\ baseline \in -1 .. Len(topic) - 1
    BY DEF TypeInv, PlacesOk
  <2>2. Len(topic) \in Nat
    BY <2>1
  <2> QED
    BY <2>1, <2>2
<1>1. DeploymentOk'
  <2>1. owed' \in Record
    <3>1. CASE Dispatch
      <4>1. gateway_signer \in Signers /\ owed \in Record
        BY DEF TypeInv, DeploymentOk
      <4>2. \A n \in {0, 1} :
              [signer |-> gateway_signer, candidates |-> n, by |-> "smoke"] \in Record
        BY <4>1 DEF Record
      <4> QED
        BY <3>1, <4>1, <4>2, NobodyLemma DEF Dispatch
    <3> QED
      BY <3>1, RunFrame DEF TypeInv, DeploymentOk
  <2> QED
    BY <2>1, RunFrame DEF TypeInv, DeploymentOk
<1>2. PlacesOk'
  <2>1. CASE ReadBaseline
    <3>1. baseline' \in -1 .. Len(topic) - 1
      BY <1>0, <2>1, LatestLemma DEF ReadBaseline
    <3>2. mark' \in 0 .. Len(topic)
      BY <1>0, <2>1 DEF ReadBaseline
    <3> QED
      BY <3>1, <3>2, RunFrame DEF TypeInv, PlacesOk
  <2> QED
    BY <2>1, RunFrame DEF TypeInv, PlacesOk
<1>3. RowsOk(rows')
  BY RowsNext
<1>4. record' \in Record
  <2>1. CASE Poll /\ record' # record
    <3>1. latest_client_query > baseline /\ record' = topic[latest_client_query + 1]
      BY <2>1 DEF Poll
    <3>2. latest_client_query + 1 \in DOMAIN topic
      BY <1>0, <3>1, LatestLemma
    <3> QED
      BY <1>0, <3>1, <3>2
  <2> QED
    BY <2>1, RunFrame DEF TypeInv, RunOk
<1>5. polls' \in 0 .. Polls /\ LooksLeft'
  <2>0. polls \in 0 .. Polls /\ Polls \in Nat
    BY LimitAssumption DEF TypeInv, RunOk
  <2>1. CASE Poll
    <3>1. pc = "poll" /\ polls < Polls
      BY <2>1 DEF Poll, Request, TypeInv, LooksLeft
    <3>2. \/ polls' = polls /\ pc' = "check"
          \/ polls' = polls + 1 /\ pc' = (IF polls + 1 >= Polls THEN "check" ELSE "poll")
      BY <2>1 DEF Poll
    <3> QED
      BY <2>0, <3>1, <3>2 DEF LooksLeft
  <2>2. CASE ~ Poll
    <3>1. polls' = polls
      BY <2>2, RunFrame
    <3>2. pc' \in {"topology", "baseline", "dispatch", "poll"} =>
            pc \in {"topology", "baseline", "dispatch", "poll"}
      BY <2>2 DEF Run, SyncTopology, ReadBaseline, Dispatch, CheckRecord, FetchDomain,
         Aggregate, SendTampered, SendWrongKey, Negative, Finish, Request
    <3> QED
      BY <2>0, <3>1, <3>2 DEF TypeInv, LooksLeft
  <2> QED
    BY <2>1, <2>2
<1>6. /\ pc' \in {"topology", "baseline", "dispatch", "poll", "check", "domain",
                  "aggregate", "tampered", "wrong key", "table", "done"}
      /\ exit' \in -1 .. 2
  <2>1. exit \in -1 .. 2
    BY DEF TypeInv, RunOk
  <2>2. exit' = exit \/ exit' \in {0, 1, 2}
    BY RunFrame DEF Aggregate, Finish
  <2>3. pc' \in {"topology", "baseline", "dispatch", "poll", "check", "domain",
                 "aggregate", "tampered", "wrong key", "table", "done"}
    BY DEF Run, SyncTopology, ReadBaseline, Dispatch, Poll, CheckRecord, FetchDomain,
       Aggregate, SendTampered, SendWrongKey, Negative, Finish
  <2>4. exit' \in -1 .. 2
    BY <2>1, <2>2
  <2> QED
    BY <2>3, <2>4
<1>7. domain_ok' \in BOOLEAN /\ read' \in BOOLEAN
  <2>1. domain_ok' \in BOOLEAN
    BY RunFrame DEF FetchDomain, TypeInv, RunOk
  <2>2. read' \in BOOLEAN
    BY RunFrame DEF ReadBaseline, FetchOk, TypeInv, RunOk
  <2> QED
    BY <2>1, <2>2
<1>8. rav_by' \in Aggregators \union {NoAggregator}
  BY RunFrame DEF Aggregate, TypeInv, RunOk, DeploymentOk
<1>9. replies' \subseteq {"tampered", "wrong key"} \X {"rav", "rejected", "unreachable"}
  <2>1. CASE SendTampered \/ SendWrongKey
    <3>1. PICK label \in {"tampered", "wrong key"}, kind \in {"rav", "rejected", "unreachable"} :
            replies' = replies \union {<<label, kind>>}
      BY <2>1, NegativeLemma
    <3>2. replies \subseteq {"tampered", "wrong key"} \X {"rav", "rejected", "unreachable"}
      BY DEF TypeInv, RunOk
    <3>3. <<label, kind>> \in {"tampered", "wrong key"} \X {"rav", "rejected", "unreachable"}
      BY <3>1
    <3> QED
      BY <3>1, <3>2, <3>3, Zenon
  <2> QED
    BY <2>1, RunFrame DEF TypeInv, RunOk
<1> QED
  BY <1>1, <1>2, <1>3, <1>4, <1>5, <1>6, <1>7, <1>8, <1>9 DEF TypeInv, RunOk

LEMMA TypeNext == TypeInv /\ [Next]_vars => TypeInv'
<1>1. TypeInv /\ UNCHANGED vars => TypeInv'
  BY DEF TypeInv, DeploymentOk, RunOk, PlacesOk, LooksLeft, RowsOk, vars, deployment,
     kafka, found, hist
<1> QED
  BY <1>1, TypeDeployment, TypeRun DEF Next

LEMMA TypeInvariance == Spec => []TypeInv
  BY TypeInit, TypeNext, PTL DEF Spec

\* Every variable keeps its type: the run looks at most Polls times, and what it
\* remembers of the topic are places in the topic.
THEOREM TypeTheorem == Spec => []TypeOK
<1>1. TypeInv => TypeOK
  BY TypeParts DEF TypeInv
<1> QED
  BY <1>1, TypeInvariance, PTL
-----------------------------------------------------------------------------
(***************************************************************************)
(* The run has an end.                                                      *)
(***************************************************************************)
\* Where a step of the run leads.
Follows(from, to) ==
  \/ from = "topology" /\ to = "baseline"
  \/ from = "baseline" /\ to = "dispatch"
  \/ from = "dispatch" /\ to = "poll"
  \/ from = "check" /\ to = "domain"
  \/ from = "domain" /\ to = "aggregate"
  \/ from = "aggregate" /\ to \in {"tampered", "done"}
  \/ from = "tampered" /\ to = "wrong key"
  \/ from = "wrong key" /\ to = "table"
  \/ from = "table" /\ to = "done"

LEMMA FollowsLemma ==
  ASSUME Run
  PROVE  \/ Follows(pc, pc') /\ polls' = polls
         \/ pc = "poll" /\ pc' = "check"
         \/ pc = "poll" /\ pc' = "poll" /\ polls' = polls + 1
<1>1. CASE Poll
  BY <1>1 DEF Poll, Request
<1>2. CASE ~ Poll
  <2>1. polls' = polls
    BY <1>2, RunFrame
  <2>2. Follows(pc, pc')
    BY <1>2 DEF Run, SyncTopology, ReadBaseline, Dispatch, CheckRecord, FetchDomain,
       Aggregate, SendTampered, SendWrongKey, Negative, Finish, Request, Follows
  <2> QED
    BY <2>1, <2>2
<1> QED
  BY <1>1, <1>2

\* The exit code is that of a run that is over.
EndInv == exit # -1 <=> pc = "done"

\* The deployment leaves the run's own state alone.
LEMMA RunStays == Deployment \/ UNCHANGED vars => UNCHANGED <<pc, polls, exit>>
  BY DEF Deployment, PeerChanges, GatewayRestarts, AggregatorRestarts, TopicExpires,
     ClientQuery, WriteOwed, Change, run, found, vars

LEMMA EndNext == EndInv /\ [Next]_vars => EndInv'
<1>1. ASSUME EndInv, Run PROVE EndInv'
  <2>1. CASE Aggregate
    BY <1>1, <2>1 DEF Aggregate, Request, EndInv
  <2>2. CASE Finish
    BY <1>1, <2>2 DEF Finish, EndInv
  <2>3. CASE ~ Aggregate /\ ~ Finish
    <3>1. exit' = exit
      BY <1>1, <2>3, RunFrame
    <3>2. pc # "done" /\ pc' # "done"
      BY <1>1, <2>3 DEF Run, SyncTopology, ReadBaseline, Dispatch, Poll, CheckRecord,
         FetchDomain, SendTampered, SendWrongKey, Negative, Request
    <3> QED
      BY <1>1, <3>1, <3>2 DEF EndInv
  <2> QED
    BY <2>1, <2>2, <2>3
<1>2. ASSUME EndInv, Deployment \/ UNCHANGED vars PROVE EndInv'
  BY <1>2, RunStays DEF EndInv
<1> QED
  BY <1>1, <1>2 DEF Next

Stages == {"topology", "baseline", "dispatch", "poll", "check", "domain", "aggregate",
           "tampered", "wrong key", "table", "done"}

\* The steps left, at each stage.
LEMMA StepsAt ==
  ASSUME NEW looked \in Nat
  PROVE  /\ StepsFrom("topology", looked) = Polls - looked + 9
         /\ StepsFrom("baseline", looked) = Polls - looked + 8
         /\ StepsFrom("dispatch", looked) = Polls - looked + 7
         /\ StepsFrom("poll", looked) = Polls - looked + 6
         /\ StepsFrom("check", looked) = 6
         /\ StepsFrom("domain", looked) = 5
         /\ StepsFrom("aggregate", looked) = 4
         /\ StepsFrom("tampered", looked) = 3
         /\ StepsFrom("wrong key", looked) = 2
         /\ StepsFrom("table", looked) = 1
         /\ StepsFrom("done", looked) = 0
  BY DEF StepsFrom

\* They are a number, none exactly at the end.
LEMMA StepsType ==
  ASSUME NEW stage \in Stages, NEW looked \in 0 .. Polls
  PROVE  /\ StepsFrom(stage, looked) \in Nat
         /\ StepsFrom(stage, looked) = 0 <=> stage = "done"
<1>1. Polls \in Nat /\ looked \in Nat /\ looked <= Polls
  BY LimitAssumption
<1>2. ASSUME stage \in {"topology", "baseline", "dispatch", "poll"}
      PROVE  StepsFrom(stage, looked) \in Nat \ {0}
  <2>1. stage = "topology" \/ stage = "baseline" \/ stage = "dispatch" \/ stage = "poll"
    BY <1>2
  <2>2. StepsFrom(stage, looked) \in {Polls - looked + 9, Polls - looked + 8,
                                      Polls - looked + 7, Polls - looked + 6}
    BY <1>1, <2>1, StepsAt, Zenon
  <2> QED
    BY <1>1, <2>2
<1>3. ASSUME stage \in {"check", "domain", "aggregate", "tampered", "wrong key", "table"}
      PROVE  StepsFrom(stage, looked) \in Nat \ {0}
  <2>1. \/ stage = "check" \/ stage = "domain" \/ stage = "aggregate"
        \/ stage = "tampered" \/ stage = "wrong key" \/ stage = "table"
    BY <1>3
  <2>2. StepsFrom(stage, looked) \in {1, 2, 3, 4, 5, 6}
    BY <1>1, <2>1, StepsAt, Zenon
  <2> QED
    BY <2>2
<1>4. ASSUME stage = "done" PROVE StepsFrom(stage, looked) = 0
  BY <1>1, <1>4, StepsAt
<1>5. \/ stage \in {"topology", "baseline", "dispatch", "poll"}
      \/ stage \in {"check", "domain", "aggregate", "tampered", "wrong key", "table"}
      \/ stage = "done"
  BY DEF Stages
<1>6. stage # "done" => StepsFrom(stage, looked) \in Nat \ {0}
  BY <1>2, <1>3, <1>5
<1>7. 0 \notin Nat \ {0} /\ 0 \in Nat
  OBVIOUS
<1> QED
  BY <1>4, <1>6, <1>7, Zenon

\* Along each step they fall, while a look is left as long as the run looks.
LEMMA StepsFall ==
  ASSUME NEW from \in Stages, NEW to \in Stages, NEW looked \in 0 .. Polls,
         NEW then \in 0 .. Polls,
         from \in {"topology", "baseline", "dispatch", "poll"} => looked < Polls,
         \/ Follows(from, to) /\ then = looked
         \/ from = "poll" /\ to = "check"
         \/ from = "poll" /\ to = "poll" /\ then = looked + 1
  PROVE  StepsFrom(to, then) < StepsFrom(from, looked)
<1> DEFINE left == StepsFrom(from, looked)
           next == StepsFrom(to, looked)
           most == Polls - looked
<1>0. /\ Polls \in Nat /\ looked \in Nat /\ looked <= Polls /\ then \in Nat
      /\ most \in Nat
  BY LimitAssumption
<1>1. ASSUME Follows(from, to), then = looked PROVE next < left
  <2>1. \/ <<left, next>> \in {<<most + 9, most + 8>>, <<most + 8, most + 7>>,
                               <<most + 7, most + 6>>}
        \/ <<left, next>> \in {<<6, 5>>, <<5, 4>>, <<4, 3>>, <<4, 0>>, <<3, 2>>,
                               <<2, 1>>, <<1, 0>>}
    <3>1. /\ StepsFrom("topology", looked) = most + 9
          /\ StepsFrom("baseline", looked) = most + 8
          /\ StepsFrom("dispatch", looked) = most + 7
          /\ StepsFrom("poll", looked) = most + 6
      BY <1>0, StepsAt
    <3>2. to \in {"tampered", "done"} => to = "tampered" \/ to = "done"
      OBVIOUS
    <3> HIDE DEF most
    <3> QED
      BY <1>0, <1>1, <3>1, <3>2, StepsAt, Zenon DEF Follows
  <2> HIDE DEF left, next, most
  <2>2. CASE <<left, next>> \in {<<most + 9, most + 8>>, <<most + 8, most + 7>>,
                                 <<most + 7, most + 6>>}
    BY <1>0, <2>2
  <2>3. CASE <<left, next>> \in {<<6, 5>>, <<5, 4>>, <<4, 3>>, <<4, 0>>, <<3, 2>>,
                                 <<2, 1>>, <<1, 0>>}
    BY <2>3
  <2> QED
    BY <2>1, <2>2, <2>3
<1>2. ASSUME from = "poll", to = "check" PROVE StepsFrom(to, then) < left
  <2>1. left = Polls - looked + 6 /\ StepsFrom(to, then) = 6
    BY <1>0, <1>2, StepsAt, Zenon
  <2>2. looked < Polls
    BY <1>2
  <2> QED
    BY <1>0, <2>1, <2>2
<1>3. ASSUME from = "poll", to = "poll", then = looked + 1
      PROVE  StepsFrom(to, then) < left
  <2>1. left = Polls - looked + 6 /\ StepsFrom(to, then) = Polls - then + 6
    BY <1>0, <1>3, StepsAt, Zenon
  <2> QED
    BY <1>0, <1>3, <2>1
<1> QED
  BY <1>1, <1>2, <1>3

\* Each step of the run leaves it fewer steps than it had, and nothing else changes how
\* many: a run makes at most Polls + 9, and then has an exit code.
THEOREM EndTheorem == Spec => EndsInTime
<1>1. Init => EndInv
  BY DEF Init, EndInv
<1>2. TypeInv /\ TypeInv' /\ EndInv' /\ [Next]_vars =>
        [/\ StepsLeft' \in 0 .. StepsLeft
         /\ Run => StepsLeft' < StepsLeft
         /\ StepsLeft' = 0 <=> exit' # -1]_vars
  <2> SUFFICES ASSUME TypeInv, TypeInv', EndInv', Next
               PROVE  /\ StepsLeft' \in 0 .. StepsLeft
                      /\ Run => StepsLeft' < StepsLeft
                      /\ StepsLeft' = 0 <=> exit' # -1
    OBVIOUS
  <2>1. /\ pc \in Stages /\ polls \in 0 .. Polls
        /\ pc' \in Stages /\ polls' \in 0 .. Polls
    BY DEF TypeInv, RunOk, Stages
  <2>2. StepsLeft \in Nat
    BY <2>1, StepsType DEF StepsLeft
  <2>3. StepsLeft' \in Nat /\ (StepsLeft' = 0 <=> pc' = "done")
    BY <2>1, StepsType DEF StepsLeft
  <2>4. CASE Run
    <3>1. pc \in {"topology", "baseline", "dispatch", "poll"} => polls < Polls
      BY DEF TypeInv, LooksLeft
    <3>2. StepsLeft' < StepsLeft
      BY <2>1, <2>4, <3>1, FollowsLemma, StepsFall DEF StepsLeft
    <3> QED
      BY <2>2, <2>3, <3>2 DEF EndInv
  <2>5. CASE ~ Run
    <3>1. pc' = pc /\ polls' = polls
      BY <2>5, RunStays DEF Next
    <3>2. StepsLeft' = StepsLeft
      BY <3>1 DEF StepsLeft
    <3> QED
      BY <2>2, <2>3, <2>5, <3>2 DEF EndInv
  <2> QED
    BY <2>4, <2>5
<1> QED
  BY <1>1, <1>2, EndNext, TypeInvariance, PTL DEF Spec, EndsInTime

-----------------------------------------------------------------------------
(***************************************************************************)
(* The record of check (c) is new.                                          *)
(***************************************************************************)
Looking == {"topology", "baseline", "dispatch", "poll"}

\* The baseline request, when it brought records, left none of its page above the
\* baseline.
BaselineInv ==
  read => \A i \in 1 .. mark :
            i <= PageMax /\ topic[i].by # "junk" => i - 1 <= baseline

\* The record found stands behind the mark.
RecordInv ==
  /\ pc \in Looking => record = NoRecord
  /\ read /\ record # NoRecord => \E i \in mark + 1 .. Len(topic) : record = topic[i]

\* Check (c) is made after the looking, on that record.
CheckedInv ==
  Passed("c") => /\ pc \notin Looking \union {"check"}
                 /\ record # NoRecord
                 /\ record.signer = SignerKey

FreshInv == BaselineInv /\ RecordInv /\ CheckedInv

LEMMA FreshInit == Init => FreshInv
<1> SUFFICES ASSUME Init PROVE FreshInv
  OBVIOUS
<1>1. read = FALSE /\ record = NoRecord /\ rows = {}
  BY DEF Init
<1> QED
  BY <1>1 DEF FreshInv, BaselineInv, RecordInv, CheckedInv, Passed

\* The topic only grows, so what is known of its places stays known.
LEMMA FreshDeployment == TypeInv /\ FreshInv /\ Deployment => FreshInv'
<1> SUFFICES ASSUME TypeInv, FreshInv, Deployment PROVE FreshInv'
  OBVIOUS
<1>1. UNCHANGED <<pc, rows, baseline, record, mark, read>>
  BY DEF Deployment, PeerChanges, GatewayRestarts, AggregatorRestarts, TopicExpires,
     ClientQuery, WriteOwed, Change, run, found, hist
<1>2. topic' = topic \/ \E r : topic' = Append(topic, r)
  BY DEF Deployment, PeerChanges, GatewayRestarts, AggregatorRestarts, TopicExpires,
     ClientQuery, WriteOwed, Change
<1>3. topic \in Seq(Record) /\ mark \in 0 .. Len(topic) /\ Len(topic) \in Nat
  BY DEF TypeInv, PlacesOk
<1>4. Len(topic') >= Len(topic) /\ Len(topic') \in Nat
      /\ \A i \in 1 .. Len(topic) : topic'[i] = topic[i]
  BY <1>2, <1>3
<1>5. BaselineInv'
  <2>1. SUFFICES ASSUME read, NEW i \in 1 .. mark, i <= PageMax, topic'[i].by # "junk"
                 PROVE  i - 1 <= baseline
    BY <1>1 DEF BaselineInv
  <2>2. topic'[i] = topic[i]
    BY <1>3, <1>4
  <2> QED
    BY <2>1, <2>2 DEF FreshInv, BaselineInv
<1>6. RecordInv'
  <2>1. ASSUME read, record # NoRecord
        PROVE  \E i \in mark + 1 .. Len(topic') : record = topic'[i]
    <3>1. PICK i \in mark + 1 .. Len(topic) : record = topic[i]
      BY <2>1 DEF FreshInv, RecordInv
    <3>2. i \in 1 .. Len(topic) /\ i \in mark + 1 .. Len(topic')
      BY <1>3, <1>4, <3>1
    <3> QED
      BY <1>4, <3>1, <3>2
  <2> QED
    BY <1>1, <2>1 DEF FreshInv, RecordInv
<1>7. CheckedInv'
  BY <1>1 DEF FreshInv, CheckedInv, Passed
<1> QED
  BY <1>5, <1>6, <1>7 DEF FreshInv

\* Only CheckRecord makes check (c).
LEMMA CheckedOnce ==
  ASSUME Run, ~ CheckRecord, Passed("c")'
  PROVE  Passed("c")
<1>1. ASSUME NEW c, NEW p, c # "c", Report(c, p) PROVE Passed("c")
  BY <1>1 DEF Passed, Report
<1>2. CASE SyncTopology
  <2>1. PICK p : Report("a", p)
    BY <1>2 DEF SyncTopology
  <2> QED
    BY <1>1, <2>1
<1>3. CASE Dispatch
  BY <1>1, <1>3 DEF Dispatch, Passed
<1>4. CASE SendTampered \/ SendWrongKey
  <2>1. PICK c \in {"tampered", "wrong key"} : \E p : Report(c, p)
    BY <1>4, NegativeLemma
  <2> QED
    BY <1>1, <2>1
<1>5. CASE Aggregate
  <2>1. PICK answer :
          \/ rows' = rows \union {[check |-> c, pass |-> FALSE] : c \in {"d", "e"}}
          \/ rows' = rows
          \/ rows' = rows \union verify_rav(answer.rav)
    BY <1>5 DEF Aggregate
  <2>2. [check |-> "c", pass |-> TRUE] \notin verify_rav(answer.rav)
    BY DEF verify_rav
  <2> QED
    BY <2>1, <2>2 DEF Passed
<1>6. CASE ReadBaseline \/ Poll \/ FetchDomain \/ Finish
  BY <1>6 DEF ReadBaseline, Poll, FetchDomain, Finish, Passed
<1> QED
  BY <1>2, <1>3, <1>4, <1>5, <1>6 DEF Run

\* How the run goes on: it never looks again, and checks the record once.
LEMMA StageLemma ==
  ASSUME Run
  PROVE  /\ pc # "done"
         /\ pc' \in Looking => pc \in Looking
         /\ pc' = "check" => Poll
         /\ CheckRecord => pc = "check" /\ pc' = "domain"
<1>1. pc # "done"
  BY DEF Run, SyncTopology, ReadBaseline, Dispatch, Poll, CheckRecord, FetchDomain,
     Aggregate, SendTampered, SendWrongKey, Negative, Finish, Request
<1>2. pc' \in Looking => pc \in Looking
  BY DEF Looking, Run, SyncTopology, ReadBaseline, Dispatch, Poll, CheckRecord,
     FetchDomain, Aggregate, SendTampered, SendWrongKey, Negative, Finish, Request
<1>3. pc' = "check" => Poll
  BY DEF Run, SyncTopology, ReadBaseline, Dispatch, CheckRecord, FetchDomain,
     Aggregate, SendTampered, SendWrongKey, Negative, Finish
<1>4. CheckRecord => pc = "check" /\ pc' = "domain"
  BY DEF CheckRecord
<1> QED
  BY <1>1, <1>2, <1>3, <1>4

LEMMA FreshRun == TypeInv /\ FreshInv /\ Run => FreshInv'
<1> SUFFICES ASSUME TypeInv, FreshInv, Run PROVE FreshInv'
  OBVIOUS
<1>1. /\ topic \in Seq(Record) /\ Len(topic) \in Nat
      /\ baseline \in Int /\ mark \in 0 .. Len(topic)
      /\ topic' = topic
  <2>1. topic \in Seq(Record) /\ baseline \in -1 .. Len(topic) - 1 /\ mark \in 0 .. Len(topic)
    BY DEF TypeInv, PlacesOk
  <2>2. Len(topic) \in Nat
    BY <2>1
  <2> QED
    BY <2>1, <2>2, RunFrame
<1>2. BaselineInv'
  <2>1. CASE ReadBaseline
    <3>1. baseline' = latest_client_query /\ mark' = Len(topic) /\ read' = FetchOk
      BY <2>1 DEF ReadBaseline
    <3>2. SUFFICES ASSUME FetchOk, NEW i \in 1 .. Len(topic), i <= PageMax,
                          topic[i].by # "junk"
                   PROVE  i - 1 <= latest_client_query
      BY <1>1, <3>1 DEF BaselineInv
    <3>3. i \in DOMAIN topic
      BY <1>1
    <3> QED
      BY <1>1, <3>2, <3>3, LatestLemma
  <2>2. CASE ~ ReadBaseline
    BY <1>1, <2>2, RunFrame DEF FreshInv, BaselineInv
  <2> QED
    BY <2>1, <2>2
<1>3. RecordInv'
  <2>1. CASE ReadBaseline
    BY <2>1 DEF ReadBaseline, Request, FreshInv, RecordInv, Looking
  <2>2. CASE Poll
    <3>1. UNCHANGED <<mark, read>> /\ record = NoRecord
      BY <2>2 DEF Poll, Request, FreshInv, RecordInv, Looking, hist
    <3>2. CASE latest_client_query > baseline
      <4>1. record' = topic[latest_client_query + 1] /\ pc' = "check"
        BY <2>2, <3>2 DEF Poll
      <4> DEFINE i == latest_client_query + 1
      <4>2. latest_client_query # -1
        BY <1>1, <3>2 DEF TypeInv, PlacesOk
      <4>3. i \in 1 .. Len(topic) /\ i <= PageMax /\ topic[i].by # "junk"
        BY <1>1, <4>2, LatestLemma
      <4>4. read => i > mark
        <5>1. ASSUME read, i <= mark PROVE FALSE
          <6>1. i \in 1 .. mark
            BY <1>1, <4>3, <5>1
          <6>2. i - 1 <= baseline
            BY <4>3, <5>1, <6>1 DEF FreshInv, BaselineInv
          <6>3. latest_client_query \in Int
            BY <1>1, LatestLemma
          <6> QED
            BY <1>1, <3>2, <6>2, <6>3
        <5> QED
          BY <1>1, <4>3, <5>1
      <4>5. read => i \in mark + 1 .. Len(topic)
        BY <1>1, <4>3, <4>4
      <4>6. read' => \E k \in mark' + 1 .. Len(topic') : record' = topic'[k]
        BY <1>1, <3>1, <4>1, <4>5
      <4> QED
        BY <4>1, <4>6 DEF RecordInv, Looking
    <3>3. CASE ~ (latest_client_query > baseline)
      BY <2>2, <3>1, <3>3 DEF Poll, RecordInv
    <3> QED
      BY <3>2, <3>3
  <2>3. CASE ~ ReadBaseline /\ ~ Poll
    BY <1>1, <2>3, RunFrame, StageLemma DEF FreshInv, RecordInv
  <2> QED
    BY <2>1, <2>2, <2>3
<1>4. CheckedInv'
  <2>1. CASE CheckRecord
    <3>1. Passed("c")' => Passed("c") \/ (record # NoRecord /\ record.signer = SignerKey)
      BY <2>1 DEF CheckRecord, Passed
    <3>2. pc' = "domain" /\ record' = record
      BY <2>1 DEF CheckRecord, found
    <3> QED
      BY <3>1, <3>2 DEF FreshInv, CheckedInv, Looking
  <2>2. CASE ~ CheckRecord
    <3>1. Passed("c")' => Passed("c")
      BY <2>2, CheckedOnce
    <3>2. CASE Passed("c")
      <4>1. pc \notin Looking \union {"check"} /\ record # NoRecord
            /\ record.signer = SignerKey
        BY <3>2 DEF FreshInv, CheckedInv
      <4>2. ~ Poll
        BY <4>1 DEF Poll, Request, Looking
      <4>3. pc' \notin Looking \union {"check"} /\ record' = record
        BY <4>1, <4>2, RunFrame, StageLemma
      <4> QED
        BY <4>1, <4>3 DEF CheckedInv
    <3> QED
      BY <3>1, <3>2 DEF CheckedInv
  <2> QED
    BY <2>1, <2>2
<1> QED
  BY <1>2, <1>3, <1>4 DEF FreshInv

LEMMA FreshInvariance == Spec => []FreshInv
<1>1. TypeInv /\ FreshInv /\ [Next]_vars => FreshInv'
  <2>1. FreshInv /\ UNCHANGED vars => FreshInv'
    BY DEF FreshInv, BaselineInv, RecordInv, CheckedInv, Passed, vars, deployment,
       kafka, found, hist
  <2> QED
    BY <2>1, FreshDeployment, FreshRun DEF Next
<1> QED
  BY <1>1, FreshInit, TypeInvariance, PTL DEF Spec

\* Whatever clients, peers and Kafka do meanwhile, and however long the topic and
\* the page are: when the baseline request brought records, check (c) passes only
\* for a record that was written after it.
THEOREM FreshTheorem == Spec => []SignerIsFresh
<1>1. TypeInv /\ FreshInv => SignerIsFresh
  <2> SUFFICES ASSUME TypeInv, FreshInv, Passed("c"), read
               PROVE  \E i \in mark + 1 .. Len(topic) : topic[i].signer = SignerKey
    BY DEF SignerIsFresh
  <2>1. record # NoRecord /\ record.signer = SignerKey
    BY DEF FreshInv, CheckedInv
  <2>2. PICK i \in mark + 1 .. Len(topic) : record = topic[i]
    BY <2>1 DEF FreshInv, RecordInv
  <2> QED
    BY <2>1, <2>2
<1> QED
  BY <1>1, FreshInvariance, TypeInvariance, PTL
-----------------------------------------------------------------------------
(***************************************************************************)
(* Exit code 0 is evidence.                                                 *)
(***************************************************************************)
Failed(check) == [check |-> check, pass |-> FALSE] \in rows
Made(check) == Passed(check) \/ Failed(check)

\* The run has not ended, and exit code 0 leaves no failed check.
ExitInv ==
  /\ pc # "done" => exit = -1
  /\ exit = 0 => \A check : ~ Failed(check)

\* Past the request or the look a check waits for, the check is made.
MadeInv ==
  /\ pc # "topology" => Made("a")
  /\ pc \notin Looking \union {"check"} => Made("b") /\ Made("c")

\* A RAV that passed was made with the configured key in the configured domain,
\* unless its aggregator breaks the protocol.
RavOk ==
  \/ Failed("d")
  \/ /\ rav_by # NoAggregator
     /\ \/ Failed("d signer")
        \/ rav_by.honest => rav_by.key = SignerKey /\ DomainOf(rav_by.info) = domain

RavInv == pc \in {"tampered", "wrong key", "table"} \/ exit = 0 => RavOk

\* Both bad receipts are sent, and one that became a RAV failed its check.
RepliesInv ==
  /\ pc \in {"wrong key", "table"} \/ exit = 0 => \E k : <<"tampered", k>> \in replies
  /\ pc = "table" \/ exit = 0 => \E k : <<"wrong key", k>> \in replies
  /\ \A label \in {"tampered", "wrong key"} : <<label, "rav">> \in replies => Failed(label)

EvidenceInv == ExitInv /\ MadeInv /\ RavInv /\ RepliesInv

LEMMA EvidenceInit == Init => EvidenceInv
<1> SUFFICES ASSUME Init PROVE EvidenceInv
  OBVIOUS
<1>1. pc = "topology" /\ exit = -1 /\ replies = {}
  BY DEF Init
<1> QED
  BY <1>1 DEF EvidenceInv, ExitInv, MadeInv, RavInv, RepliesInv, Looking

LEMMA EvidenceFrame ==
  ASSUME EvidenceInv, UNCHANGED <<pc, rows, exit, rav_by, replies>>
  PROVE  EvidenceInv'
<1>1. ExitInv'
  BY DEF EvidenceInv, ExitInv, Failed
<1>2. MadeInv'
  BY DEF EvidenceInv, MadeInv, Made, Passed, Failed
<1>3. RavInv'
  BY DEF EvidenceInv, RavInv, RavOk, Failed
<1>4. RepliesInv'
  BY DEF EvidenceInv, RepliesInv, Failed
<1> QED
  BY <1>1, <1>2, <1>3, <1>4 DEF EvidenceInv

\* No row is ever taken back.
LEMMA RowsStay ==
  ASSUME Run
  PROVE  \A check : /\ Failed(check) => Failed(check)'
                    /\ Passed(check) => Passed(check)'
                    /\ Made(check) => Made(check)'
<1>1. rows \subseteq rows'
  BY DEF Run, SyncTopology, ReadBaseline, Dispatch, Poll, CheckRecord, FetchDomain,
     Aggregate, SendTampered, SendWrongKey, Negative, Finish, Report
<1> QED
  BY <1>1 DEF Failed, Passed, Made

\* Where each step comes from and leads to.
LEMMA NextStage ==
  ASSUME Run
  PROVE  /\ pc = "topology" => SyncTopology
         /\ pc' # "topology"
         /\ pc \in Looking \union {"check"} /\ pc' \notin Looking \union {"check"}
              => CheckRecord
         /\ pc' = "tampered" => Aggregate
         /\ pc' = "wrong key" => SendTampered
         /\ pc' = "table" => SendWrongKey
         /\ Aggregate => pc = "aggregate" /\ pc' \in {"tampered", "done"}
         /\ Finish => pc = "table" /\ pc' = "done"
         /\ pc' = "done" => Aggregate \/ Finish
<1>1. /\ pc = "topology" => SyncTopology
      /\ pc' # "topology"
  BY DEF Run, SyncTopology, ReadBaseline, Dispatch, Poll, CheckRecord, FetchDomain,
     Aggregate, SendTampered, SendWrongKey, Negative, Finish, Request
<1>2. pc \in Looking \union {"check"} /\ pc' \notin Looking \union {"check"} => CheckRecord
  BY DEF Looking, Run, SyncTopology, ReadBaseline, Dispatch, Poll, FetchDomain,
     Aggregate, SendTampered, SendWrongKey, Negative, Finish, Request
<1>3. pc' = "tampered" => Aggregate
  BY DEF Run, SyncTopology, ReadBaseline, Dispatch, Poll, CheckRecord, FetchDomain,
     SendTampered, SendWrongKey, Negative, Finish
<1>4. pc' = "wrong key" => SendTampered
  BY DEF Run, SyncTopology, ReadBaseline, Dispatch, Poll, CheckRecord, FetchDomain,
     Aggregate, SendWrongKey, Negative, Finish
<1>5. pc' = "table" => SendWrongKey
  BY DEF Run, SyncTopology, ReadBaseline, Dispatch, Poll, CheckRecord, FetchDomain,
     Aggregate, SendTampered, Negative, Finish
<1>6. Aggregate => pc = "aggregate" /\ pc' \in {"tampered", "done"}
  BY DEF Aggregate, Request
<1>7. Finish => pc = "table" /\ pc' = "done"
  BY DEF Finish
<1>8. pc' = "done" => Aggregate \/ Finish
  BY DEF Run, SyncTopology, ReadBaseline, Dispatch, Poll, CheckRecord, FetchDomain,
     SendTampered, SendWrongKey, Negative
<1> QED
  BY <1>1, <1>2, <1>3, <1>4, <1>5, <1>6, <1>7, <1>8

\* What a RAV that aggregate returned shows, once it is verified.
LEMMA RavLemma ==
  ASSUME TypeInv, Aggregate, pc' = "tampered"
  PROVE  RavOk'
<1>1. PICK answer \in aggregate({mint_receipt(SignerKey, v) : v \in {100, 200, 300}}, 600) :
        \/ rows' = rows \union {[check |-> c, pass |-> FALSE] : c \in {"d", "e"}}
        \/ /\ answer.kind = "rav"
           /\ rows' = rows \union verify_rav(answer.rav)
           /\ rav_by' = aggregator
  BY DEF Aggregate
<1>2. CASE rows' = rows \union {[check |-> c, pass |-> FALSE] : c \in {"d", "e"}}
  BY <1>2 DEF RavOk, Failed
<1>3. CASE /\ answer.kind = "rav"
           /\ rows' = rows \union verify_rav(answer.rav)
           /\ rav_by' = aggregator
  <2>1. rav_by' # NoAggregator
    BY <1>3, NobodyLemma DEF TypeInv, DeploymentOk
  <2>2. [check |-> "d signer", pass |-> recover_signer(answer.rav, domain) = SignerKey]
          \in rows'
    BY <1>3 DEF verify_rav
  <2>3. CASE recover_signer(answer.rav, domain) = SignerKey
    <3>1. SUFFICES ASSUME aggregator.honest
                   PROVE  aggregator.key = SignerKey /\ DomainOf(aggregator.info) = domain
      BY <1>3, <2>1 DEF RavOk
    <3>2. answer.rav = RavOf(aggregator, 600)
      BY <1>3, <3>1, AnswerLemma
    <3>3. /\ answer.rav.signer = aggregator.key
          /\ answer.rav.domain = DomainOf(aggregator.info)
      BY <3>2 DEF RavOf
    <3>4. SignerKey # Junk
      BY SignerAssumption, NobodyAssumption
    <3> QED
      BY <2>3, <3>3, <3>4 DEF recover_signer
  <2>4. CASE recover_signer(answer.rav, domain) # SignerKey
    BY <2>1, <2>2, <2>4 DEF RavOk, Failed
  <2> QED
    BY <2>3, <2>4
<1> QED
  BY <1>1, <1>2, <1>3

LEMMA EvidenceRun == TypeInv /\ EvidenceInv /\ Run => EvidenceInv'
<1> SUFFICES ASSUME TypeInv, EvidenceInv, Run PROVE EvidenceInv'
  OBVIOUS
<1>1. pc # "done" /\ exit = -1
  BY StageLemma DEF EvidenceInv, ExitInv
<1>2. exit' = 0 => Finish /\ \A r \in rows : r.pass
  <2>1. exit' = 0 => Finish
    BY <1>1, RunFrame DEF Aggregate
  <2> QED
    BY <2>1 DEF Finish
<1>3. ExitInv'
  <2>1. pc' # "done" => exit' = -1
    <3>1. CASE Aggregate
      BY <1>1, <3>1 DEF Aggregate
    <3>2. CASE Finish
      BY <3>2 DEF Finish
    <3> QED
      BY <1>1, <3>1, <3>2, RunFrame
  <2>2. ASSUME exit' = 0, NEW check PROVE ~ Failed(check)'
    <3>1. rows' = rows /\ \A r \in rows : r.pass
      BY <1>2, <2>2 DEF Finish
    <3>2. Failed(check) => [check |-> check, pass |-> FALSE].pass
      BY <3>1 DEF Failed
    <3> QED
      BY <3>1, <3>2 DEF Failed
  <2> QED
    BY <2>1, <2>2 DEF ExitInv
<1>4. MadeInv'
  <2>1. Made("a")'
    <3>1. CASE SyncTopology
      <4>1. PICK p \in BOOLEAN : Report("a", p)
        BY <3>1 DEF SyncTopology
      <4> QED
        BY <4>1 DEF Report, Made, Passed, Failed
    <3>2. CASE pc # "topology"
      BY <3>2, RowsStay DEF EvidenceInv, MadeInv
    <3> QED
      BY <3>1, <3>2, NextStage
  <2>2. ASSUME pc' \notin Looking \union {"check"} PROVE Made("b")' /\ Made("c")'
    <3>1. CASE CheckRecord
      <4>1. PICK p \in BOOLEAN, q \in BOOLEAN :
              rows' = rows \union {[check |-> "b", pass |-> p], [check |-> "c", pass |-> q]}
        BY <3>1 DEF CheckRecord
      <4> QED
        BY <4>1 DEF Made, Passed, Failed
    <3>2. CASE pc \notin Looking \union {"check"}
      BY <3>2, RowsStay DEF EvidenceInv, MadeInv
    <3> QED
      BY <2>2, <3>1, <3>2, NextStage
  <2> QED
    BY <2>1, <2>2 DEF MadeInv
<1>5. RavInv'
  <2>1. SUFFICES ASSUME pc' \in {"tampered", "wrong key", "table"} \/ exit' = 0
                 PROVE  RavOk'
    BY DEF RavInv
  <2>2. CASE pc' = "tampered"
    BY <2>2, RavLemma, NextStage
  <2>3. CASE pc' # "tampered"
    <3>1. pc \in {"tampered", "wrong key", "table"}
      <4>1. SendTampered => pc = "tampered"
        BY DEF SendTampered, Negative, Request
      <4>2. SendWrongKey => pc = "wrong key"
        BY DEF SendWrongKey, Negative, Request
      <4> QED
        BY <1>2, <2>1, <2>3, <4>1, <4>2, NextStage
    <3>2. ~ Aggregate
      BY <3>1, NextStage
    <3>3. RavOk /\ rav_by' = rav_by
      BY <3>1, <3>2, RunFrame DEF EvidenceInv, RavInv
    <3> QED
      BY <3>3, RowsStay DEF RavOk
  <2> QED
    BY <2>2, <2>3
<1>6. RepliesInv'
  <2>1. CASE SendTampered \/ SendWrongKey
    <3>1. PICK label \in {"tampered", "wrong key"}, kind \in {"rav", "rejected", "unreachable"} :
            /\ pc = label
            /\ pc' = IF label = "tampered" THEN "wrong key" ELSE "table"
            /\ Report(label, kind # "rav")
            /\ replies' = replies \union {<<label, kind>>}
      BY <2>1, NegativeLemma
    <3>2. exit' # 0
      BY <1>2, <3>1, NextStage
    <3>3. pc' \in {"wrong key", "table"} => \E k : <<"tampered", k>> \in replies'
      <4>1. CASE label = "tampered"
        BY <3>1, <4>1
      <4>2. CASE label = "wrong key"
        <5>1. PICK k : <<"tampered", k>> \in replies
          BY <3>1, <4>2 DEF EvidenceInv, RepliesInv
        <5> QED
          BY <3>1, <5>1
      <4> QED
        BY <4>1, <4>2
    <3>4. pc' = "table" => \E k : <<"wrong key", k>> \in replies'
      BY <3>1
    <3>5. ASSUME NEW other \in {"tampered", "wrong key"}, <<other, "rav">> \in replies'
          PROVE  Failed(other)'
      <4>1. CASE <<other, "rav">> \in replies
        BY <4>1, RowsStay DEF EvidenceInv, RepliesInv
      <4>2. CASE <<other, "rav">> = <<label, kind>>
        <5>1. other = label /\ kind = "rav"
          BY <4>2
        <5> QED
          BY <3>1, <5>1 DEF Report, Failed
      <4> QED
        BY <3>1, <3>5, <4>1, <4>2
    <3> QED
      BY <3>2, <3>3, <3>4, <3>5 DEF RepliesInv
  <2>2. CASE ~ SendTampered /\ ~ SendWrongKey
    <3>1. replies' = replies
      BY <2>2, RunFrame
    <3>2. pc' \notin {"wrong key", "table"} /\ (exit' = 0 => pc = "table")
      BY <1>2, <2>2, NextStage
    <3> QED
      BY <3>1, <3>2, RowsStay DEF EvidenceInv, RepliesInv
  <2> QED
    BY <2>1, <2>2
<1> QED
  BY <1>3, <1>4, <1>5, <1>6 DEF EvidenceInv

LEMMA EvidenceInvariance == Spec => []EvidenceInv
<1>1. TypeInv /\ EvidenceInv /\ [Next]_vars => EvidenceInv'
  <2>1. EvidenceInv /\ UNCHANGED vars => EvidenceInv'
    BY EvidenceFrame DEF vars, hist
  <2>2. Deployment => UNCHANGED <<pc, rows, exit, rav_by, replies>>
    BY DEF Deployment, PeerChanges, GatewayRestarts, AggregatorRestarts, TopicExpires,
       ClientQuery, WriteOwed, Change, run, hist
  <2> QED
    BY <2>1, <2>2, EvidenceFrame, EvidenceRun DEF Next
<1> QED
  BY <1>1, EvidenceInit, TypeInvariance, PTL DEF Spec

LEMMA PairLemma ==
  ASSUME NEW A, NEW B, NEW p \in A \X B
  PROVE  p[1] \in A /\ p = <<p[1], p[2]>>
  OBVIOUS

\* Whatever the deployment does during the run: exit code 0 means that checks (a)
\* to (c) passed, that an aggregator which follows the protocol made the RAV with
\* the configured key in the configured domain, and that no bad receipt became a
\* RAV.
THEOREM EvidenceTheorem == Spec => []PassIsEvidence
<1>1. TypeInv /\ EvidenceInv => PassIsEvidence
  <2> SUFFICES ASSUME TypeInv, EvidenceInv, exit = 0 PROVE PassIsEvidence
    BY DEF PassIsEvidence
  <2>1. pc = "done" /\ \A check : ~ Failed(check)
    BY DEF EvidenceInv, ExitInv
  <2>2. Passed("a") /\ Passed("b") /\ Passed("c")
    BY <2>1 DEF EvidenceInv, MadeInv, Made, Looking
  <2>3. /\ rav_by # NoAggregator
        /\ rav_by.honest => rav_by.key = SignerKey /\ DomainOf(rav_by.info) = domain
    BY <2>1 DEF EvidenceInv, RavInv, RavOk
  <2>4. replies \subseteq {"tampered", "wrong key"} \X {"rav", "rejected", "unreachable"}
    BY DEF TypeInv, RunOk
  <2>5. {reply[1] : reply \in replies} = {"tampered", "wrong key"}
    <3>1. PICK k : <<"tampered", k>> \in replies
      BY DEF EvidenceInv, RepliesInv
    <3>2. PICK l : <<"wrong key", l>> \in replies
      BY DEF EvidenceInv, RepliesInv
    <3>3. <<"tampered", k>>[1] = "tampered" /\ <<"wrong key", l>>[1] = "wrong key"
      OBVIOUS
    <3>4. \A reply \in replies : reply[1] \in {"tampered", "wrong key"}
      BY <2>4
    <3> QED
      BY <3>1, <3>2, <3>3, <3>4
  <2>6. \A reply \in replies : reply[2] # "rav"
    <3> SUFFICES ASSUME NEW reply \in replies, reply[2] = "rav" PROVE FALSE
      OBVIOUS
    <3>1. reply \in {"tampered", "wrong key"} \X {"rav", "rejected", "unreachable"}
      BY <2>4
    <3>2. reply[1] \in {"tampered", "wrong key"} /\ reply = <<reply[1], reply[2]>>
      BY <3>1, PairLemma, Zenon
    <3>3. <<reply[1], "rav">> \in replies
      BY <3>2, Zenon
    <3> QED
      BY <2>1, <3>2, <3>3 DEF EvidenceInv, RepliesInv
  <2> QED
    BY <2>2, <2>3, <2>5, <2>6 DEF PassIsEvidence
<1> QED
  BY <1>1, EvidenceInvariance, TypeInvariance, PTL
-----------------------------------------------------------------------------
(***************************************************************************)
(* No false alarm.                                                          *)
(***************************************************************************)
AllUp == first = 0 /\ \A p \in Peers : peers[p] = "up"

\* Every record behind the mark, and the one still to be written, is signed with
\* the configured key.
SignedInv ==
  /\ owed # NoRecord => owed.signer = SignerKey
  /\ \/ pc \in {"topology", "baseline"}
     \/ read /\ \A i \in mark + 1 .. Len(topic) : topic[i].signer = SignerKey

\* Only checks (a) to (c) can have failed: (a) without having passed, (b) and (c)
\* for want of a record of a query that found an indexer.
FailuresInv ==
  /\ pc = "topology" => rows = {}
  /\ ~ (Failed("a") /\ Passed("a"))
  /\ Failed("b") \/ Failed("c") =>
       /\ pc \notin Looking \union {"check"}
       /\ record = NoRecord \/ record.candidates = 0
  /\ \A check \in Checks \ {"a", "b", "c"} : ~ Failed(check)

CalmInv ==
  /\ changes = 0 => AllUp
  /\ InOrder => /\ SignedInv
                /\ FailuresInv
                /\ pc = "aggregate" => domain_ok
                /\ pc = "done" => exit = 0 \/ \E check \in Checks : Failed(check)

LEMMA CalmInit == Init => CalmInv
<1> SUFFICES ASSUME Init PROVE CalmInv
  OBVIOUS
<1>1. AllUp
  BY DEF Init, AllUp
<1>2. SignedInv /\ FailuresInv
  BY DEF Init, SignedInv, FailuresInv, Failed
<1>3. pc = "topology"
  BY DEF Init
<1> QED
  BY <1>1, <1>2, <1>3 DEF CalmInv

\* An aggregator in order advertises a domain that matches.
LEMMA DomainLemma ==
  ASSUME aggregator \in Aggregators, DomainOf(aggregator.info) = domain
  PROVE  domain_matches(aggregator.info, cfg)
<1>1. /\ ChainOf(aggregator.info) = cfg.chain_id
      /\ aggregator.info.verifyingContract = cfg.verifier
  BY DEF DomainOf, domain
<1>2. aggregator.info.form # "hex" => Decimal(aggregator.info.digits)
  BY DigitsAssumption
<1> QED
  BY <1>1, <1>2 DEF domain_matches, ChainOf

LEMMA TamperedLemma ==
  ASSUME NEW receipt \in [signer : {SignerKey}, domain : {domain}, signed : {100},
                          value : {100}]
  PROVE  tampered(receipt).signed = 100 /\ tampered(receipt).value = 999999
  BY DEF tampered

\* It makes the RAV of good receipts, and refuses bad ones.
LEMMA OrderlyAnswers ==
  ASSUME TypeInv, InOrder, AllUp, NEW total
  PROVE  /\ \A answer \in
               aggregate({mint_receipt(SignerKey, v) : v \in {100, 200, 300}}, total) :
              answer.kind = "rav" /\ answer.rav = RavOf(aggregator, total)
         /\ \A receipt \in {tampered(mint_receipt(SignerKey, 100)), mint_receipt(WrongKey, 100)} :
              \A answer \in aggregate({receipt}, total) : answer.kind # "rav"
<1>1. /\ aggregator.honest /\ aggregator.key = SignerKey
      /\ DomainOf(aggregator.info) = domain
      /\ peers["aggregator"] = "up"
  BY DEF InOrder, AllUp, Peers
<1>2. aggregator.accepts \subseteq Signers
  BY AggregatorAssumption DEF TypeInv, DeploymentOk, InOrder
<1>3. SignerKey \in Signers /\ WrongKey # SignerKey /\ Junk \notin Signers
  BY SignerAssumption, NobodyAssumption
<1> DEFINE Known == {aggregator.key} \union aggregator.accepts
<1>4. Junk \notin Known /\ WrongKey \notin Known /\ SignerKey \in Known
  BY <1>1, <1>2, <1>3 DEF InOrder
<1>5. ASSUME NEW answer \in
               aggregate({mint_receipt(SignerKey, v) : v \in {100, 200, 300}}, total)
      PROVE  answer.kind = "rav" /\ answer.rav = RavOf(aggregator, total)
  <2>1. \A v : recover_signer(mint_receipt(SignerKey, v), domain) = SignerKey
    BY DEF mint_receipt, recover_signer
  <2>2. \A r \in {mint_receipt(SignerKey, v) : v \in {100, 200, 300}} :
          recover_signer(r, DomainOf(aggregator.info)) \in Known
    BY <1>1, <1>4, <2>1
  <2>3. answer \in {[kind |-> "rav", rav |-> RavOf(aggregator, total)]}
    <3> HIDE DEF Known
    <3> QED
      BY <1>1, <1>5, <2>2 DEF aggregate, Known
  <2> QED
    BY <2>3
<1>6. ASSUME NEW receipt, recover_signer(receipt, domain) \notin Known,
             NEW answer \in aggregate({receipt}, total)
      PROVE  answer.kind # "rav"
  <2>1. answer = NoReply("rejected")
    BY <1>1, <1>6 DEF aggregate
  <2> QED
    BY <2>1 DEF NoReply
<1>7. recover_signer(tampered(mint_receipt(SignerKey, 100)), domain) = Junk
  <2>1. mint_receipt(SignerKey, 100) \in
          [signer : {SignerKey}, domain : {domain}, signed : {100}, value : {100}]
    BY DEF mint_receipt
  <2>2. /\ tampered(mint_receipt(SignerKey, 100)).signed = 100
        /\ tampered(mint_receipt(SignerKey, 100)).value = 999999
    BY <2>1, TamperedLemma
  <2> QED
    BY <2>2 DEF recover_signer
<1>8. recover_signer(mint_receipt(WrongKey, 100), domain) = WrongKey
  BY DEF mint_receipt, recover_signer
<1> QED
  BY <1>4, <1>5, <1>6, <1>7, <1>8

\* A deployment in order was so before.
LEMMA OrderStays ==
  ASSUME TypeInv, Next, InOrder'
  PROVE  /\ InOrder
         /\ UNCHANGED <<peers, first, changes, gateway_signer, aggregator>>
<1>1. changes \in Nat
  BY LimitAssumption DEF TypeInv, DeploymentOk
<1>2. ~ Change
  BY <1>1 DEF InOrder, Change
<1>3. UNCHANGED <<peers, first, changes, gateway_signer, aggregator>>
  <2>1. CASE Run
    BY <2>1, RunFrame
  <2>2. CASE Deployment
    BY <1>2, <2>2 DEF Deployment, PeerChanges, GatewayRestarts, AggregatorRestarts,
       TopicExpires, ClientQuery, WriteOwed, deployment
  <2> QED
    BY <2>1, <2>2 DEF Next
<1> QED
  BY <1>3 DEF InOrder

LEMMA UpStays == TypeInv /\ CalmInv /\ Next => (changes' = 0 => AllUp')
<1> SUFFICES ASSUME TypeInv, CalmInv, Next, changes' = 0 PROVE AllUp'
  OBVIOUS
<1>1. changes \in Nat
  BY LimitAssumption DEF TypeInv, DeploymentOk
<1>2. ~ Change
  BY <1>1 DEF Change
<1>3. UNCHANGED <<peers, first, changes>>
  <2>1. CASE Run
    BY <2>1, RunFrame
  <2>2. CASE Deployment
    BY <1>2, <2>2 DEF Deployment, PeerChanges, GatewayRestarts, AggregatorRestarts,
       TopicExpires, ClientQuery, WriteOwed, deployment
  <2> QED
    BY <2>1, <2>2 DEF Next
<1> QED
  BY <1>3 DEF CalmInv, AllUp

\* Clients and the gateway sign what they write with the configured key.
LEMMA CalmDeployment ==
  ASSUME TypeInv, CalmInv, Deployment, InOrder'
  PROVE  /\ SignedInv' /\ UNCHANGED <<pc, rows, record, domain_ok, exit>>
<1>1. UNCHANGED <<pc, rows, record, domain_ok, exit, mark, read>>
  BY DEF Deployment, PeerChanges, GatewayRestarts, AggregatorRestarts, TopicExpires,
     ClientQuery, WriteOwed, Change, run, found, hist
<1>2. InOrder /\ UNCHANGED changes
  BY OrderStays DEF Next
<1>3. SignedInv /\ gateway_signer = SignerKey
  BY <1>2 DEF CalmInv, InOrder
<1>4. changes \in Nat
  BY LimitAssumption DEF TypeInv, DeploymentOk
<1>5. ClientQuery \/ WriteOwed
  BY <1>2, <1>4 DEF Deployment, PeerChanges, GatewayRestarts, AggregatorRestarts,
     TopicExpires, Change
<1>6. PICK r : topic' = Append(topic, r) /\ r.signer = SignerKey
  <2>1. CASE ClientQuery
    BY <1>3, <2>1 DEF ClientQuery
  <2>2. CASE WriteOwed
    BY <1>3, <2>2 DEF WriteOwed, SignedInv
  <2> QED
    BY <1>5, <2>1, <2>2
<1>7. owed' # NoRecord => owed'.signer = SignerKey
  BY <1>3, <1>5 DEF ClientQuery, WriteOwed, SignedInv
<1>8. topic \in Seq(Record) /\ mark \in 0 .. Len(topic) /\ Len(topic) \in Nat
  BY DEF TypeInv, PlacesOk
<1>9. ASSUME \A i \in mark + 1 .. Len(topic) : topic[i].signer = SignerKey
      PROVE  \A i \in mark + 1 .. Len(topic') : topic'[i].signer = SignerKey
  <2> SUFFICES ASSUME NEW i \in mark + 1 .. Len(topic') PROVE topic'[i].signer = SignerKey
    OBVIOUS
  <2>1. Len(topic') = Len(topic) + 1
    BY <1>6, <1>8
  <2>2. CASE i = Len(topic) + 1
    <3>1. topic'[i] = r
      BY <1>6, <1>8, <2>2
    <3> QED
      BY <1>6, <3>1
  <2>3. CASE i # Len(topic) + 1
    <3>1. i \in mark + 1 .. Len(topic) /\ i \in 1 .. Len(topic)
      BY <1>8, <2>1, <2>3
    <3>2. topic'[i] = topic[i]
      BY <1>6, <1>8, <3>1
    <3> QED
      BY <1>9, <3>1, <3>2
  <2> QED
    BY <2>2, <2>3
<1> QED
  BY <1>1, <1>3, <1>7, <1>9 DEF SignedInv

LEMMA SignedRun ==
  ASSUME TypeInv, SignedInv, AllUp, gateway_signer = SignerKey, Run
  PROVE  SignedInv'
<1>1. owed' # NoRecord => owed'.signer = SignerKey
  <2>1. CASE Dispatch
    <3>1. PICK n \in {0, 1} :
            \/ owed' = [signer |-> gateway_signer, candidates |-> n, by |-> "smoke"]
            \/ owed' = NoRecord
            \/ owed' = owed
      BY <2>1 DEF Dispatch
    <3>2. [signer |-> gateway_signer, candidates |-> n, by |-> "smoke"].signer = SignerKey
      OBVIOUS
    <3> QED
      BY <3>1, <3>2 DEF SignedInv
  <2> QED
    BY <2>1, RunFrame DEF SignedInv
<1>2. topic \in Seq(Record) /\ Len(topic) \in Nat /\ topic' = topic
  BY RunFrame DEF TypeInv, PlacesOk
<1>3. \/ pc' \in {"topology", "baseline"}
      \/ read' /\ \A i \in mark' + 1 .. Len(topic') : topic'[i].signer = SignerKey
  <2>1. CASE ReadBaseline
    <3>1. read' /\ mark' = Len(topic)
      BY <2>1 DEF ReadBaseline, FetchOk, AllUp, Peers
    <3>2. mark' + 1 .. Len(topic') = {}
      BY <1>2, <3>1
    <3> QED
      BY <3>1, <3>2
  <2>2. CASE SyncTopology
    BY <2>2 DEF SyncTopology
  <2>3. CASE ~ ReadBaseline /\ ~ SyncTopology
    <3>1. pc \notin {"topology", "baseline"}
      BY <2>3 DEF Run, Dispatch, Poll, CheckRecord, FetchDomain, Aggregate,
         SendTampered, SendWrongKey, Negative, Finish, Request
    <3> QED
      BY <1>2, <2>3, <3>1, RunFrame DEF SignedInv
  <2> QED
    BY <2>1, <2>2, <2>3
<1> QED
  BY <1>1, <1>3 DEF SignedInv

\* A step that fails no check keeps what is known of the failed ones.
LEMMA FailuresFrame ==
  ASSUME FailuresInv, Run, ~ CheckRecord,
         \A check : Failed(check)' => Failed(check),
         Passed("a")' => Passed("a")
  PROVE  FailuresInv'
<1>1. pc' # "topology"
  BY NextStage
<1>2. ~ (Failed("a")' /\ Passed("a")')
  BY DEF FailuresInv
<1>3. \A check \in Checks \ {"a", "b", "c"} : ~ Failed(check)'
  BY DEF FailuresInv
<1>4. ASSUME Failed("b")' \/ Failed("c")'
      PROVE  /\ pc' \notin Looking \union {"check"}
             /\ record' = NoRecord \/ record'.candidates = 0
  <2>1. /\ pc \notin Looking \union {"check"}
        /\ record = NoRecord \/ record.candidates = 0
    BY <1>4 DEF FailuresInv
  <2>2. ~ Poll
    BY <2>1 DEF Poll, Request, Looking
  <2> QED
    BY <2>1, <2>2, RunFrame, StageLemma
<1> QED
  BY <1>1, <1>2, <1>3, <1>4 DEF FailuresInv

\* A check of the list that passes fails none.
LEMMA PassLemma ==
  ASSUME NEW new, rows' = rows \union new,
         \A check : [check |-> check, pass |-> FALSE] \notin new,
         [check |-> "a", pass |-> TRUE] \notin new
  PROVE  /\ \A check : Failed(check)' => Failed(check)
         /\ Passed("a")' => Passed("a")
  BY DEF Failed, Passed

LEMMA FailuresRun ==
  ASSUME TypeInv, FreshInv, SignedInv, FailuresInv, AllUp, InOrder,
         pc = "aggregate" => domain_ok, Run
  PROVE  FailuresInv' /\ (pc' = "done" => Finish)
<1>0. pc' = "done" => Aggregate \/ Finish
  BY NextStage
<1>1. CASE SyncTopology
  <2>1. rows = {}
    BY <1>1 DEF SyncTopology, Request, FailuresInv
  <2>2. PICK p \in BOOLEAN : rows' = {[check |-> "a", pass |-> p]}
    BY <1>1, <2>1 DEF SyncTopology, Report
  <2>3. ~ (Failed("a") /\ Passed("a"))' /\ \A check : check # "a" => ~ Failed(check)'
    BY <2>2 DEF Failed, Passed
  <2>4. pc' = "baseline"
    BY <1>1 DEF SyncTopology
  <2> QED
    BY <2>3, <2>4 DEF FailuresInv
<1>2. CASE ReadBaseline \/ Dispatch \/ Poll \/ FetchDomain \/ Finish
  <2>1. rows' = rows
    BY <1>2 DEF ReadBaseline, Dispatch, Poll, FetchDomain, Finish, AllUp, Peers
  <2>2. ~ CheckRecord /\ (pc' = "done" => Finish)
    <3>1. CASE Finish
      BY <3>1 DEF Finish, CheckRecord
    <3>2. CASE ReadBaseline \/ Dispatch \/ Poll \/ FetchDomain
      BY <3>2 DEF ReadBaseline, Dispatch, Poll, FetchDomain, Request, CheckRecord
    <3> QED
      BY <1>2, <3>1, <3>2
  <2>3. /\ \A check : Failed(check)' => Failed(check)
        /\ Passed("a")' => Passed("a")
    BY <2>1 DEF Failed, Passed
  <2> QED
    BY <2>2, <2>3, FailuresFrame
<1>3. CASE CheckRecord
  <2>1. /\ pc = "check" /\ pc' = "domain" /\ record' = record
        /\ rows' = rows \union
             {[check |-> "b", pass |-> record # NoRecord /\ record.candidates >= 1],
              [check |-> "c", pass |-> record # NoRecord /\ record.signer = SignerKey]}
    BY <1>3 DEF CheckRecord, found
  <2>2. ~ Failed("b") /\ ~ Failed("c")
    BY <2>1 DEF FailuresInv
  <2>3. record # NoRecord => record.signer = SignerKey
    <3>1. SUFFICES ASSUME record # NoRecord PROVE record.signer = SignerKey
      OBVIOUS
    <3>2. read /\ \A i \in mark + 1 .. Len(topic) : topic[i].signer = SignerKey
      BY <2>1 DEF SignedInv
    <3>3. PICK i \in mark + 1 .. Len(topic) : record = topic[i]
      BY <3>1, <3>2 DEF FreshInv, RecordInv
    <3> QED
      BY <3>2, <3>3
  <2>4. record.candidates \in {0, 1}
    BY DEF TypeInv, RunOk, Record
  <2>5. Failed("b")' \/ Failed("c")' => record = NoRecord \/ record.candidates = 0
    <3>1. Failed("c")' => record = NoRecord
      BY <2>1, <2>2, <2>3 DEF Failed
    <3>2. Failed("b")' => (record # NoRecord /\ record.candidates >= 1) = FALSE
      BY <2>1, <2>2 DEF Failed
    <3> QED
      BY <2>4, <3>1, <3>2
  <2>6. \A check \in Checks \ {"b", "c"} : Failed(check)' => Failed(check)
    BY <2>1 DEF Failed
  <2>7. (Passed("a") => Passed("a")') /\ (Passed("a")' => Passed("a"))
    BY <2>1 DEF Passed
  <2>8. "a" \in Checks
    BY DEF Checks
  <2>9. ~ (Failed("a")' /\ Passed("a")')
    BY <2>6, <2>7, <2>8 DEF FailuresInv
  <2>10. \A check \in Checks \ {"a", "b", "c"} : ~ Failed(check)'
    BY <2>6 DEF FailuresInv
  <2> QED
    BY <2>1, <2>5, <2>9, <2>10 DEF FailuresInv, Looking
<1>4. CASE Aggregate
  <2>1. PICK answer \in aggregate({mint_receipt(SignerKey, v) : v \in {100, 200, 300}}, 600) :
          IF answer.kind # "rav"
          THEN /\ rows' = rows \union {[check |-> c, pass |-> FALSE] : c \in {"d", "e"}}
               /\ pc' = "tampered"
          ELSE IF answer.rav.signer = Garbage
          THEN /\ pc' = "done"
               /\ rows' = rows
          ELSE /\ rows' = rows \union verify_rav(answer.rav)
               /\ pc' = "tampered"
    BY <1>4 DEF Aggregate
  <2>2. answer.kind = "rav" /\ answer.rav = RavOf(aggregator, 600)
    BY <2>1, OrderlyAnswers
  <2>3. aggregator.key = SignerKey /\ DomainOf(aggregator.info) = domain
    BY DEF InOrder
  <2>4. /\ answer.rav.signer = SignerKey /\ answer.rav.domain = domain
        /\ answer.rav.signed = 600 /\ answer.rav.value = 600
        /\ answer.rav.payer = TRUE /\ answer.rav.data_service = TRUE
    BY <2>2, <2>3 DEF RavOf
  <2>5. answer.rav.signer # Garbage
    BY <2>4, SignerAssumption, NobodyAssumption
  <2>6. rows' = rows \union verify_rav(answer.rav) /\ pc' = "tampered"
    BY <2>1, <2>2, <2>5
  <2>7. recover_signer(answer.rav, domain) = SignerKey
    BY <2>4 DEF recover_signer
  <2>8. domain_ok = TRUE
    BY <1>4, NextStage DEF TypeInv, RunOk
  <2>9. /\ \A check : [check |-> check, pass |-> FALSE] \notin verify_rav(answer.rav)
        /\ [check |-> "a", pass |-> TRUE] \notin verify_rav(answer.rav)
    <3>1. verify_rav(answer.rav) =
            {[check |-> "d signer", pass |-> TRUE], [check |-> "d domain", pass |-> TRUE],
             [check |-> "d value", pass |-> TRUE], [check |-> "e payer", pass |-> TRUE],
             [check |-> "e data service", pass |-> TRUE]}
      BY <2>4, <2>7, <2>8 DEF verify_rav
    <3> QED
      BY <3>1
  <2>10. ~ CheckRecord
    BY <2>6 DEF CheckRecord
  <2>11. /\ \A check : Failed(check)' => Failed(check)
         /\ Passed("a")' => Passed("a")
    BY <2>6, <2>9, PassLemma
  <2> QED
    BY <2>6, <2>10, <2>11, FailuresFrame
<1>5. CASE SendTampered \/ SendWrongKey
  <2>1. PICK label \in {"tampered", "wrong key"},
             receipt \in {tampered(mint_receipt(SignerKey, 100)), mint_receipt(WrongKey, 100)},
             then \in {"wrong key", "table"} :
          Negative(label, receipt, then)
    BY <1>5 DEF SendTampered, SendWrongKey
  <2>2. PICK answer \in aggregate({receipt}, receipt.value) :
          Report(label, answer.kind # "rav")
    BY <2>1 DEF Negative
  <2>3. answer.kind # "rav"
    BY <2>2, OrderlyAnswers
  <2>4. rows' = rows \union {[check |-> label, pass |-> TRUE]}
    BY <2>2, <2>3 DEF Report
  <2>5. /\ \A check : [check |-> check, pass |-> FALSE] \notin {[check |-> label, pass |-> TRUE]}
        /\ [check |-> "a", pass |-> TRUE] \notin {[check |-> label, pass |-> TRUE]}
    BY <2>1
  <2>6. ~ CheckRecord /\ pc' # "done"
    BY <2>1 DEF Negative, CheckRecord
  <2>7. /\ \A check : Failed(check)' => Failed(check)
        /\ Passed("a")' => Passed("a")
    BY <2>4, <2>5, PassLemma
  <2> QED
    BY <2>6, <2>7, FailuresFrame
<1> QED
  BY <1>1, <1>2, <1>3, <1>4, <1>5 DEF Run

LEMMA CalmNext == TypeInv /\ FreshInv /\ CalmInv /\ [Next]_vars => CalmInv'
<1> SUFFICES ASSUME TypeInv, FreshInv, CalmInv, [Next]_vars PROVE CalmInv'
  OBVIOUS
<1>1. CASE UNCHANGED vars
  BY <1>1 DEF CalmInv, AllUp, InOrder, SignedInv, FailuresInv, Failed, Passed, vars,
     deployment, kafka, found, hist
<1>2. CASE Next
  <2>1. changes' = 0 => AllUp'
    BY <1>2, UpStays
  <2>2. SUFFICES ASSUME InOrder'
                 PROVE  /\ SignedInv'
                        /\ FailuresInv'
                        /\ pc' = "aggregate" => domain_ok'
                        /\ pc' = "done" => exit' = 0 \/ \E check \in Checks : Failed(check)'
    BY <2>1 DEF CalmInv
  <2>3. /\ InOrder
        /\ UNCHANGED <<peers, first, changes, gateway_signer, aggregator>>
    BY <1>2, <2>2, OrderStays
  <2>4. /\ SignedInv /\ FailuresInv /\ AllUp
        /\ pc = "aggregate" => domain_ok
        /\ pc = "done" => exit = 0 \/ \E check \in Checks : Failed(check)
    BY <2>3 DEF CalmInv, InOrder
  <2>5. CASE Deployment
    <3>1. SignedInv' /\ UNCHANGED <<pc, rows, record, domain_ok, exit>>
      BY <2>2, <2>5, CalmDeployment
    <3>2. FailuresInv'
      BY <2>4, <3>1 DEF FailuresInv, Failed, Passed
    <3> QED
      BY <2>4, <3>1, <3>2 DEF Failed
  <2>6. CASE Run
    <3>1. SignedInv'
      BY <2>3, <2>4, <2>6, SignedRun DEF InOrder
    <3>2. FailuresInv' /\ (pc' = "done" => Finish)
      BY <2>3, <2>4, <2>6, FailuresRun
    <3>3. pc' = "aggregate" => domain_ok'
      <4>1. SUFFICES ASSUME pc' = "aggregate" PROVE domain_ok'
        OBVIOUS
      <4>2. FetchDomain
        BY <2>6, <4>1 DEF Run, SyncTopology, ReadBaseline, Dispatch, Poll, CheckRecord,
           Aggregate, SendTampered, SendWrongKey, Negative, Finish
      <4>3. domain_matches(aggregator.info, cfg) /\ peers["aggregator"] = "up"
        BY <2>3, <2>4, DomainLemma DEF TypeInv, DeploymentOk, InOrder, AllUp, Peers
      <4> QED
        BY <4>2, <4>3 DEF FetchDomain
    <3>4. pc' = "done" => exit' = 0 \/ \E check \in Checks : Failed(check)'
      <4>1. SUFFICES ASSUME pc' = "done", exit' # 0
                     PROVE  \E check \in Checks : Failed(check)'
        OBVIOUS
      <4>2. PICK r \in rows : ~ r.pass
        BY <3>2, <4>1 DEF Finish
      <4>3. r \in [check : Checks, pass : BOOLEAN]
        BY <4>2 DEF TypeInv, RunOk, RowsOk
      <4>4. r.check \in Checks /\ r = [check |-> r.check, pass |-> FALSE]
        BY <4>2, <4>3
      <4>5. rows' = rows
        BY <3>2, <4>1 DEF Finish
      <4> QED
        BY <4>2, <4>4, <4>5 DEF Failed
    <3> QED
      BY <3>1, <3>2, <3>3, <3>4
  <2> QED
    BY <1>2, <2>5, <2>6 DEF Next
<1> QED
  BY <1>1, <1>2

LEMMA CalmInvariance == Spec => []CalmInv
  BY CalmInit, CalmNext, TypeInvariance, FreshInvariance, PTL DEF Spec

\* Over a deployment in order that nothing disturbs, for every old topic, page and
\* number of looks: a run that saw the topology, and a record of a query that found
\* an indexer, exits with 0.
THEOREM AlarmTheorem == Spec => []NoFalseAlarm
<1>1. TypeInv /\ CalmInv => NoFalseAlarm
  <2> SUFFICES ASSUME TypeInv, CalmInv, pc = "done", InOrder, Passed("a"),
                      record # NoRecord, record.candidates = 1
               PROVE  exit = 0
    BY DEF NoFalseAlarm
  <2>1. FailuresInv /\ (exit = 0 \/ \E check \in Checks : Failed(check))
    BY DEF CalmInv
  <2>2. \A check \in Checks : ~ Failed(check)
    BY <2>1 DEF FailuresInv
  <2> QED
    BY <2>1, <2>2
<1> QED
  BY <1>1, CalmInvariance, TypeInvariance, PTL
=============================================================================
