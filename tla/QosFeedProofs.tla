---------------------------- MODULE QosFeedProofs ----------------------------
(***************************************************************************)
(* QosPublisher implements QosFeed, for every value of the constants.       *)
(***************************************************************************)
EXTENDS QosPublisherProofs

-----------------------------------------------------------------------------
(***************************************************************************)
(* Every message the loop holds stands for a record of the topic.           *)
(***************************************************************************)
RecordIn(topic, m) ==
  /\ m.off \in DOMAIN topic
  /\ topic[m.off].decodes
  /\ topic[m.off].ms >= 0 => m.ms = topic[m.off].ms

AllIn(topic, msgs) == \A i \in DOMAIN msgs : RecordIn(topic, msgs[i])

SourceInv ==
  /\ msg # NoMsg => RecordIn(log, msg)
  /\ AllIn(log, current.msgs)
  /\ AllIn(log, closing.msgs)

\* A record of the topic remains one: the topic only grows.
LEMMA RecordKept ==
  ASSUME TypeInv, [Next]_vars
  PROVE  \A m : RecordIn(log, m) => RecordIn(log', m)
<1>1. CASE log' = log
  BY <1>1
<1>2. CASE Produce
  <2>1. PICK r : log' = Append(log, r)
    BY <1>2 DEF Produce
  <2>2. log \in Seq([ms : Nat \union {NoTimestamp}, decodes : BOOLEAN, at : Nat])
    BY DEF TypeInv, TypeOK
  <2>3. \A i \in DOMAIN log : i \in DOMAIN log' /\ log'[i] = log[i]
    BY <2>1, <2>2
  <2> QED
    BY <2>3 DEF RecordIn
<1> QED
  BY <1>1, <1>2 DEF Next, Loop, Tick, AutoCommit, Start, Crash, FailRecv, Forget,
     RecvUndecodable, Recv, CloseBucket, EmitAllocations, EmitQueries, Fold, vars, env

\* Recv makes its message of the record at position.
LEMMA RecvRecord ==
  ASSUME TypeInv, Recv
  PROVE  RecordIn(log', msg')
<1>1. /\ position \in DOMAIN log
      /\ log' = log
      /\ log[position].decodes
      /\ msg' = [off |-> position,
                 ms |-> IF log[position].ms = NoTimestamp
                        THEN now * MsPerSec ELSE log[position].ms]
  BY DEF Recv, Deliver, env, TypeInv, TypeOK
<1>2. log[position].ms >= 0 => log[position].ms # NoTimestamp
  BY DEF NoTimestamp
<1> QED
  BY <1>1, <1>2 DEF RecordIn

\* Fold adds the message in hand to the open window, or to none.
LEMMA FoldRecord ==
  ASSUME TypeInv, SourceInv, Fold
  PROVE  AllIn(log', current'.msgs)
<1>1. /\ msg \in Message /\ msg # NoMsg
      /\ log' = log
  BY FoldType, NothingLemma DEF Fold, env
<1> DEFINE bucket == IF current = None THEN NewBucket(msg.ms) ELSE current
<1>2. bucket.msgs \in Seq(Message) /\ AllIn(log, bucket.msgs)
  BY WindowMsgs DEF NewBucket, AllIn, SourceInv
<1>3. current' = Add(bucket, msg) \/ current' = bucket
  BY DEF Fold
<1>4. Add(bucket, msg).msgs = Append(bucket.msgs, msg)
  <2>1. CASE current = None
    BY <2>1 DEF Add, NewBucket
  <2>2. CASE current # None
    <3>1. current \in Window
      BY <2>2 DEF TypeInv, TypeOK
    <3> QED
      BY <2>2, <3>1 DEF Add, Window
  <2> QED
    BY <2>1, <2>2
<1> HIDE DEF bucket
<1>5. AllIn(log, Append(bucket.msgs, msg))
  BY <1>1, <1>2 DEF AllIn, SourceInv
<1> QED
  BY <1>1, <1>2, <1>3, <1>4, <1>5

LEMMA SourceNext == TypeInv /\ SourceInv /\ [Next]_vars => SourceInv'
<1> SUFFICES ASSUME TypeInv, SourceInv, [Next]_vars
             PROVE  SourceInv'
  OBVIOUS
<1>1. /\ AllIn(log', current.msgs)
      /\ AllIn(log', closing.msgs)
      /\ msg # NoMsg => RecordIn(log', msg)
  BY RecordKept DEF SourceInv, AllIn
<1>2. AllIn(log', None.msgs)
  BY DEF None, AllIn
<1>3. CASE Fold
  <2>1. msg' = NoMsg /\ closing' = closing
    BY <1>3 DEF Fold
  <2> QED
    BY <1>1, <1>3, <2>1, FoldRecord DEF SourceInv
<1>4. CASE Recv
  <2>1. current' = current /\ closing' = closing
    BY <1>4 DEF Recv
  <2> QED
    BY <1>1, <1>4, <2>1, RecvRecord DEF SourceInv
<1>5. CASE UNCHANGED <<msg, current, closing>>
  BY <1>1, <1>5 DEF SourceInv
<1>6. CASE CloseBucket \/ EmitAllocations \/ EmitQueries \/ Forget
  <2>1. /\ msg' = msg \/ msg' = NoMsg
        /\ current' = current \/ current' = None
        /\ closing' = closing \/ closing' = None \/ closing' = current
    BY <1>6 DEF CloseBucket, EmitAllocations, EmitQueries, Forget
  <2> QED
    BY <1>1, <1>2, <2>1 DEF SourceInv
<1> QED
  BY <1>3, <1>4, <1>5, <1>6 DEF Next, Loop, Produce, Tick, AutoCommit, Start, Crash,
     FailRecv, RecvUndecodable, vars, loop

-----------------------------------------------------------------------------
(***************************************************************************)
(* The refinement.                                                          *)
(***************************************************************************)
\* What a step may rely on.
FeedInv == TypeInv /\ WindowPurity /\ Due /\ OffsetInv /\ SourceInv

\* A step that writes nothing, and neither begins nor ends between two payloads,
\* leaves what is counted as it is; a stop forgets it.
LEMMA CountedLemma ==
  ASSUME TypeInv, OffsetInv, published' = published
  PROVE  /\ stops' = stops => PublishedOn(TOPIC_QUERY)' = PublishedOn(TOPIC_QUERY)
         /\ stops' = stops + 1 => PublishedOn(TOPIC_QUERY)' = {}
<1>1. stops' = stops => PublishedOn(TOPIC_QUERY)' = PublishedOn(TOPIC_QUERY)
  BY DEF PublishedOn, Held
<1>2. ASSUME stops' = stops + 1 PROVE PublishedOn(TOPIC_QUERY)' = {}
  <2>1. stops \in Nat
    BY DEF TypeInv, TypeOK
  <2>2. \A i \in DOMAIN published : published[i].run \in Nat /\ published[i].run <= stops
    BY PublishedType DEF OffsetInv
  <2>3. \A i \in DOMAIN published : published[i].run # stops'
    BY <1>2, <2>1, <2>2
  <2> QED
    BY <2>3 DEF PublishedOn
<1> QED
  BY <1>1, <1>2

\* The window emit starts to write may be published.
LEMMA MayPublishLemma ==
  ASSUME FeedInv, pc = "emit_allocations"
  PROVE  Feed!MayPublish(closing)
<1>1. closing # None /\ closing \in Window
  BY DEF FeedInv, TypeInv, TypeOK, Phases
<1>2. Pure(closing)
  BY <1>1 DEF FeedInv, WindowPurity
<1>3. now >= closing.end + CloseDelaySecs
  BY <1>1 DEF FeedInv, Due
<1>4. \A c \in PublishedOn(TOPIC_QUERY), i \in DOMAIN closing.msgs :
        c.off < closing.msgs[i].off
  BY DEF PublishedOn, Held, FeedInv, OffsetInv, Before
<1>5. \A i, j \in DOMAIN closing.msgs : j < i => closing.msgs[j].off < closing.msgs[i].off
  BY DEF FeedInv, OffsetInv, Increasing
<1>6. \A i \in DOMAIN closing.msgs : Feed!IsRecord(closing.msgs[i])
  BY DEF FeedInv, SourceInv, AllIn, RecordIn, Feed!IsRecord
<1> QED
  BY <1>2, <1>3, <1>4, <1>5, <1>6 DEF Feed!MayPublish, Pure, Within

LEMMA FeedInit == Init => Feed!Init
<1> SUFFICES ASSUME Init PROVE Feed!Init
  OBVIOUS
<1>1. PublishedOn(TOPIC_QUERY) = {}
  BY DEF Init, PublishedOn
<1> QED
  BY <1>1 DEF Init, Feed!Init, Feed!Nothing, None

\* Each step of the publisher is a step of QosFeed, or changes nothing there.
LEMMA FeedNext == FeedInv /\ [Next]_vars => [Feed!Next]_Feed!feedVars
<1> SUFFICES ASSUME FeedInv, [Next]_vars
             PROVE  [Feed!Next]_Feed!feedVars
  OBVIOUS
<1> USE DEF Feed!Next, Feed!feedVars
<1>0. TypeInv /\ OffsetInv /\ stops \in Nat
  BY DEF FeedInv, TypeInv, TypeOK
<1>1. CASE Tick
  <2>1. /\ now' = now + 1
        /\ UNCHANGED <<log, published, stops, pc, closing>>
    BY <1>1 DEF Tick, loop, hist
  <2>2. Feed!Tick
    BY <1>0, <2>1, CountedLemma DEF Feed!Tick
  <2> QED
    BY <2>2
<1>2. CASE Produce
  <2>1. PICK r : log' = Append(log, r)
    BY <1>2 DEF Produce
  <2>2. UNCHANGED <<now, published, stops, pc, closing>>
    BY <1>2 DEF Produce, loop, hist
  <2>3. log \in Seq([ms : Nat \union {NoTimestamp}, decodes : BOOLEAN, at : Nat])
    BY DEF FeedInv, TypeInv, TypeOK
  <2>4. log' # << >> /\ log' = Append(log, log'[Len(log')])
    BY <2>1, <2>3
  <2>5. Feed!Produce
    BY <1>0, <2>2, <2>4, CountedLemma DEF Feed!Produce
  <2> QED
    BY <2>5
<1>3. CASE /\ UNCHANGED <<now, log, published, stops>>
           /\ \/ pc # "emit_queries" /\ pc' # "emit_queries"
              \/ UNCHANGED <<pc, closing>>
  <2>1. PublishedOn(TOPIC_QUERY)' = PublishedOn(TOPIC_QUERY)
    BY <1>0, <1>3, CountedLemma
  <2> QED
    BY <1>3, <2>1
<1>4. CASE Forget
  <2>1. /\ stops' = stops + 1
        /\ pc' = "stopped"
        /\ UNCHANGED <<now, log, published>>
    BY <1>4 DEF Forget, env
  <2>2. PublishedOn(TOPIC_QUERY)' = {}
    BY <1>0, <2>1, CountedLemma
  <2>3. Feed!Stop
    BY <2>1, <2>2 DEF Feed!Stop, Feed!Nothing, None
  <2> QED
    BY <2>3
<1>5. CASE EmitAllocations
  <2>1. /\ pc = "emit_allocations" /\ pc' = "emit_queries"
        /\ published' = Append(published, Payload(TOPIC_ALLOCATION))
        /\ UNCHANGED <<now, log, stops, closing>>
    BY <1>5 DEF EmitAllocations, env
  <2>2. PublishedOn(TOPIC_QUERY)' = PublishedOn(TOPIC_QUERY)
    <3>1. Payload(TOPIC_ALLOCATION) \in PayloadSet
      BY <1>0, <2>1, PayloadType DEF Topics, PayloadSet
    <3>2. TOPIC_ALLOCATION # TOPIC_QUERY
      BY DEF TOPIC_ALLOCATION, TOPIC_QUERY
    <3> QED
      BY <1>0, <2>1, <3>1, <3>2, PublishedOnLemma DEF Topics
  <2>3. Feed!MayPublish(closing)
    BY <2>1, MayPublishLemma
  <2>4. Feed!PublishAllocations
    BY <2>1, <2>2, <2>3 DEF Feed!PublishAllocations, Feed!Publish, Feed!Nothing, None,
                            Payload
  <2> QED
    BY <2>4
<1>6. CASE EmitQueries
  <2>1. /\ pc = "emit_queries" /\ pc' = "fold"
        /\ published' = Append(published, Payload(TOPIC_QUERY))
        /\ UNCHANGED <<now, log, stops>>
    BY <1>6 DEF EmitQueries, env
  <2>2. closing # None
    BY <1>0, <2>1 DEF TypeInv, Phases
  <2>3. PublishedOn(TOPIC_QUERY)' = PublishedOn(TOPIC_QUERY) \union Held(closing.msgs)
    <3>1. Payload(TOPIC_QUERY) \in PayloadSet
      BY <1>0, <2>1, PayloadType DEF Topics, PayloadSet
    <3> QED
      BY <1>0, <2>1, <3>1, PublishedOnLemma DEF Topics
  <2>4. Feed!PublishQueries
    BY <2>1, <2>2, <2>3 DEF Feed!PublishQueries, Feed!Publish, Feed!Nothing, None,
                            Payload, Held
  <2> QED
    BY <2>4
<1>7. CASE AutoCommit \/ Start \/ RecvUndecodable \/ Recv \/ CloseBucket \/ Fold
           \/ UNCHANGED vars
  <2>1. UNCHANGED <<now, log, published, stops>>
    BY <1>7 DEF AutoCommit, Start, RecvUndecodable, Recv, CloseBucket, Fold, vars, env, hist
  <2>2. \/ pc # "emit_queries" /\ pc' # "emit_queries"
        \/ UNCHANGED <<pc, closing>>
    BY <1>7 DEF AutoCommit, Start, RecvUndecodable, Deliver, Recv, CloseBucket, Fold,
                vars, loop
  <2> QED
    BY <1>3, <2>1, <2>2
<1> QED
  BY <1>1, <1>2, <1>4, <1>5, <1>6, <1>7 DEF Next, Loop, Crash, FailRecv

\* The publisher keeps its promise to the readers of its topics, whatever the
\* width of the window, the delay, the lateness of records and the stops.
THEOREM FeedTheorem == Spec => ImplementsFeed
<1>1. Init => Due /\ NoEarlyPublish /\ SourceInv /\ WindowPurity
  BY DEF Init, Due, NoEarlyPublish, SourceInv, AllIn, None, WindowPurity
<1>2. TypeInv /\ WindowPurity /\ Due /\ OffsetInv /\ SourceInv => FeedInv
  BY DEF FeedInv
<1> QED
  BY <1>1, <1>2, FeedInit, FeedNext, EarlyNext, PurityNext, SourceNext,
     TypeInvariance, OffsetInvariance, PTL DEF Spec, ImplementsFeed, Feed!Spec
=============================================================================
