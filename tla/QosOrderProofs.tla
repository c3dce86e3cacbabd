--------------------------- MODULE QosOrderProofs ---------------------------
(***************************************************************************)
(* The publisher opens a window again only for a late record, for every     *)
(* value of the constants.                                                  *)
(***************************************************************************)
EXTENDS QosFeedProofs

-----------------------------------------------------------------------------
\* The payloads of the running process.
Own == {i \in DOMAIN published : published[i].run = stops}

\* If w is not older than a window that starts at start, the topic goes back between
\* the end of w and offset off.
Explained(topic, w, start, off) == start <= w.start => GoesBack(topic, LastOff(w), off)

\* What the process published lies before the window in hand, and both lie before the
\* message that closed it, except as a record that goes back explains. A process
\* without a window has published nothing, unless it is about to open one for the
\* message in hand.
OrderInv ==
  /\ current = None /\ pc \in {"stopped", "recv", "route"} => Own = {}
  /\ current # None =>
       \A i \in Own : Explained(log, published[i], current.start, FirstOff(current))
  /\ closing # None =>
       /\ Explained(log, closing, StartOf(msg.ms), msg.off)
       /\ \A i \in Own : \/ Explained(log, published[i], closing.start, FirstOff(closing))
                         \/ pc = "emit_queries" /\ published[i].topic = TOPIC_ALLOCATION
  /\ closing # None \/ pc = "fold" =>
       \A i \in Own : Explained(log, published[i], StartOf(msg.ms), msg.off)

-----------------------------------------------------------------------------
(***************************************************************************)
(* Where the topic goes back.                                               *)
(***************************************************************************)
Records == [ms : Nat \union {NoTimestamp}, decodes : BOOLEAN, at : Nat]

\* Where it went back it goes back for ever.
LEMMA BackKept ==
  ASSUME TypeInv, [Next]_vars
  PROVE  \A lo, hi : GoesBack(log, lo, hi) => GoesBack(log', lo, hi)
<1>1. CASE log' = log
  BY <1>1 DEF GoesBack, StartOf, bucket_bounds
<1>2. CASE Produce
  <2>1. PICK r : log' = Append(log, r)
    BY <1>2 DEF Produce
  <2>2. log \in Seq(Records)
    BY DEF TypeInv, TypeOK, Records
  <2>3. \A i \in DOMAIN log : i \in DOMAIN log' /\ log'[i] = log[i]
    BY <2>1, <2>2
  <2>4. SUFFICES ASSUME NEW lo, NEW hi, GoesBack(log, lo, hi) PROVE GoesBack(log', lo, hi)
    OBVIOUS
  <2>5. PICK a \in DOMAIN log, b \in DOMAIN log :
          /\ lo <= a /\ a < b /\ b <= hi
          /\ StartOf(log[b].ms) < StartOf(log[a].ms) \/ NoTimestamp \in {log[a].ms, log[b].ms}
    BY <2>4 DEF GoesBack
  <2>6. /\ a \in DOMAIN log' /\ b \in DOMAIN log'
        /\ log'[a] = log[a] /\ log'[b] = log[b]
    BY <2>3
  <2>7. \/ StartOf(log'[b].ms) < StartOf(log'[a].ms)
        \/ NoTimestamp \in {log'[a].ms, log'[b].ms}
    BY <2>5, <2>6
  <2> QED
    BY <2>5, <2>6, <2>7 DEF GoesBack, StartOf, bucket_bounds
<1> QED
  BY <1>1, <1>2 DEF Next, Loop, Tick, AutoCommit, Start, Crash, FailRecv, Forget,
     RecvUndecodable, Recv, CloseBucket, EmitAllocations, EmitQueries, Fold, vars, env

\* Between offsets further apart it goes back, too.
LEMMA Widen ==
  ASSUME NEW lo \in Nat, NEW hi \in Nat, NEW low \in Nat, NEW high \in Nat,
         TypeInv, low <= lo, hi <= high, GoesBack(log, lo, hi)
  PROVE  GoesBack(log, low, high)
<1>1. PICK a \in DOMAIN log, b \in DOMAIN log :
        /\ lo <= a /\ a < b /\ b <= hi
        /\ StartOf(log[b].ms) < StartOf(log[a].ms) \/ NoTimestamp \in {log[a].ms, log[b].ms}
  BY DEF GoesBack
<1>2. a \in Nat /\ b \in Nat
  <2>1. log \in Seq(Records)
    BY DEF TypeInv, TypeOK, Records
  <2> QED
    BY <2>1
<1>3. low <= a /\ b <= high
  BY <1>1, <1>2
<1> QED
  BY <1>1, <1>3 DEF GoesBack

\* A message of an earlier window than one before it: there the topic goes back.
LEMMA Descent ==
  ASSUME NEW m \in Message, NEW n \in Message, TypeInv,
         RecordIn(log, m), RecordIn(log, n),
         m.off < n.off, StartOf(n.ms) < StartOf(m.ms)
  PROVE  GoesBack(log, m.off, n.off)
<1>1. log \in Seq(Records)
  BY DEF TypeInv, TypeOK, Records
<1>2. m.off \in DOMAIN log /\ n.off \in DOMAIN log
  BY DEF RecordIn
<1>3. log[m.off].ms \in Nat \union {NoTimestamp} /\ log[n.off].ms \in Nat \union {NoTimestamp}
  <2>1. log[m.off] \in Records /\ log[n.off] \in Records
    BY <1>1, <1>2
  <2> QED
    BY <2>1 DEF Records
<1>4. /\ log[m.off].ms = NoTimestamp \/ m.ms = log[m.off].ms
      /\ log[n.off].ms = NoTimestamp \/ n.ms = log[n.off].ms
  BY <1>3 DEF RecordIn, NoTimestamp
<1>5. \/ StartOf(log[n.off].ms) < StartOf(log[m.off].ms)
      \/ NoTimestamp \in {log[m.off].ms, log[n.off].ms}
  BY <1>4
<1>6. m.off <= m.off /\ n.off <= n.off
  BY DEF Message
<1> QED
  BY <1>2, <1>5, <1>6 DEF GoesBack

-----------------------------------------------------------------------------
(***************************************************************************)
(* The first and the last message of a window.                              *)
(***************************************************************************)
FirstOf(w) == w.msgs[1]
LastOf(w) == w.msgs[Len(w.msgs)]

\* The open window holds messages of the topic, of its own time, all of them read
\* before the message in hand.
LEMMA Ends ==
  ASSUME TypeInv, WindowPurity, OffsetInv, SourceInv, current # None
  PROVE  /\ FirstOf(current) \in Message /\ LastOf(current) \in Message
         /\ RecordIn(log, FirstOf(current)) /\ RecordIn(log, LastOf(current))
         /\ StartOf(FirstOf(current).ms) = current.start
         /\ StartOf(LastOf(current).ms) = current.start
         /\ msg # NoMsg => /\ FirstOf(current).off < msg.off
                           /\ LastOf(current).off < msg.off
<1>1. /\ current \in Window
      /\ Pure(current)
      /\ current.msgs \in Seq(Message)
      /\ current.msgs # << >>
  BY WindowMsgs DEF TypeInv, TypeOK, WindowPurity, Pure
<1>2. 1 \in DOMAIN current.msgs /\ Len(current.msgs) \in DOMAIN current.msgs
  BY <1>1
<1>3. ASSUME NEW i \in DOMAIN current.msgs
      PROVE  /\ current.msgs[i] \in Message
             /\ RecordIn(log, current.msgs[i])
             /\ StartOf(current.msgs[i].ms) = current.start
             /\ msg # NoMsg => current.msgs[i].off < msg.off
  <2>1. current.msgs[i] \in Message
    BY <1>1
  <2>2. RecordIn(log, current.msgs[i])
    BY DEF SourceInv, AllIn
  <2>3. Within(current.msgs[i], current)
    BY <1>1 DEF Pure
  <2>4. StartOf(current.msgs[i].ms) = current.start
    BY <1>1, <2>1, <2>3, SameStart DEF Pure
  <2>5. msg # NoMsg => current.msgs[i].off < msg.off
    BY DEF OffsetInv, Below
  <2> QED
    BY <2>1, <2>2, <2>4, <2>5
<1> QED
  BY <1>2, <1>3 DEF FirstOf, LastOf

\* Of a payload of this process, which was written before the open window's messages
\* and the message in hand were read.
LEMMA OwnEnds ==
  ASSUME TypeInv, WindowPurity, OffsetInv, NEW i \in Own
  PROVE  /\ published[i].start \in Nat
         /\ LastOff(published[i]) \in Nat
         /\ current # None => LastOff(published[i]) < FirstOff(current)
<1>1. /\ i \in DOMAIN published
      /\ published[i] \in PayloadSet
      /\ published[i].msgs \in Seq(Message)
      /\ published[i].msgs # << >>
      /\ published[i].run = stops
  BY PublishedType DEF Own, WindowPurity, Pure
<1>2. /\ Len(published[i].msgs) \in DOMAIN published[i].msgs
      /\ published[i].msgs[Len(published[i].msgs)] \in Message
  BY <1>1
<1>3. published[i].start \in Nat
  BY <1>1 DEF PayloadSet
<1>4. LastOff(published[i]) \in Nat
  BY <1>2 DEF LastOff, Message
<1>5. ASSUME current # None PROVE LastOff(published[i]) < FirstOff(current)
  <2>1. 1 \in DOMAIN current.msgs
    BY <1>5, WindowMsgs DEF WindowPurity, Pure
  <2>2. Before(published[i].msgs, current.msgs)
    BY <1>1 DEF OffsetInv
  <2> QED
    BY <1>2, <2>1, <2>2 DEF Before, LastOff, FirstOff
<1> QED
  BY <1>3, <1>4, <1>5

LEMMA StartType ==
  ASSUME NEW m \in Message
  PROVE  StartOf(m.ms) \in Nat
  BY NewBucketLemma DEF Window

\* Fold leaves the open window and its first message, or opens the window of the
\* message in hand, which is its first.
LEMMA FoldStart ==
  ASSUME TypeInv, WindowPurity, Fold
  PROVE  /\ current # None => /\ current'.start = current.start
                              /\ FirstOff(current') = FirstOff(current)
         /\ current = None => /\ current'.start = StartOf(msg.ms)
                              /\ FirstOff(current') = msg.off
         /\ current' # None
<1>1. msg \in Message /\ current' \in Window
  BY FoldType
<1>2. CASE current = None
  <2>1. /\ NewBucket(msg.ms) \in Window
        /\ NewBucket(msg.ms).start = StartOf(msg.ms)
        /\ NewBucket(msg.ms).msgs = << >>
    BY <1>1, NewBucketLemma
  <2>2. current' = Add(NewBucket(msg.ms), msg)
    BY <1>2, <2>1 DEF Fold
  <2>3. current'.start = StartOf(msg.ms) /\ current'.msgs = Append(<< >>, msg)
    BY <1>1, <2>1, <2>2, AddType
  <2>4. Append(<< >>, msg)[1] = msg
    OBVIOUS
  <2> QED
    BY <1>1, <1>2, <2>3, <2>4, NothingLemma DEF FirstOff
<1>3. CASE current # None
  <2>1. current \in Window /\ current.msgs \in Seq(Message) /\ current.msgs # << >>
    BY <1>3, WindowMsgs DEF TypeInv, TypeOK, WindowPurity, Pure
  <2>2. current' = Add(current, msg) \/ current' = current
    BY <1>3 DEF Fold
  <2>3. Append(current.msgs, msg)[1] = current.msgs[1]
    BY <1>1, <2>1, AppendLemma
  <2>4. current'.start = current.start /\ current'.msgs[1] = current.msgs[1]
    BY <1>1, <2>1, <2>2, <2>3, AddType
  <2> QED
    BY <1>1, <1>3, <2>4, NothingLemma DEF FirstOff
<1> QED
  BY <1>2, <1>3

-----------------------------------------------------------------------------
Facts == TypeInv /\ WindowPurity /\ OffsetInv /\ SourceInv

\* What explains a payload, or one that looks the same, goes on to explain it.
LEMMA ExplainedKept ==
  ASSUME TypeInv, [Next]_vars, NEW w, NEW v, NEW start, NEW off,
         v.start = w.start, LastOff(v) = LastOff(w), Explained(log, w, start, off)
  PROVE  Explained(log', v, start, off)
  BY BackKept DEF Explained

\* A window that is taken: it and what was published before it lie before the message
\* in hand, except as a record that goes back explains.
LEMMA TakenLemma ==
  ASSUME Facts, OrderInv, CloseBucket
  PROVE  /\ Explained(log, current, StartOf(msg.ms), msg.off)
         /\ \A i \in Own : Explained(log, published[i], StartOf(msg.ms), msg.off)
<1> DEFINE first == FirstOf(current)
           last == LastOf(current)
<1>1. /\ TypeInv
      /\ current # None /\ current.start # StartOf(msg.ms)
      /\ msg \in Message /\ msg # NoMsg
      /\ current \in Window
  BY NothingLemma DEF Facts, CloseBucket, MayClose, TypeInv, TypeOK, Phases
<1>2. /\ current.start \in Nat /\ StartOf(msg.ms) \in Nat /\ msg.off \in Nat
  BY <1>1, StartType DEF Window, Message
<1>3. RecordIn(log, msg)
  BY <1>1 DEF Facts, SourceInv
<1>4. /\ first \in Message /\ last \in Message
      /\ RecordIn(log, first) /\ RecordIn(log, last)
      /\ StartOf(first.ms) = current.start /\ StartOf(last.ms) = current.start
      /\ first.off < msg.off /\ last.off < msg.off
  BY <1>1, Ends DEF Facts
<1>5. FirstOff(current) = first.off /\ LastOff(current) = last.off
  BY DEF FirstOff, LastOff, FirstOf, LastOf
<1> HIDE DEF first, last
<1>6. ASSUME StartOf(msg.ms) < current.start
      PROVE  GoesBack(log, first.off, msg.off) /\ GoesBack(log, last.off, msg.off)
  BY <1>1, <1>3, <1>4, <1>6, Descent
<1>7. Explained(log, current, StartOf(msg.ms), msg.off)
  BY <1>1, <1>2, <1>5, <1>6 DEF Explained
<1>8. ASSUME NEW i \in Own, StartOf(msg.ms) <= published[i].start
      PROVE  GoesBack(log, LastOff(published[i]), msg.off)
  <2>1. /\ published[i].start \in Nat
        /\ LastOff(published[i]) \in Nat
        /\ LastOff(published[i]) < first.off
    BY <1>1, <1>5, OwnEnds DEF Facts
  <2>2. first.off \in Nat
    BY <1>4 DEF Message
  <2>3. CASE StartOf(msg.ms) < current.start
    <3>1. GoesBack(log, first.off, msg.off)
      BY <1>6, <2>3
    <3>2. LastOff(published[i]) <= first.off /\ msg.off <= msg.off
      BY <1>2, <2>1, <2>2
    <3> QED
      BY <1>1, <1>2, <2>1, <2>2, <3>1, <3>2, Widen
  <2>4. CASE current.start < StartOf(msg.ms)
    <3>1. current.start <= published[i].start
      BY <1>2, <1>8, <2>1, <2>4
    <3>2. GoesBack(log, LastOff(published[i]), first.off)
      BY <1>1, <1>5, <3>1 DEF OrderInv, Explained
    <3>3. LastOff(published[i]) <= LastOff(published[i]) /\ first.off <= msg.off
      BY <1>2, <1>4, <2>1, <2>2
    <3> QED
      BY <1>1, <1>2, <2>1, <2>2, <3>2, <3>3, Widen
  <2> QED
    BY <1>1, <1>2, <2>3, <2>4
<1> QED
  BY <1>7, <1>8 DEF Explained

\* A payload is added to the process' own.
LEMMA OwnLemma ==
  ASSUME TypeInv, NEW t \in Topics, published' = Append(published, Payload(t)),
         stops' = stops, pc \in {"emit_allocations", "emit_queries"}
  PROVE  \A i \in Own' : \/ i \in Own /\ published'[i] = published[i]
                         \/ /\ published'[i].topic = t
                            /\ published'[i].start = closing.start
                            /\ LastOff(published'[i]) = LastOff(closing)
<1>1. published \in Seq(PayloadSet) /\ Payload(t) \in PayloadSet
  BY PayloadType DEF TypeInv, TypeOK, PayloadSet
<1>2. /\ Payload(t).topic = t /\ Payload(t).start = closing.start
      /\ LastOff(Payload(t)) = LastOff(closing)
  BY DEF Payload, LastOff
<1>3. /\ DOMAIN published' = DOMAIN published \union {Len(published) + 1}
      /\ published'[Len(published) + 1] = Payload(t)
      /\ \A i \in DOMAIN published : published'[i] = published[i]
  BY <1>1, AppendLemma
<1> QED
  BY <1>2, <1>3 DEF Own

\* With the payload added, all that was published is explained to the message in hand.
LEMMA OwnExplained ==
  ASSUME Facts, OrderInv, [Next]_vars, NEW t \in Topics,
         published' = Append(published, Payload(t)),
         stops' = stops, pc \in {"emit_allocations", "emit_queries"}
  PROVE  \A i \in Own' : Explained(log', published'[i], StartOf(msg.ms), msg.off)
<1>1. /\ TypeInv /\ closing # None
      /\ Explained(log, closing, StartOf(msg.ms), msg.off)
      /\ \A i \in Own : Explained(log, published[i], StartOf(msg.ms), msg.off)
  BY DEF Facts, TypeInv, Phases, OrderInv
<1>2. ASSUME NEW i \in Own'
      PROVE  Explained(log', published'[i], StartOf(msg.ms), msg.off)
  <2>1. \/ i \in Own /\ published'[i] = published[i]
        \/ published'[i].start = closing.start /\ LastOff(published'[i]) = LastOff(closing)
    BY <1>1, OwnLemma
  <2>2. PICK w : /\ published'[i].start = w.start
                 /\ LastOff(published'[i]) = LastOff(w)
                 /\ Explained(log, w, StartOf(msg.ms), msg.off)
    BY <1>1, <2>1
  <2> QED
    BY <1>1, <2>2, ExplainedKept
<1> QED
  BY <1>2

\* And what was explained before is so still.
LEMMA OldExplained ==
  ASSUME TypeInv, [Next]_vars, NEW start, NEW off,
         published' = published, stops' = stops,
         \A i \in Own : Explained(log, published[i], start, off)
  PROVE  \A i \in Own' : Explained(log', published'[i], start, off)
  BY ExplainedKept DEF Own

LEMMA OrderNext == Facts /\ OrderInv /\ [Next]_vars => OrderInv'
<1> SUFFICES ASSUME Facts, OrderInv, [Next]_vars
             PROVE  OrderInv'
  OBVIOUS
<1>1. /\ TypeInv /\ Phases
      /\ pc \in Pcs
  BY DEF Facts, TypeInv, TypeOK
<1>2. CASE Crash \/ FailRecv
  <2>1. /\ stops' = stops + 1 /\ published' = published
        /\ current' = None /\ closing' = None /\ pc' = "stopped"
    BY <1>2 DEF Crash, FailRecv, Forget
  <2>2. Own' = {}
    <3>1. stops \in Nat
      BY <1>1 DEF TypeInv, TypeOK
    <3>2. \A i \in DOMAIN published : published[i].run \in Nat /\ published[i].run <= stops
      BY <1>1, PublishedType DEF Facts, OffsetInv
    <3>3. \A i \in DOMAIN published : published[i].run # stops'
      BY <2>1, <3>1, <3>2
    <3> QED
      BY <2>1, <3>3 DEF Own
  <2> QED
    BY <2>1, <2>2 DEF OrderInv
<1>3. CASE CloseBucket
  <2>1. /\ current # None /\ closing' = current
        /\ current' = None /\ pc' = "emit_allocations"
        /\ UNCHANGED <<published, stops, msg>>
    BY <1>3 DEF CloseBucket, MayClose, hist
  <2>2. Explained(log', closing', StartOf(msg.ms), msg.off)
    BY <1>1, <1>3, <2>1, TakenLemma, ExplainedKept
  <2>3. \A i \in Own' : Explained(log', published'[i], StartOf(msg.ms), msg.off)
    BY <1>1, <1>3, <2>1, TakenLemma, OldExplained
  <2>4. \A i \in Own' : Explained(log', published'[i], closing'.start, FirstOff(closing'))
    BY <1>1, <2>1, OldExplained DEF OrderInv
  <2> QED
    BY <2>1, <2>2, <2>3, <2>4 DEF OrderInv
<1>4. CASE EmitAllocations
  <2>1. /\ pc = "emit_allocations" /\ pc' = "emit_queries"
        /\ published' = Append(published, Payload(TOPIC_ALLOCATION))
        /\ UNCHANGED <<stops, msg, current, closing>>
    BY <1>4 DEF EmitAllocations
  <2>2. closing # None /\ current = None
    BY <1>1, <2>1 DEF Phases
  <2>3. \A i \in Own' : Explained(log', published'[i], StartOf(msg.ms), msg.off)
    BY <2>1, OwnExplained DEF Topics
  <2>4. Explained(log', closing', StartOf(msg.ms), msg.off)
    BY <1>1, <2>1, <2>2, ExplainedKept DEF OrderInv
  <2>5. \A i \in Own' :
          \/ i \in Own /\ published'[i] = published[i]
          \/ published'[i].topic = TOPIC_ALLOCATION
    BY <1>1, <2>1, OwnLemma DEF Topics
  <2>6. \A i \in Own : Explained(log', published[i], closing.start, FirstOff(closing))
    BY <1>1, <2>1, <2>2, ExplainedKept DEF OrderInv
  <2> QED
    BY <2>1, <2>2, <2>3, <2>4, <2>5, <2>6 DEF OrderInv
<1>5. CASE EmitQueries
  <2>1. /\ pc = "emit_queries" /\ pc' = "fold" /\ closing' = None
        /\ published' = Append(published, Payload(TOPIC_QUERY))
        /\ UNCHANGED <<stops, msg, current>>
    BY <1>5 DEF EmitQueries
  <2>2. current = None
    BY <1>1, <2>1 DEF Phases
  <2>3. \A i \in Own' : Explained(log', published'[i], StartOf(msg.ms), msg.off)
    BY <2>1, OwnExplained DEF Topics
  <2> QED
    BY <2>1, <2>2, <2>3 DEF OrderInv
<1>6. CASE Fold
  <2>1. /\ pc' = "recv" /\ UNCHANGED <<published, stops, closing>>
        /\ pc = "fold" \/ pc = "route"
    BY <1>6 DEF Fold
  <2>2. Own' = Own /\ closing = None /\ current' # None
    BY <1>1, <1>6, <2>1, FoldStart DEF Own, Phases, Facts
  <2>3. CASE current # None
    <3>1. current'.start = current.start /\ FirstOff(current') = FirstOff(current)
      BY <1>1, <1>6, <2>3, FoldStart DEF Facts
    <3>2. \A i \in Own' : Explained(log', published'[i], current.start, FirstOff(current))
      BY <1>1, <2>1, <2>3, OldExplained DEF OrderInv
    <3> QED
      BY <2>1, <2>2, <3>1, <3>2 DEF OrderInv
  <2>4. CASE current = None
    <3>1. current'.start = StartOf(msg.ms) /\ FirstOff(current') = msg.off
      BY <1>1, <1>6, <2>4, FoldStart DEF Facts
    <3>2. \A i \in Own : Explained(log, published[i], StartOf(msg.ms), msg.off)
      BY <2>1, <2>4 DEF OrderInv
    <3>3. \A i \in Own' : Explained(log', published'[i], StartOf(msg.ms), msg.off)
      BY <1>1, <2>1, <3>2, OldExplained
    <3> QED
      BY <2>1, <2>2, <3>1, <3>3 DEF OrderInv
  <2> QED
    BY <2>3, <2>4
<1>7. CASE Quiet
  <2>1. UNCHANGED <<current, closing, published>> /\ stops' = stops
    BY <1>7, QuietLemma DEF Quiet, Produce, Tick, AutoCommit, Start, RecvUndecodable,
       Recv, vars
  <2>2. \/ UNCHANGED <<pc, msg>>
        \/ pc \in {"stopped", "recv"} /\ pc' \in {"recv", "route"}
    BY <1>7 DEF Quiet, Produce, Tick, AutoCommit, Start, RecvUndecodable, Recv,
       Deliver, vars, loop
  <2>3. Own' = Own
    BY <2>1 DEF Own
  <2>4. closing # None \/ pc = "fold" => UNCHANGED <<pc, msg>>
    BY <1>1, <2>2 DEF Phases
  <2>5. current # None =>
          \A i \in Own' : Explained(log', published'[i], current'.start, FirstOff(current'))
    BY <1>1, <2>1, OldExplained DEF OrderInv
  <2>6. closing # None \/ pc = "fold" =>
          \A i \in Own' : Explained(log', published'[i], StartOf(msg.ms), msg.off)
    BY <1>1, <2>1, OldExplained DEF OrderInv
  <2>7. closing # None => Explained(log', closing', StartOf(msg.ms), msg.off)
    BY <1>1, <2>1, ExplainedKept DEF OrderInv
  <2>8. ASSUME closing # None, NEW i \in Own,
               Explained(log, published[i], closing.start, FirstOff(closing))
        PROVE  Explained(log', published[i], closing.start, FirstOff(closing))
    BY <1>1, <2>8, ExplainedKept
  <2>9. pc' = "fold" => pc = "fold"
    BY <2>2
  <2> QED
    BY <2>1, <2>2, <2>3, <2>4, <2>5, <2>6, <2>7, <2>8, <2>9 DEF OrderInv
<1> QED
  BY <1>2, <1>3, <1>4, <1>5, <1>6, <1>7, NextSplit

\* A payload is written after those of the windows before its own, except as a record
\* that goes back explains.
LEMMA ReopenedNext ==
  Facts /\ OrderInv /\ ReopenedByLateRecord /\ [Next]_vars => ReopenedByLateRecord'
<1> SUFFICES ASSUME Facts, OrderInv, ReopenedByLateRecord, [Next]_vars,
                    NEW i \in DOMAIN published', NEW j \in DOMAIN published', i < j,
                    published'[i].run = published'[j].run,
                    published'[i].topic = published'[j].topic,
                    published'[j].start <= published'[i].start
             PROVE  GoesBack(log', LastOff(published'[i]), FirstOff(published'[j]))
  BY DEF ReopenedByLateRecord
<1>0. TypeInv
  BY DEF Facts
<1>1. CASE published' = published
  BY <1>0, <1>1, BackKept DEF ReopenedByLateRecord
<1>2. CASE EmitAllocations \/ EmitQueries
  <2>1. PICK t \in Topics :
          /\ closing \in Window
          /\ closing # None
          /\ Payload(t) \in PayloadSet
          /\ published \in Seq(PayloadSet)
          /\ published' = Append(published, Payload(t))
          /\ \/ t = TOPIC_ALLOCATION /\ EmitAllocations
             \/ t = TOPIC_QUERY /\ EmitQueries
    BY <1>0, <1>2, EmitLemma
  <2>2. /\ Payload(t).topic = t /\ Payload(t).run = stops
        /\ Payload(t).start = closing.start /\ FirstOff(Payload(t)) = FirstOff(closing)
    BY DEF Payload, FirstOff
  <2> DEFINE n == Len(published) + 1
  <2>3. /\ DOMAIN published' = DOMAIN published \union {n}
        /\ published'[n] = Payload(t)
        /\ \A k \in DOMAIN published : k < n /\ published'[k] = published[k]
        /\ n \in Nat
        /\ \A k \in DOMAIN published : k \in Nat
    BY <2>1, AppendLemma
  <2> HIDE DEF n
  <2>4. i \in DOMAIN published
    BY <2>3
  <2>5. CASE j \in DOMAIN published
    BY <1>0, <2>3, <2>4, <2>5, BackKept DEF ReopenedByLateRecord
  <2>6. CASE j = n
    <3>1. i \in Own /\ published[i].topic = t
      BY <2>2, <2>3, <2>4, <2>6 DEF Own
    <3>2. ~ (pc = "emit_queries" /\ t = TOPIC_ALLOCATION)
      BY <1>0, <2>1 DEF EmitAllocations, EmitQueries, TypeInv, Phases, TOPIC_ALLOCATION,
         TOPIC_QUERY
    <3>3. Explained(log, published[i], closing.start, FirstOff(closing))
      BY <2>1, <3>1, <3>2 DEF OrderInv
    <3>4. closing.start <= published[i].start
      BY <2>2, <2>3, <2>4, <2>6
    <3>5. GoesBack(log', LastOff(published[i]), FirstOff(closing))
      BY <1>0, <3>3, <3>4, BackKept DEF Explained
    <3> QED
      BY <2>2, <2>3, <2>4, <2>6, <3>5
  <2> QED
    BY <2>3, <2>5, <2>6
<1> QED
  BY <1>1, <1>2, PublishedFrame

\* A window is opened again only for a record that goes back, one of those between its
\* two payloads, whatever the lag, the gaps, the delay and the stops.
THEOREM OrderTheorem == Spec => []ReopenedByLateRecord
<1>1. Init => WindowPurity /\ SourceInv /\ OrderInv /\ ReopenedByLateRecord
  BY DEF Init, WindowPurity, SourceInv, AllIn, None, OrderInv, Own, ReopenedByLateRecord
<1>2. TypeInv /\ WindowPurity /\ OffsetInv /\ SourceInv => Facts
  BY DEF Facts
<1> QED
  BY <1>1, <1>2, PurityNext, SourceNext, OrderNext, ReopenedNext,
     TypeInvariance, OffsetInvariance, PTL DEF Spec
=============================================================================
