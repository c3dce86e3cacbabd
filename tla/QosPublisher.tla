---------------------------- MODULE QosPublisher ----------------------------
(***************************************************************************)
(* The loop of gib-qos-publisher (qos-publisher/src/main.rs): one process   *)
(* reads the gateway's query topic through a Kafka consumer group, folds    *)
(* every message into the open window (a Bucket), and publishes a window as *)
(* two payloads once traffic of another window arrives and the close delay  *)
(* is over.                                                                 *)
(*                                                                          *)
(* The window is kept in memory, offsets are committed in the background by *)
(* the client library, the close test reads the wall clock, and the window  *)
(* of a message comes from the timestamp of its Kafka record: the           *)
(* properties are about how these four interact.                            *)
(*                                                                          *)
(* What a window adds up to is module QosAggregate; here a window is the    *)
(* sequence of the messages folded into it.                                 *)
(***************************************************************************)
EXTENDS Integers, Sequences

CONSTANTS BUCKET_SECS,     \* width of a window in seconds (300 in the code)
          CloseDelaySecs,  \* --close-delay-secs
          MsPerSec,        \* milliseconds of a second (1000 in the code)
          MaxLateMs,       \* bound: how far a record's timestamp may lie behind
          Untimestamped,   \* whether a record may carry no timestamp at all
          MaxTime,         \* bound: last second of the clock
          MaxLog,          \* bound: length of the topic
          MaxStops         \* bound: how often the process may stop

ASSUME BucketAssumption == BUCKET_SECS \in Nat \ {0}
ASSUME MsAssumption == MsPerSec \in Nat \ {0}
ASSUME DelayAssumption == CloseDelaySecs \in Int
ASSUME BoundAssumption == /\ MaxLateMs \in Nat
                          /\ MaxTime \in Nat
                          /\ MaxLog \in Nat
                          /\ MaxStops \in Nat
                          /\ Untimestamped \in BOOLEAN

TOPIC_ALLOCATION == "gateway_indexer_attempt_qos_5_minutes_prod_v3"
TOPIC_QUERY == "gateway_query_result_qos_5_minutes_prod_v3"

NoTimestamp == -1   \* a record for which to_millis() is None
NoOffset == 0       \* offsets count from 1; 0 stands for no offset
NoMsg == [off |-> 0, ms |-> 0]
None == [start |-> -1, end |-> -1, msgs |-> << >>]

VARIABLES
  now,         \* wall clock in seconds, shared by the gateway and the loop
  log,         \* the gateway's query topic: one record per element
  committed,   \* the group's committed offset (next to read), NoOffset if none
  stored,      \* the client library's stored offset, what it will commit
  position,    \* next offset recv returns
  pc,          \* where the loop stands
  msg,         \* the decoded message in hand
  current,     \* the open window, or None
  closing,     \* the window taken out of current while emit runs, or None
  received,    \* history: the messages this process decoded
  published,   \* history: the payloads written, oldest first
  skipped,     \* history: the messages this process left out of every window
  stops        \* history: how often the process stopped

env == <<now, log>>
offsets == <<committed, stored, position>>
loop == <<pc, msg, current, closing>>
hist == <<received, published, skipped>>
vars == <<env, offsets, loop, hist, stops>>

-----------------------------------------------------------------------------
\* The window of a timestamp in seconds, as <<start, end>>.
bucket_bounds(secs) ==
  LET start == (secs \div BUCKET_SECS) * BUCKET_SECS
  IN  <<start, start + BUCKET_SECS>>

\* The start of the window of a timestamp in milliseconds.
StartOf(ms) == bucket_bounds(ms \div MsPerSec)[1]

\* Bucket::new
NewBucket(ms) == [start |-> bucket_bounds(ms \div MsPerSec)[1],
                  end   |-> bucket_bounds(ms \div MsPerSec)[2],
                  msgs  |-> << >>]

\* Bucket::add: the message becomes part of the window.
Add(bucket, m) == [bucket EXCEPT !.msgs = Append(@, m)]

\* One of the two lines emit prints for a window.
Payload(topic) == [topic |-> topic, start |-> closing.start,
                   end |-> closing.end, msgs |-> closing.msgs,
                   at |-> now, run |-> stops]

\* Mutants of MayClose: no window need be open; the clock is not looked at; the
\* clock must have passed the delay; the record's own time counts.
MayCloseNothing == current.start # StartOf(msg.ms) /\ now >= current.end + CloseDelaySecs
MayCloseAtOnce == current # None /\ current.start # StartOf(msg.ms)
MayCloseLater == /\ current # None
                 /\ current.start # StartOf(msg.ms)
                 /\ now > current.end + CloseDelaySecs
MayCloseByRecord == /\ current # None
                    /\ current.start # StartOf(msg.ms)
                    /\ msg.ms \div MsPerSec >= current.end + CloseDelaySecs

\* The test before emit: traffic of another window, and the delay is over.
MayClose == /\ current # None
            /\ current.start # StartOf(msg.ms)
            /\ now >= current.end + CloseDelaySecs

-----------------------------------------------------------------------------
Init ==
  /\ now = 0
  /\ log = << >>
  /\ committed = NoOffset
  /\ stored = NoOffset
  /\ position = 1
  /\ pc = "stopped"
  /\ msg = NoMsg
  /\ current = None
  /\ closing = None
  /\ received = {}
  /\ published = << >>
  /\ skipped = {}
  /\ stops = 0

\* The gateway appends the record of one client query. Its timestamp may lie
\* up to MaxLateMs behind the clock (a batching or retrying producer), and a
\* record may hold no payload, or one this build cannot decode.
Produce ==
  /\ Len(log) < MaxLog
  /\ \E late \in 0 .. MaxLateMs + MsPerSec - 1, stamped, decodes \in BOOLEAN :
       LET ms == now * MsPerSec + MsPerSec - 1 - late
       IN  /\ stamped => ms >= 0
           /\ stamped \/ (Untimestamped /\ late = 0)
           /\ log' = Append(log, [ms |-> IF stamped THEN ms ELSE NoTimestamp,
                                  decodes |-> decodes, at |-> now])
  /\ UNCHANGED <<now, offsets, loop, hist, stops>>

Tick ==
  /\ now < MaxTime
  /\ now' = now + 1
  /\ UNCHANGED <<log, offsets, loop, hist, stops>>

\* enable.auto.commit: the client library commits the stored offset on a timer
\* of its own, between any two steps of the loop.
AutoCommit ==
  /\ pc # "stopped"
  /\ stored # NoOffset
  /\ committed' = stored
  /\ UNCHANGED <<env, stored, position, loop, hist, stops>>

\* The process starts: no window is open, and the group resumes from its
\* committed offset, or from the end of the topic (auto.offset.reset latest).
Start ==
  /\ pc = "stopped"
  /\ position' = IF committed = NoOffset THEN Len(log) + 1 ELSE committed
  /\ pc' = "recv"
  /\ UNCHANGED <<env, committed, stored, msg, current, closing, hist, stops>>

\* What a process that ends leaves behind: its memory is gone.
Forget ==
  /\ pc' = "stopped"
  /\ msg' = NoMsg
  /\ current' = None
  /\ closing' = None
  /\ stored' = NoOffset
  /\ received' = {}
  /\ skipped' = {}
  /\ stops' = stops + 1
  /\ UNCHANGED <<env, position, published>>

\* The process is killed.
Crash ==
  /\ pc # "stopped"
  /\ stops < MaxStops
  /\ Forget
  /\ UNCHANGED committed

\* recv returns an error, main returns it, and the consumer is dropped: the
\* client library commits the stored offset as it closes.
FailRecv ==
  /\ pc = "recv"
  /\ stops < MaxStops
  /\ Forget
  /\ committed' = IF stored = NoOffset THEN committed ELSE stored

\* recv returns a record; the library stores the offset after it.
Deliver ==
  /\ pc = "recv"
  /\ position <= Len(log)
  /\ position' = position + 1
  /\ stored' = position + 1

\* No payload, or one that does not decode: the loop goes on to the next.
RecvUndecodable ==
  /\ Deliver
  /\ ~ log[position].decodes
  /\ UNCHANGED <<env, committed, loop, hist, stops>>

\* Mutant: every message counts as received now.
RecvByClock ==
  /\ Deliver
  /\ log[position].decodes
  /\ LET m == [off |-> position, ms |-> now * MsPerSec]
     IN  /\ msg' = m
         /\ received' = received \union {m}
  /\ pc' = "route"
  /\ UNCHANGED <<env, committed, current, closing, published, skipped, stops>>

\* A message. Without a timestamp it counts as received now.
Recv ==
  /\ Deliver
  /\ log[position].decodes
  /\ LET m == [off |-> position,
               ms |-> IF log[position].ms = NoTimestamp
                      THEN now * MsPerSec ELSE log[position].ms]
     IN  /\ msg' = m
         /\ received' = received \union {m}
  /\ pc' = "route"
  /\ UNCHANGED <<env, committed, current, closing, published, skipped, stops>>

\* Mutant: the window is emitted, but stays open.
CloseBucketKeeping ==
  /\ pc = "route"
  /\ MayClose
  /\ closing' = current
  /\ pc' = "emit_allocations"
  /\ UNCHANGED <<env, offsets, msg, current, hist, stops>>

\* The open window is taken, and emit starts on it.
CloseBucket ==
  /\ pc = "route"
  /\ MayClose
  /\ closing' = current
  /\ current' = None
  /\ pc' = "emit_allocations"
  /\ UNCHANGED <<env, offsets, msg, hist, stops>>

\* Mutant: both lines of a window go out on the queries topic.
EmitAllocationsAsQueries ==
  /\ pc = "emit_allocations"
  /\ published' = Append(published, Payload(TOPIC_QUERY))
  /\ pc' = "emit_queries"
  /\ UNCHANGED <<env, offsets, msg, current, closing, received, skipped, stops>>

EmitAllocations ==
  /\ pc = "emit_allocations"
  /\ published' = Append(published, Payload(TOPIC_ALLOCATION))
  /\ pc' = "emit_queries"
  /\ UNCHANGED <<env, offsets, msg, current, closing, received, skipped, stops>>

\* Mutant: the message that closed the window is not folded.
EmitQueriesAndDrop ==
  /\ pc = "emit_queries"
  /\ published' = Append(published, Payload(TOPIC_QUERY))
  /\ closing' = None
  /\ msg' = NoMsg
  /\ pc' = "recv"
  /\ UNCHANGED <<env, offsets, current, received, skipped, stops>>

EmitQueries ==
  /\ pc = "emit_queries"
  /\ published' = Append(published, Payload(TOPIC_QUERY))
  /\ closing' = None
  /\ pc' = "fold"
  /\ UNCHANGED <<env, offsets, msg, current, received, skipped, stops>>

\* Mutant of Fold: every message is added to the window found.
FoldAnything ==
  /\ pc = "fold" \/ (pc = "route" /\ ~ MayClose)
  /\ current' = Add(IF current = None THEN NewBucket(msg.ms) ELSE current, msg)
  /\ msg' = NoMsg
  /\ pc' = "recv"
  /\ UNCHANGED <<env, offsets, closing, received, published, skipped, stops>>

\* get_or_insert_with, then add if the message belongs to the window it found.
\* A message of another window is let go.
Fold ==
  /\ pc = "fold" \/ (pc = "route" /\ ~ MayClose)
  /\ LET bucket == IF current = None THEN NewBucket(msg.ms) ELSE current
     IN  IF bucket.start = StartOf(msg.ms)
         THEN /\ current' = Add(bucket, msg)
              /\ UNCHANGED skipped
         ELSE /\ current' = bucket
              /\ skipped' = skipped \union
                   {[off |-> msg.off, ms |-> msg.ms, held |-> bucket.end, at |-> now]}
  /\ msg' = NoMsg
  /\ pc' = "recv"
  /\ UNCHANGED <<env, offsets, closing, received, published, stops>>

-----------------------------------------------------------------------------
Loop == RecvUndecodable \/ Recv \/ CloseBucket \/ EmitAllocations
          \/ EmitQueries \/ Fold

Next == Produce \/ Tick \/ AutoCommit \/ Start \/ Crash \/ FailRecv \/ Loop

Spec == Init /\ [][Next]_vars

\* A process that can run does run, a stopped one is started again, and time
\* passes. Nothing makes the gateway produce, or the library commit.
Fairness == WF_vars(Loop) /\ WF_vars(Start) /\ WF_vars(Tick)

FairSpec == Spec /\ Fairness

-----------------------------------------------------------------------------
(***************************************************************************)
(* Properties.                                                              *)
(***************************************************************************)
Topics == {TOPIC_ALLOCATION, TOPIC_QUERY}
Message == [off : Nat \ {0}, ms : Nat]
Window == [start : Nat, end : Nat, msgs : Seq(Message)]
Pcs == {"stopped", "recv", "route", "emit_allocations", "emit_queries", "fold"}

\* Every variable keeps its type.
TypeOK ==
  /\ now \in Nat
  /\ log \in Seq([ms : Nat \union {NoTimestamp}, decodes : BOOLEAN, at : Nat])
  /\ committed \in Nat
  /\ stored \in Nat
  /\ position \in Nat \ {0}
  /\ pc \in Pcs
  /\ msg \in Message \union {NoMsg}
  /\ current \in Window \union {None}
  /\ closing \in Window \union {None}
  /\ received \subseteq Message
  /\ published \in Seq([topic : Topics, start : Nat, end : Nat,
                        msgs : Seq(Message), at : Nat, run : Nat])
  /\ skipped \subseteq [off : Nat \ {0}, ms : Nat, held : Nat, at : Nat]
  /\ stops \in Nat

\* The time of m, in milliseconds, lies in the half-open window of w.
Within(m, w) == w.start * MsPerSec <= m.ms /\ m.ms < w.end * MsPerSec

\* A window that is as wide as every other, ends on a multiple of the width
\* ("always a multiple of 300", oracle.rs), holds a message, and holds only
\* messages of its own time.
Pure(w) == /\ w.end = w.start + BUCKET_SECS
           /\ w.end % BUCKET_SECS = 0
           /\ w.msgs # << >>
           /\ \A i \in DOMAIN w.msgs : Within(w.msgs[i], w)

\* The open window, the one being emitted and every payload ever published are
\* pure: a message whose time lies outside is never counted, however the loop,
\* the clock and the topic interleave, and an empty window is never published.
WindowPurity ==
  /\ current # None => Pure(current)
  /\ closing # None => Pure(closing)
  /\ \A i \in DOMAIN published : Pure(published[i])

\* No payload is written before its window's end plus the close delay.
NoEarlyPublish ==
  \A i \in DOMAIN published :
    published[i].at >= published[i].end + CloseDelaySecs

\* A message is left out of every window only while an older or newer window is
\* held open, and only until that window's close delay is over.
SkipsOnlyInCloseDelay ==
  \A s \in skipped :
    /\ s.at < s.held + CloseDelaySecs
    /\ ~ Within(s, [start |-> s.held - BUCKET_SECS, end |-> s.held])

\* The messages of a sequence of messages.
Held(msgs) == {msgs[i] : i \in DOMAIN msgs}

\* What the running process published on a topic.
PublishedOn(topic) ==
  UNION {Held(published[i].msgs) :
           i \in {j \in DOMAIN published : /\ published[j].topic = topic
                                           /\ published[j].run = stops}}

\* The messages the running process let go.
Skipped == {[off |-> s.off, ms |-> s.ms] : s \in skipped}

InHand == IF msg = NoMsg THEN {} ELSE {msg}

\* Every message the running process decoded is in its hand, in a window, in a
\* payload, or was let go by Fold: there is no other way to lose one, and none
\* to invent one.
Accounting ==
  received = InHand \union Held(current.msgs) \union Held(closing.msgs)
               \union PublishedOn(TOPIC_QUERY) \union Skipped

\* Offsets grow along a sequence of messages.
Increasing(msgs) ==
  \A i, j \in DOMAIN msgs : i < j => msgs[i].off < msgs[j].off

\* Every offset of one sequence of messages is below every one of the other.
Before(ms1, ms2) ==
  \A i \in DOMAIN ms1, j \in DOMAIN ms2 : ms1[i].off < ms2[j].off

\* One process counts a message at most once on each topic: the offsets of what
\* it publishes there increase strictly, within a payload and from one payload to
\* the next.
AtMostOnce ==
  /\ \A i \in DOMAIN published : Increasing(published[i].msgs)
  /\ \A i, j \in DOMAIN published :
       (/\ i < j
        /\ published[i].run = published[j].run
        /\ published[i].topic = published[j].topic)
         => Before(published[i].msgs, published[j].msgs)

SameWindow(p, q) ==
  /\ p.start = q.start
  /\ p.end = q.end
  /\ p.msgs = q.msgs
  /\ p.run = q.run

\* The two topics agree: a queries payload follows the allocations payload of
\* the same window, and an allocations payload is followed by its queries
\* payload, unless emit is between the two or a stop fell between them.
TopicsPaired ==
  \A i \in DOMAIN published :
    IF published[i].topic = TOPIC_QUERY
    THEN /\ i > 1
         /\ published[i - 1].topic = TOPIC_ALLOCATION
         /\ SameWindow(published[i - 1], published[i])
    ELSE \/ /\ i < Len(published)
            /\ published[i + 1].topic = TOPIC_QUERY
            /\ SameWindow(published[i], published[i + 1])
         \/ i = Len(published) /\ pc = "emit_queries"
         \/ published[i].run < stops

\* The promise of QosFeed: what is counted is what went out on both topics, and
\* half of a window is out while emit is between its two lines.
Feed == INSTANCE QosFeed
          WITH feed <- published,
               run <- stops,
               counted <- PublishedOn(TOPIC_QUERY),
               half <- IF pc = "emit_queries" THEN closing ELSE None

\* The loop keeps the promise step by step: over stops, commits, late records and
\* a lagging clock, what it writes is what QosFeed allows, and every message in a
\* payload is a record of the topic with that record's own time.
ImplementsFeed == Feed!Spec

FirstOff(w) == w.msgs[1].off
LastOff(w) == w.msgs[Len(w.msgs)].off

\* Between two offsets a topic goes back: a record is of an earlier window than one
\* before it, or lacks a timestamp, and so counts as of the moment the loop got to it.
GoesBack(topic, lo, hi) ==
  \E a, b \in DOMAIN topic :
    /\ lo <= a /\ a < b /\ b <= hi
    /\ \/ StartOf(topic[b].ms) < StartOf(topic[a].ms)
       \/ NoTimestamp \in {topic[a].ms, topic[b].ms}

\* One process publishes the windows in increasing order, each once per topic, unless
\* the topic itself goes back: a window is opened again, and published twice, only for
\* a late record that lies between its two payloads. The lag of the loop, the delay
\* and the messages let go are never the cause.
ReopenedByLateRecord ==
  \A i, j \in DOMAIN published :
    (/\ i < j
     /\ published[i].run = published[j].run
     /\ published[i].topic = published[j].topic
     /\ published[j].start <= published[i].start)
      => GoesBack(log, LastOff(published[i]), FirstOff(published[j]))

Offsets(msgs) == {msgs[i].off : i \in DOMAIN msgs}

\* The open window holds offset o, and a record of another window is unread that
\* reached the topic after the close delay was over.
ClosableBy(o) ==
  /\ o \in Offsets(current.msgs)
  /\ \E i \in position .. Len(log) :
       /\ log[i].decodes
       /\ log[i].ms # NoTimestamp
       /\ StartOf(log[i].ms) # current.start
       /\ log[i].at >= current.end + CloseDelaySecs

IsPublished(o, topic) ==
  \E i \in DOMAIN published :
    published[i].topic = topic /\ o \in Offsets(published[i].msgs)

\* Under FairSpec and without stops: once traffic of another window follows the
\* end of the close delay, every message of the open window is published, on
\* both topics.
EventuallyPublished ==
  \A o \in 1 .. MaxLog :
    ClosableBy(o) ~> (IsPublished(o, TOPIC_ALLOCATION) /\ IsPublished(o, TOPIC_QUERY))
=============================================================================
