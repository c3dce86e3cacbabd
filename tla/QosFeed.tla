------------------------------ MODULE QosFeed ------------------------------
(***************************************************************************)
(* What gib-qos-publisher promises the readers of its two topics, whatever  *)
(* happens inside it: payloads come in pairs, of windows whose time is over *)
(* and which hold records of the gateway's topic, of the window's own time, *)
(* each at most once between two stops.                                     *)
(*                                                                          *)
(* There is no open window here, no consumer group, no offset to commit.    *)
(* QosPublisher implements this specification (its ImplementsFeed).         *)
(***************************************************************************)
EXTENDS Integers, Sequences

CONSTANTS BUCKET_SECS, CloseDelaySecs, MsPerSec, TOPIC_ALLOCATION, TOPIC_QUERY

VARIABLES
  now,      \* wall clock in seconds
  log,      \* the gateway's query topic
  feed,     \* the payloads, oldest first
  run,      \* how often the publisher stopped
  counted,  \* the messages in payloads of this run
  half      \* the window of which one payload is out, or Nothing

Nothing == [start |-> -1, end |-> -1, msgs |-> << >>]

Init ==
  /\ now = 0
  /\ log = << >>
  /\ feed = << >>
  /\ run = 0
  /\ counted = {}
  /\ half = Nothing

Tick ==
  /\ now' = now + 1
  /\ UNCHANGED <<log, feed, run, counted, half>>

\* The topic grows by a record.
Produce ==
  /\ log' # << >>
  /\ log' = Append(log, log'[Len(log')])
  /\ UNCHANGED <<now, feed, run, counted, half>>

\* m stands for a record of the topic that decodes, with its time if it has one.
IsRecord(m) ==
  /\ m.off \in DOMAIN log
  /\ log[m.off].decodes
  /\ log[m.off].ms >= 0 => m.ms = log[m.off].ms

\* w may be published now: one of the consecutive windows of the given width, its
\* close delay is over, and it holds records of its own time, at least one, in
\* the order of the topic and after all this run has counted.
MayPublish(w) ==
  /\ w.end = w.start + BUCKET_SECS
  /\ w.end % BUCKET_SECS = 0
  /\ now >= w.end + CloseDelaySecs
  /\ w.msgs # << >>
  /\ \A i \in DOMAIN w.msgs :
       /\ IsRecord(w.msgs[i])
       /\ w.start * MsPerSec <= w.msgs[i].ms
       /\ w.msgs[i].ms < w.end * MsPerSec
       /\ \A j \in DOMAIN w.msgs : j < i => w.msgs[j].off < w.msgs[i].off
       /\ \A c \in counted : c.off < w.msgs[i].off

Publish(topic, w) ==
  feed' = Append(feed, [topic |-> topic, start |-> w.start, end |-> w.end,
                        msgs |-> w.msgs, at |-> now, run |-> run])

\* The first payload of a window.
PublishAllocations ==
  /\ half = Nothing
  /\ MayPublish(half')
  /\ Publish(TOPIC_ALLOCATION, half')
  /\ UNCHANGED <<now, log, run, counted>>

\* The second one, of the same window.
PublishQueries ==
  /\ half # Nothing
  /\ Publish(TOPIC_QUERY, half)
  /\ counted' = counted \union {half.msgs[i] : i \in DOMAIN half.msgs}
  /\ half' = Nothing
  /\ UNCHANGED <<now, log, run>>

\* The publisher stops, perhaps between the two.
Stop ==
  /\ run' = run + 1
  /\ counted' = {}
  /\ half' = Nothing
  /\ UNCHANGED <<now, log, feed>>

Next == Tick \/ Produce \/ PublishAllocations \/ PublishQueries \/ Stop

feedVars == <<now, log, feed, run, counted, half>>

Spec == Init /\ [][Next]_feedVars
=============================================================================
