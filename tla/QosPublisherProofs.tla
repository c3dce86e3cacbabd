------------------------- MODULE QosPublisherProofs -------------------------
(***************************************************************************)
(* Theorems about QosPublisher, for every value of its constants.           *)
(***************************************************************************)
EXTENDS QosPublisher, TLAPS

-----------------------------------------------------------------------------
(***************************************************************************)
(* Windows.                                                                 *)
(***************************************************************************)

\* Division rounds down: what is left over is a proper remainder.
LEMMA DivLemma ==
  ASSUME NEW a \in Nat, NEW b \in Nat \ {0}
  PROVE  /\ a \div b \in Nat
         /\ (a \div b) * b <= a
         /\ a < (a \div b) * b + b
         /\ a % b \in Nat
         /\ a % b < b
         /\ (a \div b) * b \in Nat
         /\ a = (a \div b) * b + (a % b)
<1>1. a % b \in 0 .. b - 1
  BY SMT
<1>2. a = (a \div b) * b + (a % b)
  BY SMT
<1>3. a \div b \in Nat /\ (a \div b) * b \in Nat
  BY SMT
<1>4. (a \div b) * b <= a /\ a < (a \div b) * b + b
  BY SMT
<1> QED
  BY <1>1, <1>2, <1>3, <1>4

\* Multiplication by a natural number keeps the order.
LEMMA MulMonotone ==
  ASSUME NEW a \in Nat, NEW b \in Nat, NEW k \in Nat, a <= b
  PROVE  a * k <= b * k
<1>1. b - a \in Nat
  OBVIOUS
<1>2. (b - a) * k \in Nat
  BY <1>1
<1>3. b * k = a * k + (b - a) * k
  BY <1>1
<1> QED
  BY <1>2, <1>3

\* The ends of windows are the multiples of the width.
LEMMA MultipleLemma ==
  ASSUME NEW k \in Nat
  PROVE  (k * BUCKET_SECS) % BUCKET_SECS = 0
<1> DEFINE B == BUCKET_SECS
           n == k * B
           d == n \div B
           r == n % B
           dB == d * B
<1>1. B \in Nat \ {0}
  BY BucketAssumption
<1>2. n \in Nat
  BY <1>1
<1>3. /\ d \in Nat
      /\ r \in Nat
      /\ r < B
      /\ dB \in Nat
      /\ n = dB + r
  <2> HIDE DEF n, B
  <2> QED
    BY <1>1, <1>2, DivLemma
<1>4. d + 1 <= k => dB + B <= n
  <2> HIDE DEF d
  <2>1. (d + 1) * B = dB + B
    BY <1>1, <1>3
  <2> QED
    BY <1>1, <1>3, <2>1, MulMonotone
<1>5. k + 1 <= d => n + B <= dB
  <2> HIDE DEF d
  <2>1. (k + 1) * B = n + B
    BY <1>1
  <2> QED
    BY <1>1, <1>3, <2>1, MulMonotone
<1>6. k = d => n = dB
  OBVIOUS
<1> HIDE DEF n, d, r, dB, B
<1>7. k = d
  BY <1>1, <1>2, <1>3, <1>4, <1>5
<1>8. r = 0
  BY <1>2, <1>3, <1>6, <1>7
<1> QED
  BY <1>8 DEF r, n, B

\* A second lies in one window only.
LEMMA OneWindow ==
  ASSUME NEW s \in Nat, NEW j \in Nat, NEW k \in Nat,
         j * BUCKET_SECS <= s, s < j * BUCKET_SECS + BUCKET_SECS,
         k * BUCKET_SECS <= s, s < k * BUCKET_SECS + BUCKET_SECS
  PROVE  j = k
<1> DEFINE B == BUCKET_SECS
<1>1. B \in Nat \ {0}
  BY BucketAssumption
<1>2. /\ j * B \in Nat /\ k * B \in Nat
      /\ (j + 1) * B = j * B + B
      /\ (k + 1) * B = k * B + B
  BY <1>1
<1> HIDE DEF B
<1>3. j + 1 <= k => (j + 1) * B <= k * B
  BY <1>1, MulMonotone
<1>4. k + 1 <= j => (k + 1) * B <= j * B
  BY <1>1, MulMonotone
<1> QED
  BY <1>1, <1>2, <1>3, <1>4 DEF B

\* bucket_bounds: a window of full width around the second it is given, that
\* ends on a multiple of the width.
LEMMA BoundsLemma ==
  ASSUME NEW secs \in Nat
  PROVE  /\ bucket_bounds(secs)[1] \in Nat
         /\ bucket_bounds(secs)[2] = bucket_bounds(secs)[1] + BUCKET_SECS
         /\ bucket_bounds(secs)[2] \in Nat
         /\ bucket_bounds(secs)[1] <= secs
         /\ secs < bucket_bounds(secs)[2]
         /\ bucket_bounds(secs)[2] % BUCKET_SECS = 0
<1> DEFINE q == secs \div BUCKET_SECS
<1>1. /\ q \in Nat
      /\ q * BUCKET_SECS <= secs
      /\ secs < q * BUCKET_SECS + BUCKET_SECS
  BY DivLemma, BucketAssumption
<1>2. q * BUCKET_SECS \in Nat
  BY <1>1, BucketAssumption
<1>3. /\ bucket_bounds(secs)[1] = q * BUCKET_SECS
      /\ bucket_bounds(secs)[2] = q * BUCKET_SECS + BUCKET_SECS
  BY DEF bucket_bounds
<1>4. /\ q + 1 \in Nat
      /\ (q + 1) * BUCKET_SECS = q * BUCKET_SECS + BUCKET_SECS
      /\ q * BUCKET_SECS + BUCKET_SECS \in Nat
  BY <1>1, <1>2, BucketAssumption
<1> HIDE DEF q
<1>5. (q * BUCKET_SECS + BUCKET_SECS) % BUCKET_SECS = 0
  BY <1>4, MultipleLemma
<1> QED
  BY <1>1, <1>2, <1>3, <1>4, <1>5, BucketAssumption

\* The window of a message: it is empty, as wide as every window, ends on
\* a multiple of the width, and the message's time lies within it.
LEMMA NewBucketLemma ==
  ASSUME NEW m \in Message
  PROVE  /\ NewBucket(m.ms) \in Window
         /\ NewBucket(m.ms).msgs = << >>
         /\ NewBucket(m.ms).start = StartOf(m.ms)
         /\ NewBucket(m.ms).end = NewBucket(m.ms).start + BUCKET_SECS
         /\ NewBucket(m.ms).end % BUCKET_SECS = 0
         /\ Within(m, NewBucket(m.ms))
<1> DEFINE secs == m.ms \div MsPerSec
           start == bucket_bounds(secs)[1]
           end == bucket_bounds(secs)[2]
<1>1. m.ms \in Nat
  BY DEF Message
<1>2. /\ secs \in Nat
      /\ secs * MsPerSec <= m.ms
      /\ m.ms < secs * MsPerSec + MsPerSec
  BY <1>1, DivLemma, MsAssumption
<1>3. /\ start \in Nat
      /\ end = start + BUCKET_SECS
      /\ end \in Nat
      /\ start <= secs
      /\ secs < end
      /\ end % BUCKET_SECS = 0
  BY <1>2, BoundsLemma
<1>4. NewBucket(m.ms) = [start |-> start, end |-> end, msgs |-> << >>]
  BY DEF NewBucket
<1>5. StartOf(m.ms) = start
  BY DEF StartOf
<1> HIDE DEF secs, start, end
<1>6. start * MsPerSec <= secs * MsPerSec
  BY <1>2, <1>3, MulMonotone, MsAssumption
<1>7. (secs + 1) * MsPerSec <= end * MsPerSec
  <2>1. secs + 1 \in Nat /\ secs + 1 <= end
    BY <1>2, <1>3
  <2> QED
    BY <2>1, <1>3, MulMonotone, MsAssumption
<1>8. /\ (secs + 1) * MsPerSec = secs * MsPerSec + MsPerSec
      /\ start * MsPerSec \in Nat
      /\ secs * MsPerSec \in Nat
      /\ end * MsPerSec \in Nat
  BY <1>2, <1>3, MsAssumption
<1>9. start * MsPerSec <= m.ms /\ m.ms < end * MsPerSec
  BY <1>1, <1>2, <1>6, <1>7, <1>8, MsAssumption
<1>10. NewBucket(m.ms) \in Window
  BY <1>3, <1>4 DEF Window
<1> QED
  BY <1>3, <1>4, <1>5, <1>9, <1>10 DEF Within

-----------------------------------------------------------------------------
(***************************************************************************)
(* Type correctness.                                                        *)
(***************************************************************************)

\* The window of a message accepts the message.
LEMMA AddType ==
  ASSUME NEW w \in Window, NEW m \in Message
  PROVE  /\ Add(w, m) \in Window
         /\ Add(w, m).start = w.start
         /\ Add(w, m).end = w.end
         /\ Add(w, m).msgs = Append(w.msgs, m)
  BY DEF Add, Window

\* Which variables are in use at which point of the loop.
Phases ==
  /\ msg # NoMsg <=> pc \in {"route", "emit_allocations", "emit_queries", "fold"}
  /\ closing # None <=> pc \in {"emit_allocations", "emit_queries"}
  /\ current # None => pc \in {"recv", "route"}
  /\ pc = "stopped" => skipped = {} /\ received = {} /\ stored = NoOffset

\* TypeOK is not inductive by itself: the payloads emit writes have a type only
\* because a window is there to be written, which Phases says.
TypeInv == TypeOK /\ Phases

\* The values that stand for nothing are neither messages nor windows.
LEMMA NothingLemma == NoMsg \notin Message /\ None \notin Window
  BY DEF NoMsg, None, Message, Window

\* What Fold leaves in current.
LEMMA FoldType ==
  ASSUME TypeInv, Fold
  PROVE  /\ msg \in Message
         /\ current' \in Window
         /\ skipped' \subseteq [off : Nat \ {0}, ms : Nat, held : Nat, at : Nat]
<1>1. msg \in Message
  BY DEF Fold, TypeInv, TypeOK, Phases
<1> DEFINE bucket == IF current = None THEN NewBucket(msg.ms) ELSE current
<1>2. bucket \in Window
  BY <1>1, NewBucketLemma DEF TypeInv, TypeOK
<1>3. \/ current' = Add(bucket, msg) /\ skipped' = skipped
      \/ /\ current' = bucket
         /\ skipped' = skipped \union
              {[off |-> msg.off, ms |-> msg.ms, held |-> bucket.end, at |-> now]}
  BY DEF Fold
<1> HIDE DEF bucket
<1>4. [off |-> msg.off, ms |-> msg.ms, held |-> bucket.end, at |-> now]
        \in [off : Nat \ {0}, ms : Nat, held : Nat, at : Nat]
  BY <1>1, <1>2 DEF Message, Window, TypeInv, TypeOK
<1>5. Add(bucket, msg) \in Window
  BY <1>1, <1>2, AddType
<1> QED
  BY <1>1, <1>2, <1>3, <1>4, <1>5 DEF TypeInv, TypeOK

\* The payload emit writes has its type.
LEMMA PayloadType ==
  ASSUME TypeInv, pc \in {"emit_allocations", "emit_queries"}, NEW t \in Topics
  PROVE  /\ closing \in Window
         /\ Payload(t) \in [topic : Topics, start : Nat, end : Nat,
                            msgs : Seq(Message), at : Nat, run : Nat]
<1>1. closing \in Window
  BY DEF TypeInv, TypeOK, Phases
<1> QED
  BY <1>1 DEF Payload, Window, TypeInv, TypeOK

LEMMA TypeInvInit == Init => TypeInv
<1> SUFFICES ASSUME Init PROVE TypeInv
  OBVIOUS
<1>1. TypeOK
  BY DEF Init, TypeOK, Pcs, NoOffset
<1>2. Phases
  BY DEF Init, Phases
<1> QED
  BY <1>1, <1>2 DEF TypeInv

LEMMA TypeInvNext == TypeInv /\ [Next]_vars => TypeInv'
<1> SUFFICES ASSUME TypeInv, [Next]_vars
             PROVE  TypeInv'
  OBVIOUS
<1> USE DEF TypeInv, TypeOK, Phases, Pcs, env, offsets, loop, hist
<1>1. CASE Produce
  <2>1. PICK late \in 0 .. MaxLateMs + MsPerSec - 1, stamped \in BOOLEAN,
             decodes \in BOOLEAN :
          LET ms == now * MsPerSec + MsPerSec - 1 - late
          IN  /\ stamped => ms >= 0
              /\ log' = Append(log, [ms |-> IF stamped THEN ms ELSE NoTimestamp,
                                     decodes |-> decodes, at |-> now])
    BY <1>1 DEF Produce
  <2>2. now * MsPerSec + MsPerSec - 1 - late \in Int
    BY BoundAssumption, MsAssumption
  <2>3. log' \in Seq([ms : Nat \union {NoTimestamp}, decodes : BOOLEAN, at : Nat])
    BY <2>1, <2>2
  <2> QED
    BY <1>1, <2>3 DEF Produce
<1>2. CASE Tick
  BY <1>2 DEF Tick
<1>3. CASE AutoCommit
  BY <1>3 DEF AutoCommit
<1>4. CASE Start
  <2>1. Len(log) \in Nat
    OBVIOUS
  <2> QED
    BY <1>4, <2>1 DEF Start, NoOffset
<1>5. CASE Crash
  BY <1>5 DEF Crash, Forget, NoOffset
<1>6. CASE FailRecv
  BY <1>6 DEF FailRecv, Forget, NoOffset
<1>7. CASE RecvUndecodable
  BY <1>7 DEF RecvUndecodable, Deliver
<1>8. CASE Recv
  <2>1. log[position] \in [ms : Nat \union {NoTimestamp}, decodes : BOOLEAN, at : Nat]
    <3> DEFINE R == [ms : Nat \union {NoTimestamp}, decodes : BOOLEAN, at : Nat]
    <3>1. log \in Seq(R) /\ position \in Nat \ {0} /\ position <= Len(log)
      BY <1>8 DEF Recv, Deliver
    <3> HIDE DEF R
    <3>2. log[position] \in R
      BY <3>1
    <3> QED
      BY <3>2 DEF R
  <2>2. now * MsPerSec \in Nat
    BY MsAssumption
  <2>3. msg' \in Message
    BY <1>8, <2>1, <2>2 DEF Recv, Message
  <2>4. received' = received \union {msg'}
    BY <1>8 DEF Recv
  <2>5. /\ position' \in Nat \ {0}
        /\ stored' \in Nat
        /\ pc' = "route"
        /\ UNCHANGED <<env, committed, current, closing, published, skipped, stops>>
    BY <1>8 DEF Recv, Deliver
  <2>6. TypeOK'
    BY <2>3, <2>4, <2>5
  <2>7. Phases'
    BY <1>8, <2>3, <2>5, NothingLemma DEF Recv, Deliver
  <2> QED
    BY <2>6, <2>7
<1>9. CASE CloseBucket
  BY <1>9 DEF CloseBucket, MayClose
<1>10. CASE EmitAllocations
  BY <1>10, PayloadType DEF EmitAllocations, Topics
<1>11. CASE EmitQueries
  BY <1>11, PayloadType DEF EmitQueries, Topics
<1>12. CASE Fold
  BY <1>12, FoldType, NothingLemma DEF Fold
<1>13. CASE UNCHANGED vars
  BY <1>13 DEF vars
<1> QED
  BY <1>1, <1>2, <1>3, <1>4, <1>5, <1>6, <1>7, <1>8, <1>9, <1>10, <1>11,
     <1>12, <1>13 DEF Next, Loop

LEMMA TypeInvariance == Spec => []TypeInv
  BY TypeInvInit, TypeInvNext, PTL DEF Spec

\* Every variable keeps its type, whatever the bounds are.
THEOREM TypeCorrect == Spec => []TypeOK
<1>1. TypeInv => TypeOK
  BY DEF TypeInv
<1> QED
  BY <1>1, TypeInvariance, PTL

-----------------------------------------------------------------------------
(***************************************************************************)
(* What is published: windows that are pure, and only after their delay.    *)
(***************************************************************************)

\* An element of an appended sequence is an old one, or the one appended.
LEMMA AppendLemma ==
  ASSUME NEW S, NEW s \in Seq(S), NEW e \in S
  PROVE  /\ Append(s, e) \in Seq(S)
         /\ Append(s, e) # << >>
         /\ Len(Append(s, e)) = Len(s) + 1
         /\ DOMAIN Append(s, e) = DOMAIN s \union {Len(s) + 1}
         /\ Append(s, e)[Len(s) + 1] = e
         /\ \A i \in DOMAIN s : i < Len(s) + 1 /\ Append(s, e)[i] = s[i]
  OBVIOUS

PayloadSet == [topic : Topics, start : Nat, end : Nat,
               msgs : Seq(Message), at : Nat, run : Nat]

\* Emit appends one payload, and what it knows of the window it emits.
LEMMA EmitLemma ==
  ASSUME TypeInv, EmitAllocations \/ EmitQueries
  PROVE  \E t \in Topics :
           /\ closing \in Window
           /\ closing # None
           /\ Payload(t) \in PayloadSet
           /\ published \in Seq(PayloadSet)
           /\ published' = Append(published, Payload(t))
           /\ \/ t = TOPIC_ALLOCATION /\ EmitAllocations
              \/ t = TOPIC_QUERY /\ EmitQueries
<1>1. ASSUME pc \in {"emit_allocations", "emit_queries"}, NEW t \in Topics
      PROVE  /\ closing \in Window
             /\ closing # None
             /\ Payload(t) \in PayloadSet
             /\ published \in Seq(PayloadSet)
  BY <1>1, PayloadType, NothingLemma DEF TypeInv, TypeOK, PayloadSet
<1> QED
  BY <1>1 DEF EmitAllocations, EmitQueries, Topics

\* The actions that touch no window and no payload.
Quiet == \/ Produce \/ Tick \/ AutoCommit \/ Start \/ RecvUndecodable \/ Recv
         \/ UNCHANGED vars

LEMMA QuietLemma == Quiet => UNCHANGED <<current, closing, published>>
  BY DEF Quiet, Produce, Tick, AutoCommit, Start, RecvUndecodable, Recv, vars,
         loop, hist

LEMMA NextSplit ==
  [Next]_vars => \/ Quiet \/ Crash \/ FailRecv \/ CloseBucket
                 \/ EmitAllocations \/ EmitQueries \/ Fold
  BY DEF Next, Loop, Quiet

\* The window Fold leaves open is pure: a new window holds its message, and an
\* old one takes a message of the same window only.
LEMMA FoldPure ==
  ASSUME TypeInv, WindowPurity, Fold
  PROVE  Pure(current')
<1> DEFINE bucket == IF current = None THEN NewBucket(msg.ms) ELSE current
<1>1. msg \in Message
  BY FoldType
<1>2. /\ bucket \in Window
      /\ bucket.end = bucket.start + BUCKET_SECS
      /\ bucket.end % BUCKET_SECS = 0
      /\ \A i \in DOMAIN bucket.msgs : Within(bucket.msgs[i], bucket)
  <2>1. CASE current = None
    BY <1>1, <2>1, NewBucketLemma
  <2>2. CASE current # None
    BY <2>2 DEF WindowPurity, Pure, TypeInv, TypeOK
  <2> QED
    BY <2>1, <2>2
<1>3. \/ bucket.start = StartOf(msg.ms) /\ current' = Add(bucket, msg)
      \/ bucket.start # StartOf(msg.ms) /\ current' = bucket
  BY DEF Fold
<1>4. CASE current' = Add(bucket, msg) /\ bucket.start = StartOf(msg.ms)
  <2>1. Within(msg, bucket)
    BY <1>1, <1>2, <1>4, NewBucketLemma DEF Within
  <2> HIDE DEF bucket
  <2>2. /\ current'.start = bucket.start
        /\ current'.end = bucket.end
        /\ current'.msgs = Append(bucket.msgs, msg)
    BY <1>1, <1>2, <1>4, AddType
  <2>3. bucket.msgs \in Seq(Message)
    BY <1>2 DEF Window
  <2>4. \A i \in DOMAIN current'.msgs : Within(current'.msgs[i], bucket)
    BY <1>1, <1>2, <2>1, <2>2, <2>3, AppendLemma
  <2>5. current'.msgs # << >>
    BY <1>1, <2>2, <2>3, AppendLemma
  <2> QED
    BY <1>2, <2>2, <2>4, <2>5 DEF Pure, Within
<1>5. CASE current' = bucket /\ bucket.start # StartOf(msg.ms)
  <2>1. current # None
    BY <1>1, <1>5, NewBucketLemma
  <2> QED
    BY <1>5, <2>1 DEF WindowPurity
<1> QED
  BY <1>3, <1>4, <1>5

\* Every step keeps every window pure.
LEMMA PurityNext == TypeInv /\ WindowPurity /\ [Next]_vars => WindowPurity'
<1> SUFFICES ASSUME TypeInv, WindowPurity, [Next]_vars
             PROVE  WindowPurity'
  OBVIOUS
<1>1. CASE Quiet
  BY <1>1, QuietLemma DEF WindowPurity, Pure, Within
<1>2. CASE Crash \/ FailRecv
  BY <1>2 DEF Crash, FailRecv, Forget, WindowPurity, Pure, Within
<1>3. CASE CloseBucket
  BY <1>3 DEF CloseBucket, hist, WindowPurity, Pure, Within
<1>4. CASE EmitAllocations \/ EmitQueries
  <2>1. PICK t \in Topics :
          /\ closing # None
          /\ Payload(t) \in PayloadSet
          /\ published \in Seq(PayloadSet)
          /\ published' = Append(published, Payload(t))
    BY <1>4, EmitLemma
  <2>2. Pure(Payload(t))
    BY <2>1 DEF WindowPurity, Pure, Within, Payload
  <2>3. \A i \in DOMAIN published' : Pure(published'[i])
    BY <2>1, <2>2, AppendLemma DEF WindowPurity
  <2>4. /\ current' = current
        /\ closing' = closing \/ closing' = None
    BY <1>4 DEF EmitAllocations, EmitQueries
  <2> QED
    BY <2>3, <2>4 DEF WindowPurity, Pure, Within
<1>5. CASE Fold
  <2>1. Pure(current')
    BY <1>5, FoldPure
  <2> QED
    BY <1>5, <2>1 DEF Fold, WindowPurity, Pure, Within
<1> QED
  BY <1>1, <1>2, <1>3, <1>4, <1>5, NextSplit

\* Only messages of a window are ever counted in it, and no window is published
\* empty: for every width, delay, lateness, lag and number of restarts.
THEOREM PurityTheorem == Spec => []WindowPurity
<1>1. Init => WindowPurity
  BY DEF Init, WindowPurity
<1> QED
  BY <1>1, PurityNext, TypeInvariance, PTL DEF Spec

\* The window emit works on is due: its close delay was over when it was taken,
\* and the clock does not go back.
Due == closing # None => now >= closing.end + CloseDelaySecs

LEMMA EarlyNext ==
  TypeInv /\ Due /\ NoEarlyPublish /\ [Next]_vars => Due' /\ NoEarlyPublish'
<1> SUFFICES ASSUME TypeInv, Due, NoEarlyPublish, [Next]_vars
             PROVE  Due' /\ NoEarlyPublish'
  OBVIOUS
<1>1. CASE Quiet
  <2>1. now' = now \/ now' = now + 1
    BY <1>1 DEF Quiet, Produce, Tick, AutoCommit, Start, RecvUndecodable, Recv,
                vars, env
  <2>2. UNCHANGED <<closing, published>>
    BY <1>1, QuietLemma
  <2>3. now \in Nat /\ (closing # None => closing.end \in Nat)
    BY DEF TypeInv, TypeOK, Window
  <2>4. Due'
    BY <2>1, <2>2, <2>3, DelayAssumption DEF Due
  <2> QED
    BY <2>2, <2>4 DEF NoEarlyPublish
<1>2. CASE Crash \/ FailRecv
  BY <1>2 DEF Crash, FailRecv, Forget, Due, NoEarlyPublish
<1>3. CASE CloseBucket
  BY <1>3 DEF CloseBucket, MayClose, hist, env, Due, NoEarlyPublish
<1>4. CASE EmitAllocations \/ EmitQueries
  <2>1. PICK t \in Topics :
          /\ closing # None
          /\ Payload(t) \in PayloadSet
          /\ published \in Seq(PayloadSet)
          /\ published' = Append(published, Payload(t))
    BY <1>4, EmitLemma
  <2>2. Payload(t).at = now /\ Payload(t).end = closing.end
    BY DEF Payload
  <2>3. NoEarlyPublish'
    BY <2>1, <2>2, AppendLemma DEF NoEarlyPublish, Due
  <2>4. /\ now' = now
        /\ closing' = closing \/ closing' = None
    BY <1>4 DEF EmitAllocations, EmitQueries, env
  <2> QED
    BY <2>3, <2>4 DEF Due
<1>5. CASE Fold
  BY <1>5 DEF Fold, env, Due, NoEarlyPublish
<1> QED
  BY <1>1, <1>2, <1>3, <1>4, <1>5, NextSplit

\* No payload is written before the end of its window plus the close delay, even
\* when time passes between the test, the two payloads and a restart.
THEOREM EarlyTheorem == Spec => []NoEarlyPublish
<1>1. Init => Due /\ NoEarlyPublish
  BY DEF Init, Due, NoEarlyPublish
<1> QED
  BY <1>1, EarlyNext, TypeInvariance, PTL DEF Spec

-----------------------------------------------------------------------------
(***************************************************************************)
(* What is let go: messages of another window, during the close delay.      *)
(***************************************************************************)

\* A message within a window that ends on a multiple of the width has that very
\* window: the test on starts that Fold makes tells the windows apart.
LEMMA SameStart ==
  ASSUME NEW m \in Message, NEW w \in Window,
         w.end = w.start + BUCKET_SECS, w.end % BUCKET_SECS = 0, Within(m, w)
  PROVE  w.start = StartOf(m.ms)
<1> DEFINE B == BUCKET_SECS
           secs == m.ms \div MsPerSec
           k == w.end \div B
           q == secs \div B
<1>1. B \in Nat \ {0} /\ m.ms \in Nat /\ w.start \in Nat /\ w.end \in Nat
  BY BucketAssumption DEF Message, Window
<1>2. /\ secs \in Nat
      /\ secs * MsPerSec \in Nat
      /\ secs * MsPerSec <= m.ms
      /\ m.ms < secs * MsPerSec + MsPerSec
  BY <1>1, DivLemma, MsAssumption
<1>3. k \in Nat /\ w.end = k * B
  <2> DEFINE r == w.end % B
             kB == k * B
  <2>1. k \in Nat /\ kB \in Nat /\ w.end = kB + r
    BY <1>1, DivLemma
  <2>2. r = 0
    OBVIOUS
  <2> HIDE DEF r, kB, k
  <2>3. w.end = kB
    BY <2>1, <2>2
  <2> QED
    BY <2>1, <2>3 DEF kB
<1>4. k # 0
  <2> HIDE DEF k
  <2>1. k = 0 => k * B = 0
    BY <1>1
  <2> QED
    BY <1>1, <1>3, <2>1
<1>5. k - 1 \in Nat /\ (k - 1) * B \in Nat /\ (k - 1) * B + B = k * B
  <2> HIDE DEF k
  <2> QED
    BY <1>1, <1>3, <1>4
<1>6. w.start = (k - 1) * B
  <2> HIDE DEF k
  <2> QED
    BY <1>1, <1>3, <1>5
<1>7. q \in Nat /\ q * B <= secs /\ secs < q * B + B /\ StartOf(m.ms) = q * B
  BY <1>1, <1>2, DivLemma DEF StartOf, bucket_bounds
<1> HIDE DEF secs, k, q
<1>8. w.start <= secs
  <2>1. secs + 1 <= w.start => (secs + 1) * MsPerSec <= w.start * MsPerSec
    BY <1>1, <1>2, MulMonotone, MsAssumption
  <2>2. (secs + 1) * MsPerSec = secs * MsPerSec + MsPerSec
        /\ w.start * MsPerSec \in Nat
    BY <1>1, <1>2, MsAssumption
  <2> QED
    BY <1>1, <1>2, <2>1, <2>2, MsAssumption DEF Within
<1>9. secs < w.end
  <2>1. w.end <= secs => w.end * MsPerSec <= secs * MsPerSec
    BY <1>1, <1>2, MulMonotone, MsAssumption
  <2>2. w.end * MsPerSec \in Nat
    BY <1>1, MsAssumption
  <2> QED
    BY <1>1, <1>2, <2>1, <2>2 DEF Within
<1>10. k - 1 = q
  BY <1>1, <1>2, <1>3, <1>5, <1>6, <1>7, <1>8, <1>9, OneWindow
<1> QED
  BY <1>6, <1>7, <1>10

LEMMA SkipNext ==
  TypeInv /\ WindowPurity /\ SkipsOnlyInCloseDelay /\ [Next]_vars
    => SkipsOnlyInCloseDelay'
<1> SUFFICES ASSUME TypeInv, WindowPurity, SkipsOnlyInCloseDelay, [Next]_vars
             PROVE  SkipsOnlyInCloseDelay'
  OBVIOUS
<1>1. CASE skipped' = skipped
  BY <1>1 DEF SkipsOnlyInCloseDelay, Within
<1>2. CASE skipped' = {}
  BY <1>2 DEF SkipsOnlyInCloseDelay
<1>3. CASE Fold
  <2> DEFINE bucket == IF current = None THEN NewBucket(msg.ms) ELSE current
             s == [off |-> msg.off, ms |-> msg.ms, held |-> bucket.end, at |-> now]
  <2>1. msg \in Message
    BY <1>3, FoldType
  <2>2. CASE bucket.start # StartOf(msg.ms)
    <3>1. current # None
      BY <2>1, <2>2, NewBucketLemma
    <3>2. current \in Window /\ Pure(current) /\ bucket = current
      BY <3>1 DEF TypeInv, TypeOK, WindowPurity
    <3>3. pc = "route"
      BY <1>3, <3>1 DEF Fold, TypeInv, Phases
    <3>4. ~ (now >= current.end + CloseDelaySecs)
      BY <1>3, <2>2, <3>1, <3>2, <3>3 DEF Fold, MayClose
    <3>5. s.at < s.held + CloseDelaySecs
      BY <3>2, <3>4, DelayAssumption DEF TypeInv, TypeOK, Window
    <3>6. ~ Within(msg, current)
      BY <2>1, <2>2, <3>2, SameStart DEF Pure
    <3>7. current.start = s.held - BUCKET_SECS
      BY <3>2, BucketAssumption DEF Pure, Window
    <3>8. ~ Within(s, [start |-> s.held - BUCKET_SECS, end |-> s.held])
      BY <3>2, <3>6, <3>7 DEF Within
    <3>9. skipped' = skipped \union {s}
      BY <1>3, <2>2 DEF Fold
    <3> HIDE DEF s
    <3> QED
      BY <3>5, <3>8, <3>9 DEF SkipsOnlyInCloseDelay, Within
  <2>3. CASE bucket.start = StartOf(msg.ms)
    BY <1>1, <1>3, <2>3 DEF Fold
  <2> QED
    BY <2>2, <2>3
<1>4. skipped' = skipped \/ skipped' = {} \/ Fold
  BY DEF Next, Loop, Produce, Tick, AutoCommit, Start, Crash, FailRecv, Forget,
         RecvUndecodable, Recv, CloseBucket, EmitAllocations, EmitQueries, vars, hist
<1> QED
  BY <1>1, <1>2, <1>3, <1>4

\* A message is let go only while another window waits for its close delay: from
\* then on the next message closes that window, and is counted.
THEOREM SkipTheorem == Spec => []SkipsOnlyInCloseDelay
<1>1. Init => WindowPurity /\ SkipsOnlyInCloseDelay
  BY DEF Init, WindowPurity, SkipsOnlyInCloseDelay
<1> QED
  BY <1>1, PurityNext, SkipNext, TypeInvariance, PTL DEF Spec

-----------------------------------------------------------------------------
(***************************************************************************)
(* A process counts a message once, and pairs its payloads.                 *)
(***************************************************************************)

\* Every offset of a sequence of messages is below n.
Below(msgs, n) == \A i \in DOMAIN msgs : msgs[i].off < n

\* AtMostOnce says nothing of the windows still open. The strengthening orders
\* everything the running process holds by offset: what it published, then the
\* window being emitted, then the open one, then the message in hand, all of it
\* below the position recv reads next. A stop ends the run, so that nothing
\* published is of the run that starts over at a lower position.
OffsetInv ==
  /\ \A i \in DOMAIN published :
       /\ published[i].run <= stops
       /\ pc = "stopped" => published[i].run < stops
       /\ published[i].run = stops =>
            /\ Below(published[i].msgs, position)
            /\ msg # NoMsg => Below(published[i].msgs, msg.off)
            /\ Before(published[i].msgs, current.msgs)
            /\ (published[i].topic = TOPIC_QUERY \/ pc = "emit_allocations")
                 => Before(published[i].msgs, closing.msgs)
  /\ Increasing(current.msgs) /\ Below(current.msgs, position)
  /\ Increasing(closing.msgs) /\ Below(closing.msgs, position)
  /\ msg # NoMsg => /\ msg.off < position
                    /\ Below(current.msgs, msg.off)
                    /\ Below(closing.msgs, msg.off)

\* Orders of sequences of messages: an empty one is in every order, and a message
\* of a higher offset may be appended.
LEMMA OrderLemma ==
  /\ \A s : Before(s, << >>) /\ Increasing(<< >>)
  /\ \A n : Below(<< >>, n)
  /\ \A s \in Seq(Message), n, k \in Nat : Below(s, n) /\ n <= k => Below(s, k)
  /\ \A s \in Seq(Message), m \in Message :
       Increasing(s) /\ Below(s, m.off) => Increasing(Append(s, m))
  /\ \A s \in Seq(Message), m \in Message, n \in Nat :
       Below(s, n) /\ m.off < n => Below(Append(s, m), n)
  /\ \A s, t \in Seq(Message), m \in Message :
       Before(s, t) /\ Below(s, m.off) => Before(s, Append(t, m))
<1>1. \A s : Before(s, << >>) /\ Increasing(<< >>)
  BY DEF Before, Increasing
<1>2. \A n : Below(<< >>, n)
  BY DEF Below
<1>3. ASSUME NEW s \in Seq(Message), NEW n \in Nat, NEW k \in Nat,
             Below(s, n), n <= k
      PROVE  Below(s, k)
  <2>1. \A i \in DOMAIN s : s[i] \in Message
    OBVIOUS
  <2>2. \A m \in Message : m.off \in Nat
    BY DEF Message
  <2> QED
    BY <1>3, <2>1, <2>2 DEF Below
<1>4. ASSUME NEW s \in Seq(Message), NEW m \in Message
      PROVE  /\ \A i \in DOMAIN s : i \in Nat /\ s[i] \in Message
             /\ \A i \in DOMAIN Append(s, m) :
                  \/ i \in DOMAIN s /\ Append(s, m)[i] = s[i] /\ i < Len(s) + 1
                  \/ i = Len(s) + 1 /\ Append(s, m)[i] = m
  BY AppendLemma
<1>5. ASSUME NEW s \in Seq(Message), NEW m \in Message,
             Increasing(s), Below(s, m.off)
      PROVE  Increasing(Append(s, m))
  <2> SUFFICES ASSUME NEW i \in DOMAIN Append(s, m),
                      NEW j \in DOMAIN Append(s, m), i < j
               PROVE  Append(s, m)[i].off < Append(s, m)[j].off
    BY DEF Increasing
  <2>1. i \in DOMAIN s /\ Append(s, m)[i] = s[i]
    <3>1. Len(s) \in Nat
      OBVIOUS
    <3> QED
      BY <1>4, <3>1
  <2> QED
    BY <1>4, <1>5, <2>1 DEF Increasing, Below
<1>6. ASSUME NEW s \in Seq(Message), NEW m \in Message, NEW n \in Nat,
             Below(s, n), m.off < n
      PROVE  Below(Append(s, m), n)
  BY <1>4, <1>6 DEF Below
<1>7. ASSUME NEW s \in Seq(Message), NEW t \in Seq(Message), NEW m \in Message,
             Before(s, t), Below(s, m.off)
      PROVE  Before(s, Append(t, m))
  BY <1>4, <1>7 DEF Before, Below
<1> QED
  BY <1>1, <1>2, <1>3, <1>5, <1>6, <1>7

\* What is published has messages for elements, and a run.
LEMMA PublishedType ==
  ASSUME TypeInv, NEW i \in DOMAIN published
  PROVE  /\ published[i] \in PayloadSet
         /\ published[i].msgs \in Seq(Message)
         /\ published[i].run \in Nat
<1>1. published \in Seq(PayloadSet)
  BY DEF TypeInv, TypeOK, PayloadSet
<1>2. published[i] \in PayloadSet
  BY <1>1
<1> QED
  BY <1>2 DEF PayloadSet

\* The windows have messages for elements, and None has none.
LEMMA WindowMsgs ==
  ASSUME TypeInv
  PROVE  /\ current.msgs \in Seq(Message)
         /\ closing.msgs \in Seq(Message)
         /\ None.msgs = << >>
<1>1. None.msgs = << >> /\ None.msgs \in Seq(Message)
  BY DEF None
<1>2. \A w \in Window : w.msgs \in Seq(Message)
  BY DEF Window
<1> QED
  BY <1>1, <1>2 DEF TypeInv, TypeOK

LEMMA OffsetNext == TypeInv /\ OffsetInv /\ [Next]_vars => OffsetInv'
<1> SUFFICES ASSUME TypeInv, OffsetInv, [Next]_vars
             PROVE  OffsetInv'
  OBVIOUS
<1>0. /\ position \in Nat
      /\ stops \in Nat
  BY DEF TypeInv, TypeOK
<1>1. CASE UNCHANGED <<position, loop, published, stops>>
  BY <1>1 DEF OffsetInv, loop, Below, Before, Increasing
<1>2. CASE Start
  <2>1. /\ msg = NoMsg /\ current = None /\ closing = None
        /\ pc = "stopped" /\ pc' = "recv"
        /\ UNCHANGED <<msg, current, closing, published, stops>>
    BY <1>2 DEF Start, hist, TypeInv, Phases
  <2>2. \A i \in DOMAIN published : published[i].run < stops
    BY <2>1 DEF OffsetInv
  <2>3. \A i \in DOMAIN published : published[i].run <= stops /\ published[i].run # stops
    BY <1>0, <2>2, PublishedType
  <2> QED
    BY <2>1, <2>3, WindowMsgs, OrderLemma DEF OffsetInv
<1>3. CASE Crash \/ FailRecv
  <2>1. /\ pc' = "stopped" /\ msg' = NoMsg /\ current' = None /\ closing' = None
        /\ stops' = stops + 1 /\ published' = published
    BY <1>3 DEF Crash, FailRecv, Forget
  <2>2. \A i \in DOMAIN published :
          /\ published[i].run <= stops'
          /\ published[i].run < stops'
    BY <1>0, <2>1, PublishedType DEF OffsetInv
  <2>3. \A i \in DOMAIN published : published[i].run # stops'
    BY <1>0, <2>1, <2>2, PublishedType
  <2> QED
    BY <2>1, <2>2, <2>3, WindowMsgs, OrderLemma DEF OffsetInv
<1>4. CASE RecvUndecodable \/ Recv
  <2>1. /\ pc = "recv" /\ msg = NoMsg /\ closing = None
        /\ position' = position + 1
        /\ pc' \in {"recv", "route"}
        /\ UNCHANGED <<current, closing, published, stops>>
        /\ msg' = NoMsg \/ msg'.off = position
    BY <1>4 DEF RecvUndecodable, Recv, Deliver, loop, hist, TypeInv, Phases
  <2>2. position' \in Nat /\ position <= position' /\ position < position'
    BY <1>0, <2>1
  <2>3. \A i \in DOMAIN published :
          published[i].run = stops => /\ Below(published[i].msgs, position)
                                      /\ Below(published[i].msgs, position')
    BY <1>0, <2>2, PublishedType, OrderLemma DEF OffsetInv
  <2>4. Below(current.msgs, position) /\ Below(current.msgs, position')
    BY <1>0, <2>2, WindowMsgs, OrderLemma DEF OffsetInv
  <2>5. closing.msgs = << >>
    BY <2>1, WindowMsgs
  <2> QED
    BY <2>1, <2>2, <2>3, <2>4, <2>5, OrderLemma DEF OffsetInv
<1>5. CASE CloseBucket
  <2>1. /\ pc = "route" /\ pc' = "emit_allocations"
        /\ closing' = current /\ current' = None
        /\ UNCHANGED <<position, msg, published, stops>>
    BY <1>5 DEF CloseBucket, offsets, hist
  <2> QED
    BY <2>1, WindowMsgs, OrderLemma DEF OffsetInv
<1>6. CASE EmitAllocations \/ EmitQueries
  <2>1. PICK t \in Topics :
          /\ Payload(t) \in PayloadSet
          /\ published \in Seq(PayloadSet)
          /\ published' = Append(published, Payload(t))
          /\ \/ t = TOPIC_ALLOCATION /\ EmitAllocations
             \/ t = TOPIC_QUERY /\ EmitQueries
    BY <1>6, EmitLemma
  <2> DEFINE p == Payload(t)
  <2>2. /\ p.topic = t /\ p.run = stops /\ p.msgs = closing.msgs
        /\ TOPIC_ALLOCATION # TOPIC_QUERY
    BY DEF Payload, TOPIC_ALLOCATION, TOPIC_QUERY
  <2>3. /\ UNCHANGED <<position, msg, current, stops>>
        /\ pc' \in {"emit_queries", "fold"}
        /\ current = None
        /\ msg # NoMsg
        /\ closing' = None \/ (closing' = closing /\ t = TOPIC_ALLOCATION)
        /\ t = TOPIC_QUERY => closing' = None
        /\ t = TOPIC_ALLOCATION => pc = "emit_allocations"
        /\ t = TOPIC_QUERY => pc = "emit_queries"
    BY <2>1, <2>2 DEF EmitAllocations, EmitQueries, offsets, TypeInv, Phases
  <2>4. \A i \in DOMAIN published' :
          \/ i \in DOMAIN published /\ published'[i] = published[i]
          \/ published'[i] = p
    BY <2>1, AppendLemma
  <2> HIDE DEF p
  <2>5. /\ Below(p.msgs, position)
        /\ Below(p.msgs, msg.off)
        /\ Before(p.msgs, current.msgs)
        /\ p.topic = TOPIC_QUERY => Before(p.msgs, closing'.msgs)
    BY <2>2, <2>3, WindowMsgs, OrderLemma DEF OffsetInv
  <2>6. ASSUME NEW i \in DOMAIN published'
        PROVE  /\ published'[i].run <= stops
               /\ pc' = "stopped" => published'[i].run < stops
               /\ published'[i].run = stops =>
                    /\ Below(published'[i].msgs, position)
                    /\ Below(published'[i].msgs, msg.off)
                    /\ Before(published'[i].msgs, current.msgs)
                    /\ published'[i].topic = TOPIC_QUERY
                         => Before(published'[i].msgs, closing'.msgs)
    <3>1. CASE i \in DOMAIN published /\ published'[i] = published[i]
      BY <2>3, <3>1, WindowMsgs, OrderLemma DEF OffsetInv
    <3>2. CASE published'[i] = p
      BY <1>0, <2>2, <2>3, <2>5, <3>2
    <3> QED
      BY <2>4, <3>1, <3>2
  <2>7. /\ Increasing(closing'.msgs) /\ Below(closing'.msgs, position)
        /\ Below(closing'.msgs, msg.off)
    BY <2>3, WindowMsgs, OrderLemma DEF OffsetInv
  <2> QED
    BY <2>3, <2>6, <2>7 DEF OffsetInv
<1>7. CASE Fold
  <2> DEFINE bucket == IF current = None THEN NewBucket(msg.ms) ELSE current
  <2>1. /\ msg \in Message
        /\ bucket.msgs = current.msgs
    BY <1>7, FoldType, NewBucketLemma, WindowMsgs
  <2>2. \/ current'.msgs = Append(current.msgs, msg)
        \/ current'.msgs = current.msgs
    <3>1. bucket \in Window
      BY <2>1, NewBucketLemma DEF TypeInv, TypeOK
    <3>2. current' = Add(bucket, msg) \/ current' = bucket
      BY <1>7 DEF Fold
    <3> HIDE DEF bucket
    <3> QED
      BY <2>1, <3>1, <3>2, AddType
  <2>3. /\ UNCHANGED <<position, closing, published, stops>>
        /\ msg # NoMsg /\ msg' = NoMsg
        /\ pc' = "recv"
        /\ closing.msgs = << >>
    BY <1>7, <2>1, NothingLemma, WindowMsgs
       DEF Fold, offsets, TypeInv, Phases
  <2> HIDE DEF bucket
  <2>4. /\ Increasing(current.msgs) /\ Below(current.msgs, position)
        /\ Below(current.msgs, msg.off) /\ msg.off < position
        /\ \A i \in DOMAIN published : published[i].run = stops =>
             /\ Below(published[i].msgs, msg.off)
             /\ Before(published[i].msgs, current.msgs)
    BY <2>3 DEF OffsetInv
  <2>5. Increasing(current'.msgs) /\ Below(current'.msgs, position)
    <3>1. Increasing(Append(current.msgs, msg))
      BY <2>1, <2>4, WindowMsgs, OrderLemma
    <3>2. Below(Append(current.msgs, msg), position)
      BY <1>0, <2>1, <2>4, WindowMsgs, OrderLemma
    <3> QED
      BY <2>2, <2>4, <3>1, <3>2
  <2>6. ASSUME NEW i \in DOMAIN published, published[i].run = stops
        PROVE  Before(published[i].msgs, current'.msgs)
    <3>1. Before(published[i].msgs, Append(current.msgs, msg))
      BY <2>1, <2>4, <2>6, PublishedType, WindowMsgs, OrderLemma
    <3> QED
      BY <2>2, <2>4, <2>6, <3>1
  <2> QED
    BY <2>3, <2>5, <2>6, OrderLemma DEF OffsetInv
<1>8. Quiet => \/ UNCHANGED <<position, loop, published, stops>>
               \/ Start \/ RecvUndecodable \/ Recv
  BY DEF Quiet, Produce, Tick, AutoCommit, vars, offsets, hist
<1> QED
  BY <1>1, <1>2, <1>3, <1>4, <1>5, <1>6, <1>7, <1>8, NextSplit

\* The actions that write no payload.
LEMMA PublishedFrame ==
  [Next]_vars => published' = published \/ EmitAllocations \/ EmitQueries
  BY DEF Next, Loop, Produce, Tick, AutoCommit, Start, Crash, FailRecv, Forget,
         RecvUndecodable, Recv, CloseBucket, Fold, vars, hist

LEMMA OnceNext ==
  TypeInv /\ OffsetInv /\ AtMostOnce /\ [Next]_vars => AtMostOnce'
<1> SUFFICES ASSUME TypeInv, OffsetInv, AtMostOnce, [Next]_vars
             PROVE  AtMostOnce'
  OBVIOUS
<1>1. CASE published' = published
  BY <1>1 DEF AtMostOnce, Increasing, Before
<1>2. CASE EmitAllocations \/ EmitQueries
  <2>1. PICK t \in Topics :
          /\ Payload(t) \in PayloadSet
          /\ published \in Seq(PayloadSet)
          /\ published' = Append(published, Payload(t))
          /\ \/ t = TOPIC_ALLOCATION /\ EmitAllocations
             \/ t = TOPIC_QUERY /\ EmitQueries
    BY <1>2, EmitLemma
  <2> DEFINE p == Payload(t)
             n == Len(published) + 1
  <2>2. p.topic = t /\ p.run = stops /\ p.msgs = closing.msgs
    BY DEF Payload
  <2>3. /\ DOMAIN published' = DOMAIN published \union {n}
        /\ published'[n] = p
        /\ \A i \in DOMAIN published : i < n /\ published'[i] = published[i]
        /\ n \in Nat
        /\ \A i \in DOMAIN published : i \in Nat
    BY <2>1, AppendLemma
  <2>4. t = TOPIC_QUERY \/ pc = "emit_allocations"
    BY <2>1 DEF EmitAllocations
  <2> HIDE DEF p, n
  <2>5. ASSUME NEW i \in DOMAIN published, published[i].run = p.run,
               published[i].topic = p.topic
        PROVE  Before(published[i].msgs, p.msgs)
    BY <2>2, <2>4, <2>5 DEF OffsetInv
  <2>6. Increasing(p.msgs)
    BY <2>2 DEF OffsetInv
  <2>7. \A i \in DOMAIN published' : Increasing(published'[i].msgs)
    BY <2>3, <2>6 DEF AtMostOnce
  <2>8. ASSUME NEW i \in DOMAIN published', NEW j \in DOMAIN published', i < j,
               published'[i].run = published'[j].run,
               published'[i].topic = published'[j].topic
        PROVE  Before(published'[i].msgs, published'[j].msgs)
    <3>1. CASE j = n
      <4>1. i \in DOMAIN published
        BY <2>3, <2>8, <3>1
      <4> QED
        BY <2>3, <2>5, <2>8, <3>1, <4>1
    <3>2. CASE j \in DOMAIN published
      <4>1. i \in DOMAIN published
        BY <2>3, <2>8, <3>2
      <4> QED
        BY <2>3, <2>8, <3>2, <4>1 DEF AtMostOnce
    <3> QED
      BY <2>3, <3>1, <3>2
  <2> QED
    BY <2>7, <2>8 DEF AtMostOnce
<1> QED
  BY <1>1, <1>2, PublishedFrame

LEMMA OffsetInvariance == Spec => []OffsetInv
<1>1. Init => OffsetInv
  BY DEF Init, OffsetInv, None, Increasing, Below
<1> QED
  BY <1>1, OffsetNext, TypeInvariance, PTL DEF Spec

\* No process counts a message twice, in one payload or in two payloads of one
\* topic, whatever is late, delayed or read again.
THEOREM OnceTheorem == Spec => []AtMostOnce
<1>1. Init => AtMostOnce
  BY DEF Init, AtMostOnce
<1> QED
  BY <1>1, OnceNext, TypeInvariance, OffsetInvariance, PTL DEF Spec

\* Between the two payloads of a window the first is the last one written, and
\* the window is still at hand.
HalfEmitted ==
  pc = "emit_queries" =>
    /\ published # << >>
    /\ published[Len(published)].topic = TOPIC_ALLOCATION
    /\ SameWindow(published[Len(published)], Payload(TOPIC_QUERY))

LEMMA PairedNext ==
  TypeInv /\ OffsetInv /\ HalfEmitted /\ TopicsPaired /\ [Next]_vars
    => HalfEmitted' /\ TopicsPaired'
<1> SUFFICES ASSUME TypeInv, OffsetInv, HalfEmitted, TopicsPaired, [Next]_vars
             PROVE  HalfEmitted' /\ TopicsPaired'
  OBVIOUS
<1>0. /\ published \in Seq(PayloadSet)
      /\ Len(published) \in Nat
      /\ DOMAIN published = 1 .. Len(published)
      /\ stops \in Nat
      /\ TOPIC_ALLOCATION # TOPIC_QUERY
  BY DEF TypeInv, TypeOK, PayloadSet, TOPIC_ALLOCATION, TOPIC_QUERY
<1>1. CASE UNCHANGED <<pc, closing, published, stops>>
  BY <1>1 DEF HalfEmitted, TopicsPaired, SameWindow, Payload
<1>2. CASE /\ pc # "emit_queries" /\ pc' # "emit_queries"
           /\ UNCHANGED <<published, stops>>
  BY <1>2 DEF HalfEmitted, TopicsPaired, SameWindow
<1>3. CASE Crash \/ FailRecv
  <2>1. pc' = "stopped" /\ stops' = stops + 1 /\ published' = published
    BY <1>3 DEF Crash, FailRecv, Forget
  <2>2. \A i \in DOMAIN published : published[i].run < stops'
    BY <1>0, <2>1, PublishedType DEF OffsetInv
  <2> QED
    BY <2>1, <2>2 DEF HalfEmitted, TopicsPaired, SameWindow
<1>4. CASE EmitAllocations
  <2> DEFINE p == Payload(TOPIC_ALLOCATION)
             n == Len(published) + 1
  <2>1. /\ p \in PayloadSet
        /\ published' = Append(published, p)
        /\ pc = "emit_allocations" /\ pc' = "emit_queries"
        /\ UNCHANGED <<closing, stops>>
    BY <1>4, PayloadType DEF EmitAllocations, Topics, PayloadSet
  <2>2. /\ DOMAIN published' = DOMAIN published \union {n}
        /\ Len(published') = n
        /\ published'[n] = p
        /\ \A i \in DOMAIN published : i < n /\ published'[i] = published[i]
        /\ published' # << >>
    BY <1>0, <2>1, AppendLemma
  <2>3. p.topic = TOPIC_ALLOCATION /\ SameWindow(p, Payload(TOPIC_QUERY)')
    BY <2>1 DEF SameWindow, Payload
  <2> HIDE DEF p
  <2>4. HalfEmitted'
    BY <2>2, <2>3 DEF HalfEmitted, SameWindow
  <2>5. TopicsPaired'
    <3> SUFFICES ASSUME NEW i \in DOMAIN published'
                 PROVE  IF published'[i].topic = TOPIC_QUERY
                        THEN /\ i > 1
                             /\ published'[i - 1].topic = TOPIC_ALLOCATION
                             /\ SameWindow(published'[i - 1], published'[i])
                        ELSE \/ /\ i < Len(published')
                                /\ published'[i + 1].topic = TOPIC_QUERY
                                /\ SameWindow(published'[i], published'[i + 1])
                             \/ i = Len(published') /\ pc' = "emit_queries"
                             \/ published'[i].run < stops'
      BY DEF TopicsPaired, SameWindow
    <3>1. CASE i = n
      BY <1>0, <2>1, <2>2, <2>3, <3>1
    <3>2. CASE i \in DOMAIN published /\ published[i].topic = TOPIC_QUERY
      <4>1. i > 1 /\ i - 1 \in DOMAIN published
        BY <1>0, <3>2 DEF TopicsPaired
      <4> QED
        BY <2>2, <3>2, <4>1 DEF TopicsPaired
    <3>3. CASE i \in DOMAIN published /\ published[i].topic # TOPIC_QUERY
      <4>1. \/ published[i].run < stops
            \/ /\ i < Len(published)
               /\ published[i + 1].topic = TOPIC_QUERY
               /\ SameWindow(published[i], published[i + 1])
        BY <2>1, <3>3 DEF TopicsPaired
      <4>2. i < Len(published) => i + 1 \in DOMAIN published
        BY <1>0
      <4> QED
        BY <1>0, <2>1, <2>2, <3>3, <4>1, <4>2
    <3> QED
      BY <2>2, <3>1, <3>2, <3>3
  <2> QED
    BY <2>4, <2>5
<1>5. CASE EmitQueries
  <2> DEFINE p == Payload(TOPIC_QUERY)
             n == Len(published) + 1
  <2>1. /\ p \in PayloadSet
        /\ published' = Append(published, p)
        /\ pc = "emit_queries" /\ pc' = "fold"
        /\ stops' = stops
    BY <1>5, PayloadType DEF EmitQueries, Topics, PayloadSet
  <2>2. /\ DOMAIN published' = DOMAIN published \union {n}
        /\ Len(published') = n
        /\ published'[n] = p
        /\ \A i \in DOMAIN published : i < n /\ published'[i] = published[i]
    BY <1>0, <2>1, AppendLemma
  <2>3. /\ p.topic = TOPIC_QUERY
        /\ Len(published) > 0
        /\ published[Len(published)].topic = TOPIC_ALLOCATION
        /\ SameWindow(published[Len(published)], p)
    BY <1>0, <2>1 DEF HalfEmitted, Payload
  <2> HIDE DEF p
  <2>4. TopicsPaired'
    <3> SUFFICES ASSUME NEW i \in DOMAIN published'
                 PROVE  IF published'[i].topic = TOPIC_QUERY
                        THEN /\ i > 1
                             /\ published'[i - 1].topic = TOPIC_ALLOCATION
                             /\ SameWindow(published'[i - 1], published'[i])
                        ELSE \/ /\ i < Len(published')
                                /\ published'[i + 1].topic = TOPIC_QUERY
                                /\ SameWindow(published'[i], published'[i + 1])
                             \/ i = Len(published') /\ pc' = "emit_queries"
                             \/ published'[i].run < stops'
      BY DEF TopicsPaired, SameWindow
    <3>0. Len(published) \in DOMAIN published
      BY <1>0, <2>3
    <3>1. CASE i = n
      BY <1>0, <2>1, <2>2, <2>3, <3>0, <3>1
    <3>2. CASE i \in DOMAIN published /\ published[i].topic = TOPIC_QUERY
      <4>1. i > 1 /\ i - 1 \in DOMAIN published
        BY <1>0, <3>2 DEF TopicsPaired
      <4> QED
        BY <2>2, <3>2, <4>1 DEF TopicsPaired
    <3>3. CASE i \in DOMAIN published /\ published[i].topic # TOPIC_QUERY
      <4>1. CASE i = Len(published)
        BY <1>0, <2>2, <2>3, <3>0, <3>3, <4>1
      <4>2. CASE i # Len(published)
        <5>1. \/ published[i].run < stops
              \/ /\ i < Len(published)
                 /\ published[i + 1].topic = TOPIC_QUERY
                 /\ SameWindow(published[i], published[i + 1])
          BY <3>3, <4>2 DEF TopicsPaired
        <5>2. i < Len(published) => i + 1 \in DOMAIN published
          BY <1>0
        <5> QED
          BY <1>0, <2>1, <2>2, <3>3, <5>1, <5>2
      <4> QED
        BY <4>1, <4>2
    <3> QED
      BY <2>2, <3>1, <3>2, <3>3
  <2> QED
    BY <2>1, <2>4 DEF HalfEmitted
<1>6. \/ UNCHANGED <<pc, closing, published, stops>>
      \/ /\ pc # "emit_queries" /\ pc' # "emit_queries"
         /\ UNCHANGED <<published, stops>>
      \/ Crash \/ FailRecv \/ EmitAllocations \/ EmitQueries
  BY DEF Next, Loop, Produce, Tick, AutoCommit, Start, RecvUndecodable, Recv,
         Deliver, CloseBucket, Fold, vars, loop, hist
<1> QED
  BY <1>1, <1>2, <1>3, <1>4, <1>5, <1>6

\* The two topics agree on every window but one that a stop cut in half.
THEOREM PairedTheorem == Spec => []TopicsPaired
<1>1. Init => HalfEmitted /\ TopicsPaired
  BY DEF Init, HalfEmitted, TopicsPaired
<1> QED
  BY <1>1, PairedNext, TypeInvariance, OffsetInvariance, PTL DEF Spec

-----------------------------------------------------------------------------
(***************************************************************************)
(* Every message is accounted for.                                          *)
(***************************************************************************)

\* The messages of an appended sequence.
LEMMA HeldLemma ==
  /\ Held(<< >>) = {}
  /\ \A s \in Seq(Message), m \in Message : Held(Append(s, m)) = Held(s) \union {m}
<1>1. Held(<< >>) = {}
  BY DEF Held
<1>2. ASSUME NEW s \in Seq(Message), NEW m \in Message
      PROVE  Held(Append(s, m)) = Held(s) \union {m}
  BY AppendLemma DEF Held
<1> QED
  BY <1>1, <1>2

\* What the payload emit appends adds to what is published.
LEMMA PublishedOnLemma ==
  ASSUME TypeInv, NEW t \in Topics, NEW u \in Topics,
         Payload(t) \in PayloadSet, published' = Append(published, Payload(t)),
         stops' = stops
  PROVE  PublishedOn(u)' = IF t = u THEN PublishedOn(u) \union Held(closing.msgs)
                                    ELSE PublishedOn(u)
<1> DEFINE p == Payload(t)
           n == Len(published) + 1
<1>1. published \in Seq(PayloadSet)
  BY DEF TypeInv, TypeOK, PayloadSet
<1>2. p.topic = t /\ p.run = stops /\ p.msgs = closing.msgs
  BY DEF Payload
<1>3. /\ DOMAIN published' = DOMAIN published \union {n}
      /\ published'[n] = p
      /\ \A i \in DOMAIN published : i < n /\ published'[i] = published[i]
      /\ n \notin DOMAIN published
  BY <1>1, AppendLemma
<1> DEFINE I == {j \in DOMAIN published : /\ published[j].topic = u
                                          /\ published[j].run = stops}
           I2 == {j \in DOMAIN published' : /\ published'[j].topic = u
                                            /\ published'[j].run = stops}
<1> HIDE DEF p, n
<1>4. I2 = IF t = u THEN I \union {n} ELSE I
  BY <1>2, <1>3
<1>5. \A i \in I : published'[i] = published[i]
  BY <1>3
<1>6. PublishedOn(u)' = UNION {Held(published'[i].msgs) : i \in I2}
  BY DEF PublishedOn, Held
<1>7. PublishedOn(u) = UNION {Held(published[i].msgs) : i \in I}
  BY DEF PublishedOn
<1> HIDE DEF I, I2
<1> DEFINE F(i) == Held(published[i].msgs)
           G(i) == Held(published'[i].msgs)
<1>8. G(n) = Held(closing.msgs) /\ \A i \in I : G(i) = F(i)
  BY <1>2, <1>3, <1>5
<1> DEFINE U == UNION {F(i) : i \in I}
           V == UNION {G(i) : i \in I2}
<1>9. PublishedOn(u)' = V /\ PublishedOn(u) = U
  BY <1>6, <1>7
<1> HIDE DEF F, G
<1>10. /\ \A x : x \in U <=> \E i \in I : x \in F(i)
       /\ \A x : x \in V <=> \E i \in I2 : x \in G(i)
  BY Zenon
<1> HIDE DEF U, V
<1>11. \A x : x \in V <=> x \in U \/ (t = u /\ x \in G(n))
  <2>1. CASE t = u
    BY <1>4, <1>8, <1>10, <2>1
  <2>2. CASE t # u
    BY <1>4, <1>8, <1>10, <2>2
  <2> QED
    BY <2>1, <2>2
<1>12. V = IF t = u THEN U \union G(n) ELSE U
  <2>1. t = u => V = U \union G(n)
    BY <1>11
  <2>2. t # u => V = U
    BY <1>11
  <2> QED
    BY <2>1, <2>2
<1> QED
  BY <1>8, <1>9, <1>12

LEMMA AccountingNext ==
  TypeInv /\ OffsetInv /\ Accounting /\ [Next]_vars => Accounting'
<1> SUFFICES ASSUME TypeInv, OffsetInv, Accounting, [Next]_vars
             PROVE  Accounting'
  OBVIOUS
<1>0. /\ Held(None.msgs) = {}
      /\ TOPIC_ALLOCATION # TOPIC_QUERY
      /\ TOPIC_ALLOCATION \in Topics /\ TOPIC_QUERY \in Topics
  BY HeldLemma, WindowMsgs DEF TOPIC_ALLOCATION, TOPIC_QUERY, Topics
<1>1. CASE UNCHANGED <<msg, current, closing, hist, stops>>
  BY <1>1 DEF hist, Accounting, Held, PublishedOn, Skipped, InHand
<1>2. CASE Crash \/ FailRecv
  <2>1. /\ msg' = NoMsg /\ current' = None /\ closing' = None
        /\ received' = {} /\ skipped' = {}
        /\ stops' = stops + 1 /\ published' = published
    BY <1>2 DEF Crash, FailRecv, Forget
  <2>2. ASSUME NEW i \in DOMAIN published
        PROVE  published[i].run # stops'
    <3>1. published[i].run \in Nat /\ stops \in Nat
      BY PublishedType DEF TypeInv, TypeOK
    <3>2. published[i].run <= stops
      BY DEF OffsetInv
    <3> QED
      BY <2>1, <3>1, <3>2
  <2>3. PublishedOn(TOPIC_QUERY)' = {}
    BY <2>1, <2>2 DEF PublishedOn
  <2>4. Held(current.msgs)' = {} /\ Held(closing.msgs)' = {}
        /\ Skipped' = {} /\ InHand' = {}
    BY <1>0, <2>1 DEF Held, Skipped, InHand
  <2> QED
    BY <2>1, <2>3, <2>4 DEF Accounting
<1>3. CASE Recv
  <2>1. /\ msg = NoMsg
        /\ received' = received \union {msg'}
        /\ UNCHANGED <<current, closing, published, skipped, stops>>
    BY <1>3 DEF Recv, Deliver, TypeInv, Phases
  <2>2. msg' # NoMsg
    BY <1>3, TypeInvNext DEF Recv, TypeInv, Phases
  <2> QED
    BY <2>1, <2>2 DEF Accounting, Held, PublishedOn, Skipped, InHand
<1>4. CASE CloseBucket
  <2>1. /\ closing = None /\ closing' = current /\ current' = None
        /\ UNCHANGED <<msg, received, published, skipped, stops>>
    BY <1>4 DEF CloseBucket, hist, TypeInv, Phases
  <2>2. /\ Held(closing.msgs)' = Held(current.msgs)
        /\ Held(current.msgs)' = {} /\ Held(closing.msgs) = {}
    BY <1>0, <2>1 DEF Held
  <2>3. /\ PublishedOn(TOPIC_QUERY)' = PublishedOn(TOPIC_QUERY)
        /\ Skipped' = Skipped /\ InHand' = InHand
    BY <2>1 DEF PublishedOn, Held, Skipped, InHand
  <2> QED
    BY <2>1, <2>2, <2>3 DEF Accounting
<1>5. CASE EmitAllocations \/ EmitQueries
  <2>1. PICK t \in Topics :
          /\ Payload(t) \in PayloadSet
          /\ published' = Append(published, Payload(t))
          /\ \/ t = TOPIC_ALLOCATION /\ EmitAllocations
             \/ t = TOPIC_QUERY /\ EmitQueries
    BY <1>5, EmitLemma
  <2>2. /\ UNCHANGED <<msg, current, received, skipped, stops>>
        /\ t = TOPIC_ALLOCATION => closing' = closing
        /\ t = TOPIC_QUERY => closing' = None
    BY <1>0, <2>1 DEF EmitAllocations, EmitQueries
  <2>3. PublishedOn(TOPIC_QUERY)' =
          IF t = TOPIC_QUERY
          THEN PublishedOn(TOPIC_QUERY) \union Held(closing.msgs)
          ELSE PublishedOn(TOPIC_QUERY)
    BY <1>0, <2>1, <2>2, PublishedOnLemma
  <2>4. /\ t = TOPIC_ALLOCATION => Held(closing.msgs)' = Held(closing.msgs)
        /\ t = TOPIC_QUERY => Held(closing.msgs)' = {}
        /\ Held(current.msgs)' = Held(current.msgs)
        /\ Skipped' = Skipped /\ InHand' = InHand
    BY <1>0, <2>2 DEF Held, Skipped, InHand
  <2> QED
    BY <1>0, <2>1, <2>2, <2>3, <2>4 DEF Accounting
<1>6. CASE Fold
  <2> DEFINE bucket == IF current = None THEN NewBucket(msg.ms) ELSE current
             s == [off |-> msg.off, ms |-> msg.ms, held |-> bucket.end, at |-> now]
  <2>1. /\ msg \in Message /\ bucket \in Window
        /\ bucket.msgs = current.msgs
    BY <1>6, FoldType, NewBucketLemma, WindowMsgs DEF TypeInv, TypeOK
  <2>2. /\ UNCHANGED <<closing, received, published, stops>>
        /\ msg' = NoMsg /\ msg # NoMsg
    BY <1>6, <2>1, NothingLemma DEF Fold
  <2>3. /\ PublishedOn(TOPIC_QUERY)' = PublishedOn(TOPIC_QUERY)
        /\ Held(closing.msgs)' = Held(closing.msgs)
        /\ InHand = {msg} /\ InHand' = {}
    BY <2>2 DEF PublishedOn, Held, InHand
  <2>4. CASE bucket.start = StartOf(msg.ms)
    <3>1. current' = Add(bucket, msg) /\ skipped' = skipped
      BY <1>6, <2>4 DEF Fold
    <3> HIDE DEF bucket
    <3>2. current'.msgs = Append(current.msgs, msg)
      BY <2>1, <3>1, AddType
    <3>3. Held(current.msgs)' = Held(current.msgs) \union {msg}
      BY <2>1, <3>2, HeldLemma, WindowMsgs DEF Held
    <3>4. Skipped' = Skipped
      BY <3>1 DEF Skipped
    <3> QED
      BY <2>2, <2>3, <3>3, <3>4 DEF Accounting
  <2>5. CASE bucket.start # StartOf(msg.ms)
    <3>1. current' = bucket /\ skipped' = skipped \union {s}
      BY <1>6, <2>5 DEF Fold
    <3>2. s.off = msg.off /\ s.ms = msg.ms
      OBVIOUS
    <3>3. msg = [off |-> msg.off, ms |-> msg.ms]
      BY <2>1 DEF Message
    <3> HIDE DEF s, bucket
    <3>4. Skipped' = Skipped \union {msg}
      BY <3>1, <3>2, <3>3 DEF Skipped
    <3>5. Held(current.msgs)' = Held(current.msgs)
      BY <2>1, <3>1 DEF Held
    <3> QED
      BY <2>2, <2>3, <3>4, <3>5 DEF Accounting
  <2> QED
    BY <2>4, <2>5
<1>7. \/ UNCHANGED <<msg, current, closing, hist, stops>>
      \/ Crash \/ FailRecv \/ Recv \/ CloseBucket \/ Fold
      \/ EmitAllocations \/ EmitQueries
  BY DEF Next, Loop, Produce, Tick, AutoCommit, Start, RecvUndecodable, vars, loop
<1> QED
  BY <1>1, <1>2, <1>3, <1>4, <1>5, <1>6, <1>7

\* A process loses no message it decoded but through the one branch of Fold that
\* lets it go, and counts none it did not receive.
THEOREM AccountingTheorem == Spec => []Accounting
<1>1. Init => Accounting
  BY HeldLemma DEF Init, Accounting, InHand, None, PublishedOn, Skipped
<1> QED
  BY <1>1, AccountingNext, TypeInvariance, OffsetInvariance, PTL DEF Spec
=============================================================================
