----------------------- MODULE AttendanceGateway_proofs -----------------------
(***************************************************************************)
(* Theorems about AttendanceGateway: the types with the limit of the queue,   *)
(* that accepted batches are accounted for, that retries are bounded, and that *)
(* the files of the queue are taken in turn.                                 *)
(***************************************************************************)
EXTENDS AttendanceGateway, FiniteSetTheorems, TLAPS

\* The loop has a batch in hand.
Busy == step \notin {"wait", "next"}
\* The batch in hand still has its file.
HasFile == step \in {"sending", "sent", "failed", "unknown"}

\* Types, but for the limit of the queue.
Plain ==
    /\ enabled \in BOOLEAN
    /\ handler \in [Batches -> HandlerSteps]
    /\ stored \subseteq Batches /\ dead \subseteq Batches /\ cut \subseteq Batches
    /\ created \in Seq(Batches) /\ todo \subseteq Batches /\ item \in Batches \union {None}
    /\ attempts \in [Batches -> 0 .. MaxRetryAttempts]
    /\ step \in LoopSteps
    /\ sends \in [Batches -> Nat] /\ faults \in 0 .. MaxFaults
Types == Plain /\ requests \subseteq RequestRecords /\ recorded \subseteq Events

\* Requests insert events that their batch has.
Inserting == \A r \in requests : r.missing => r.next <= Len(EventsOf[r.batch])

\* The file of a batch is where the steps of the loop say it is, and its count of
\* failures leaves room for another.
Files ==
    /\ todo \subseteq stored
    /\ Busy => item \in Batches /\ item \notin todo
    /\ HasFile => item \in stored
    /\ Rewriting => item \notin stored
    /\ \A b \in stored : attempts[b] < MaxRetryAttempts
    /\ step = "rewrite" => attempts[item] < MaxRetryAttempts

\* A batch whose handler is not done has never had a file.
Unqueued ==
    \A b \in Batches : handler[b] \in {"new", "sending", "failed"} =>
        /\ b \notin stored
        /\ ~(Busy /\ item = b)
        /\ attempts[b] = 0

\* The files of the queue, one that is being rewritten included.
Queue == stored \union (IF step = "rewrite" THEN {item} ELSE {})
Limit == IsFiniteSet(Queue) /\ Cardinality(Queue) <= MaxQueueItems

TypeInv == Types /\ Inserting /\ Files /\ Unqueued

\* What a request has passed is recorded, and only one that passed all says "ok".
Passed ==
    \A r \in requests :
        /\ \A i \in 1 .. Len(EventsOf[r.batch]) : i < r.next => Known(EventsOf[r.batch][i])
        /\ r.reply = "ok" => r.next > Len(EventsOf[r.batch])
SentRecorded == \A b \in Batches : step = "sent" /\ item = b => RecordedAll(b)

\* One sending may be under way or done and not yet noted.
Unnoted(b) == IF item = b /\ step \in {"sending", "sent", "failed"} THEN 1 ELSE 0
Counted ==
    \A b \in Batches :
        /\ handler[b] = "new" => sends[b] = 0
        /\ handler[b] \in {"sending", "failed"} => sends[b] <= 1
        /\ b \in Queue => sends[b] <= 1 + attempts[b] + faults + Unnoted(b)

\* A batch the loop has not come to: its handler is not done, or the loop is at it.
Fresh(c) == handler[c] \in {"new", "sending", "failed"} \/ (Busy /\ item = c)

\* How often b may have been taken before c since c was stored or taken: once in the
\* pass under way if the loop has been at b in it, once in an earlier pass if c is still
\* to come in this one.
Turn(c, b) == (IF c \in todo THEN 1 ELSE 0) + (IF b \in todo THEN 0 ELSE 1)
Turns ==
    /\ overtaken \in [Batches -> [Batches -> Nat]]
    /\ step = "wait" => todo = {}
    /\ \A c, b \in Batches : Fresh(c) => overtaken[c][b] = 0
    /\ \A c, b \in Batches : c \in stored => overtaken[c][b] <= Turn(c, b) + faults

-----------------------------------------------------------------------------
(* Steps of the ERP and requests.                                            *)

\* The requests of a step are old ones, a new one, or one the ERP has gone on with.
LEMMA RequestsStep ==
    ASSUME Types, Inserting, Next
    PROVE  \A q \in requests' :
             \/ q \in requests
             \/ \E b \in Batches : q = NewRequest(b)
             \/ \E r \in requests :
                  \/ Look(r) /\ q = [r EXCEPT !.next = @ + 1]
                             /\ r.next <= Len(EventsOf[r.batch])
                             /\ Known(EventsOf[r.batch][r.next])
                  \/ Look(r) /\ q = [r EXCEPT !.missing = TRUE]
                             /\ r.next <= Len(EventsOf[r.batch])
                  \/ Insert(r) /\ q = [r EXCEPT !.missing = FALSE, !.next = @ + 1]
                  \/ Answer(r) /\ r.next > Len(EventsOf[r.batch]) /\ q = [r EXCEPT !.reply = "ok"]
                  \/ Answer(r) /\ q = [r EXCEPT !.reply = "error"]
<1>1. ASSUME NEW b \in Batches, Handle(b) \/ Forward(b)
      PROVE  \A q \in requests' : q \in requests \/ \E c \in Batches : q = NewRequest(c)
  BY <1>1 DEF Handle, Forward, Post, Ends, Abandon
<1>2. ASSUME NEW b \in Batches, Enqueue(b) \/ EnqueueFails(b)
      PROVE  requests' = requests
  BY <1>2 DEF Enqueue, EnqueueFails, erp
<1>3. ASSUME Retry
      PROVE  \A q \in requests' : q \in requests \/ \E c \in Batches : q = NewRequest(c)
  BY <1>3 DEF Retry, Post
<1>4. ASSUME Retried \/ Restart
      PROVE  requests' \subseteq requests
  BY <1>4 DEF Retried, Ends, Abandon, Restart, Strays
<1>5. ASSUME List \/ ListPartly \/ Remove \/ RecordFailure \/ MoveToDead \/ Write \/ FileFails
      PROVE  requests' = requests
  BY <1>5 DEF List, ListPartly, Remove, RecordFailure, MoveToDead, Write, FileFails, erp
<1>6. ASSUME NEW r \in requests, Look(r), NEW q \in requests'
      PROVE  \/ q \in requests
             \/ q = [r EXCEPT !.next = @ + 1] /\ r.next <= Len(EventsOf[r.batch])
                                              /\ Known(EventsOf[r.batch][r.next])
             \/ q = [r EXCEPT !.missing = TRUE] /\ r.next <= Len(EventsOf[r.batch])
  BY <1>6 DEF Look
<1>7. ASSUME NEW r \in requests, Insert(r), NEW q \in requests'
      PROVE  q \in requests \/ q = [r EXCEPT !.missing = FALSE, !.next = @ + 1]
  BY <1>7 DEF Insert
<1>8. ASSUME NEW r \in requests, Answer(r), NEW q \in requests'
      PROVE  \/ q \in requests
             \/ r.next > Len(EventsOf[r.batch]) /\ q = [r EXCEPT !.reply = "ok"]
             \/ q = [r EXCEPT !.reply = "error"]
  BY <1>8 DEF Answer, AnswersOf
<1> QED
  BY <1>1, <1>2, <1>3, <1>4, <1>5, <1>6, <1>7, <1>8, Zenon DEF Next, RetryStep

\* A request that is new, or was gone on with, is a request, and inserts what is there.
LEMMA RequestsTyped ==
    ASSUME Types, Inserting, Next
    PROVE  requests' \subseteq RequestRecords /\ Inserting'
<1> SUFFICES ASSUME NEW q \in requests'
             PROVE  q \in RequestRecords /\ (q.missing => q.next <= Len(EventsOf[q.batch]))
  BY DEF Inserting
<1>1. CASE q \in requests
  BY <1>1 DEF Types, Inserting
<1>2. ASSUME NEW b \in Batches, q = NewRequest(b)
      PROVE  q \in RequestRecords /\ ~q.missing
  BY <1>2 DEF Types, Plain, NewRequest, RequestRecords
<1>3. ASSUME NEW r \in requests
      PROVE  /\ r \in RequestRecords
             /\ r \in [batch : Batches, number : Nat, next : Nat \ {0}, missing : BOOLEAN,
                       reply : {None, "ok", "error"}]
             /\ r.missing => r.next <= Len(EventsOf[r.batch])
  BY DEF Types, Inserting, RequestRecords
<1>4. ASSUME NEW r \in requests, ~r.missing, q = [r EXCEPT !.next = @ + 1]
      PROVE  q \in RequestRecords /\ ~q.missing
  BY <1>3, <1>4 DEF RequestRecords
<1>5. ASSUME NEW r \in requests, q = [r EXCEPT !.missing = TRUE], r.next <= Len(EventsOf[r.batch])
      PROVE  q \in RequestRecords /\ q.next <= Len(EventsOf[q.batch])
  BY <1>3, <1>5 DEF RequestRecords
<1>6. ASSUME NEW r \in requests, q = [r EXCEPT !.missing = FALSE, !.next = @ + 1]
      PROVE  q \in RequestRecords /\ ~q.missing
  <2>1. q = [batch |-> r.batch, number |-> r.number, next |-> r.next + 1, missing |-> FALSE,
             reply |-> r.reply]
    BY <1>3, <1>6
  <2>2. r.batch \in Batches /\ r.number \in Nat /\ r.next + 1 \in Nat \ {0}
        /\ r.reply \in {None, "ok", "error"}
    BY <1>3
  <2>3. q.missing = FALSE
    BY <2>1
  <2> QED
    BY <2>1, <2>2, <2>3, Zenon DEF RequestRecords
<1>7. ASSUME NEW r \in requests, NEW a \in {"ok", "error"}, q = [r EXCEPT !.reply = a]
      PROVE  q \in RequestRecords /\ (q.missing => q.next <= Len(EventsOf[q.batch]))
  <2>1. q \in RequestRecords
    BY <1>3, <1>7 DEF RequestRecords
  <2>2. q.missing = r.missing /\ q.next = r.next /\ q.batch = r.batch
    BY <1>3, <1>7
  <2> QED
    BY <2>1, <2>2, <1>3, Zenon
<1>8. ASSUME NEW r \in requests, Look(r)
      PROVE  ~r.missing
  BY <1>8 DEF Look
<1> QED
  BY <1>1, <1>2, <1>4, <1>5, <1>6, <1>7, <1>8, RequestsStep, Zenon

\* What is inserted is an event of the batch.
LEMMA InsertTyped ==
    ASSUME Types, Inserting, NEW r \in requests, Insert(r)
    PROVE  recorded' \subseteq Events
<1>1. r \in RequestRecords /\ r.batch \in Batches /\ r.missing
  BY DEF Types, RequestRecords, Insert
<1>2. EventsOf[r.batch] \in Seq(Events)
  BY <1>1, GatewayConstants
<1>3. r.next \in Nat \ {0} /\ r.next <= Len(EventsOf[r.batch])
  BY <1>1 DEF Types, RequestRecords, Inserting
<1>4. EventsOf[r.batch][r.next] \in Events
  BY <1>2, <1>3
<1>5. recorded \subseteq Events
  BY DEF Types
<1>6. recorded' = recorded \union {EventsOf[r.batch][r.next]}
  BY DEF Insert
<1> QED
  BY <1>4, <1>5, <1>6, Zenon

\* The variables of the gateway keep to their types; so do the counts of failures.
LEMMA PlainKept ==
    ASSUME TypeInv, Next
    PROVE  Plain'
<1> USE GatewayConstants DEF TypeInv, Types, Plain, Files, Unqueued, Busy, HasFile, LoopSteps,
     HandlerSteps, files, loop, erp
<1>1. ASSUME NEW b \in Batches, Handle(b) PROVE Plain'
  <2>1. enabled' \in BOOLEAN
    <3>1. enabled' = enabled /\ enabled \in BOOLEAN
      BY <1>1, Zenon DEF Handle
    <3> QED
      BY <3>1, Zenon
  <2>2. /\ handler' \in [Batches -> HandlerSteps]
        /\ sends' \in [Batches -> Nat]
    <3>1. \/ handler' = [handler EXCEPT ![b] = "refused"] /\ sends' = sends
          \/ handler' = [handler EXCEPT ![b] = "sending"] /\ sends' = [sends EXCEPT ![b] = @ + 1]
      BY <1>1, Zenon DEF Handle, Post
    <3>2. handler \in [Batches -> HandlerSteps] /\ sends \in [Batches -> Nat]
      OBVIOUS
    <3>3. /\ [handler EXCEPT ![b] = "refused"] \in [Batches -> HandlerSteps]
          /\ [handler EXCEPT ![b] = "sending"] \in [Batches -> HandlerSteps]
      BY <3>2
    <3>4. [sends EXCEPT ![b] = @ + 1] \in [Batches -> Nat]
      BY <3>2
    <3> QED
      BY <3>1, <3>2, <3>3, <3>4, Zenon
  <2>3. UNCHANGED <<files, loop, cut, faults>>
    BY <1>1 DEF Handle
  <2>4. /\ stored' \subseteq Batches /\ dead' \subseteq Batches /\ cut' \subseteq Batches
        /\ created' \in Seq(Batches) /\ todo' \subseteq Batches
        /\ item' \in Batches \union {None}
        /\ attempts' \in [Batches -> 0 .. MaxRetryAttempts]
        /\ step' \in LoopSteps /\ faults' \in 0 .. MaxFaults
    BY <2>3
  <2> QED
    BY <2>1, <2>2, <2>4, Zenon
<1>2. ASSUME NEW b \in Batches, Forward(b) PROVE Plain'
  BY <1>2 DEF Forward
<1>3. ASSUME NEW b \in Batches, Enqueue(b) PROVE Plain'
  BY <1>3 DEF Enqueue, Room, Rewriting
<1>4. ASSUME NEW b \in Batches, EnqueueFails(b) PROVE Plain'
  BY <1>4 DEF EnqueueFails, Fault
<1>5. ASSUME List \/ ListPartly PROVE Plain'
  BY <1>5 DEF List, ListPartly, Fault
<1>6. ASSUME Retry PROVE Plain'
  BY <1>6 DEF Retry, Post, Foremost
<1>7. ASSUME Retried PROVE Plain'
  BY <1>7 DEF Retried
<1>8. ASSUME Remove PROVE Plain'
  BY <1>8 DEF Remove, Removable, Advance
<1>9. ASSUME RecordFailure PROVE Plain'
  BY <1>9 DEF RecordFailure, NoteFailure
<1>10. ASSUME MoveToDead PROVE Plain'
  BY <1>10 DEF MoveToDead
<1>11. ASSUME Write PROVE Plain'
  BY <1>11 DEF Write, Advance, Rewriting
<1>12. ASSUME FileFails PROVE Plain'
  BY <1>12 DEF FileFails, Fault, Advance, Rewriting
<1>13. ASSUME Restart PROVE Plain'
  BY <1>13 DEF Restart, Fault, Rewriting
<1>14. ASSUME NEW r \in requests, Look(r) PROVE Plain'
  BY <1>14 DEF Look
<1>15. ASSUME NEW r \in requests, Insert(r) PROVE Plain'
  BY <1>15 DEF Insert
<1>16. ASSUME NEW r \in requests, Answer(r) PROVE Plain'
  BY <1>16 DEF Answer
<1> QED
  BY <1>1, <1>2, <1>3, <1>4, <1>5, <1>6, <1>7, <1>8, <1>9, <1>10, <1>11, <1>12, <1>13, <1>14,
       <1>15, <1>16, Zenon DEF Next, RetryStep

\* The loop's steps keep the files where Files says they are.
LEMMA FilesKept ==
    ASSUME TypeInv, Next
    PROVE  Files'
<1> USE GatewayConstants DEF TypeInv, Types, Plain, Files, Unqueued, Busy, HasFile, Rewriting,
     LoopSteps, HandlerSteps, files, loop, erp
<1>1. ASSUME NEW b \in Batches, Handle(b) PROVE Files'
  BY <1>1 DEF Handle, Post
<1>2. ASSUME NEW b \in Batches, Forward(b) PROVE Files'
  BY <1>2 DEF Forward
<1>3. ASSUME NEW b \in Batches, Enqueue(b) PROVE Files'
  BY <1>3 DEF Enqueue, Room, Rewriting
<1>4. ASSUME NEW b \in Batches, EnqueueFails(b) PROVE Files'
  BY <1>4 DEF EnqueueFails, Fault
<1>5. ASSUME List \/ ListPartly PROVE Files'
  BY <1>5 DEF List, ListPartly, Fault
<1>6. ASSUME Retry PROVE Files'
  BY <1>6 DEF Retry, Post, Foremost
<1>7. ASSUME Retried PROVE Files'
  BY <1>7 DEF Retried
<1>8. ASSUME Remove PROVE Files'
  BY <1>8 DEF Remove, Removable, Advance
<1>9. ASSUME RecordFailure PROVE Files'
  BY <1>9 DEF RecordFailure, NoteFailure
<1>10. ASSUME MoveToDead PROVE Files'
  BY <1>10 DEF MoveToDead
<1>11. ASSUME Write PROVE Files'
  BY <1>11 DEF Write, Advance, Rewriting
<1>12. ASSUME FileFails PROVE Files'
  BY <1>12 DEF FileFails, Fault, Advance, Rewriting
<1>13. ASSUME Restart PROVE Files'
  BY <1>13 DEF Restart, Fault, Rewriting
<1>14. ASSUME NEW r \in requests, Look(r) PROVE Files'
  BY <1>14 DEF Look
<1>15. ASSUME NEW r \in requests, Insert(r) PROVE Files'
  BY <1>15 DEF Insert
<1>16. ASSUME NEW r \in requests, Answer(r) PROVE Files'
  BY <1>16 DEF Answer
<1> QED
  BY <1>1, <1>2, <1>3, <1>4, <1>5, <1>6, <1>7, <1>8, <1>9, <1>10, <1>11, <1>12, <1>13, <1>14,
       <1>15, <1>16, Zenon DEF Next, RetryStep

\* A batch has no file before its handler has failed to send it.
LEMMA UnqueuedKept ==
    ASSUME TypeInv, Next
    PROVE  Unqueued'
<1> USE GatewayConstants DEF TypeInv, Types, Plain, Files, Unqueued, Busy, HasFile, Rewriting,
     LoopSteps, HandlerSteps, files, loop, erp
<1>1. ASSUME NEW b \in Batches, Handle(b) PROVE Unqueued'
  BY <1>1 DEF Handle, Post
<1>2. ASSUME NEW b \in Batches, Forward(b) PROVE Unqueued'
  BY <1>2 DEF Forward
<1>3. ASSUME NEW b \in Batches, Enqueue(b) PROVE Unqueued'
  BY <1>3 DEF Enqueue, Room, Rewriting
<1>4. ASSUME NEW b \in Batches, EnqueueFails(b) PROVE Unqueued'
  BY <1>4 DEF EnqueueFails, Fault
<1>5. ASSUME List \/ ListPartly PROVE Unqueued'
  BY <1>5 DEF List, ListPartly, Fault
<1>6. ASSUME Retry PROVE Unqueued'
  BY <1>6 DEF Retry, Post, Foremost
<1>7. ASSUME Retried PROVE Unqueued'
  BY <1>7 DEF Retried
<1>8. ASSUME Remove PROVE Unqueued'
  BY <1>8 DEF Remove, Removable, Advance
<1>9. ASSUME RecordFailure PROVE Unqueued'
  BY <1>9 DEF RecordFailure, NoteFailure
<1>10. ASSUME MoveToDead PROVE Unqueued'
  BY <1>10 DEF MoveToDead
<1>11. ASSUME Write PROVE Unqueued'
  BY <1>11 DEF Write, Advance, Rewriting
<1>12. ASSUME FileFails PROVE Unqueued'
  BY <1>12 DEF FileFails, Fault, Advance, Rewriting
<1>13. ASSUME Restart PROVE Unqueued'
  BY <1>13 DEF Restart, Fault, Rewriting
<1>14. ASSUME NEW r \in requests, Look(r) PROVE Unqueued'
  BY <1>14 DEF Look
<1>15. ASSUME NEW r \in requests, Insert(r) PROVE Unqueued'
  BY <1>15 DEF Insert
<1>16. ASSUME NEW r \in requests, Answer(r) PROVE Unqueued'
  BY <1>16 DEF Answer
<1> QED
  BY <1>1, <1>2, <1>3, <1>4, <1>5, <1>6, <1>7, <1>8, <1>9, <1>10, <1>11, <1>12, <1>13, <1>14,
       <1>15, <1>16, Zenon DEF Next, RetryStep

\* The queue keeps to its limit: a file that is being rewritten keeps its place, and
\* only Enqueue, which looks at the whole queue, adds one.
LEMMA LimitKept ==
    ASSUME TypeInv, Limit, Next
    PROVE  Limit'
<1> USE DEF Queue
<1>1. ASSUME Queue' \subseteq Queue
      PROVE  Limit'
  <2>1. IsFiniteSet(Queue') /\ Cardinality(Queue') <= Cardinality(Queue)
    BY <1>1, FS_Subset DEF Limit
  <2>2. Cardinality(Queue) \in Nat /\ Cardinality(Queue') \in Nat
    BY <2>1, FS_CardinalityType DEF Limit
  <2> QED
    BY <2>1, <2>2, GatewayConstants DEF Limit
<1>2. ASSUME NEW b \in Batches, Enqueue(b)
      PROVE  Limit'
  <2>1. /\ Queue = stored /\ Queue' = stored \union {b}
        /\ Cardinality(stored) < MaxQueueItems
    BY <1>2 DEF Enqueue, Room, Rewriting, loop
  <2>2. Cardinality(stored) \in Nat
    BY <2>1, FS_CardinalityType DEF Limit
  <2>3. IsFiniteSet(stored)
    BY <2>1 DEF Limit
  <2>4. /\ IsFiniteSet(stored \union {b})
        /\ \/ Cardinality(stored \union {b}) = Cardinality(stored)
           \/ Cardinality(stored \union {b}) = Cardinality(stored) + 1
    BY <2>3, FS_AddElement, Zenon
  <2>5. Cardinality(stored \union {b}) <= MaxQueueItems
    BY <2>1, <2>2, <2>4, GatewayConstants
  <2> QED
    BY <2>1, <2>4, <2>5, Zenon DEF Limit
<1> USE DEF TypeInv, Files, Busy, HasFile, Rewriting, files, loop
<1>3. ASSUME NEW b \in Batches, Handle(b) PROVE Queue' \subseteq Queue
  BY <1>3 DEF Handle, Post
<1>4. ASSUME NEW b \in Batches, Forward(b) PROVE Queue' \subseteq Queue
  BY <1>4 DEF Forward
<1>5. ASSUME NEW b \in Batches, EnqueueFails(b) PROVE Queue' \subseteq Queue
  BY <1>5 DEF EnqueueFails, Fault
<1>6. ASSUME List \/ ListPartly PROVE Queue' \subseteq Queue
  BY <1>6 DEF List, ListPartly, Fault
<1>7. ASSUME Retry PROVE Queue' \subseteq Queue
  BY <1>7 DEF Retry, Post, Foremost
<1>8. ASSUME Retried PROVE Queue' \subseteq Queue
  BY <1>8 DEF Retried
<1>9. ASSUME Remove PROVE Queue' \subseteq Queue
  BY <1>9 DEF Remove, Removable, Advance
<1>10. ASSUME RecordFailure PROVE Queue' \subseteq Queue
  BY <1>10 DEF RecordFailure, NoteFailure
<1>11. ASSUME MoveToDead PROVE Queue' \subseteq Queue
  BY <1>11 DEF MoveToDead
<1>12. ASSUME Write PROVE Queue' \subseteq Queue
  BY <1>12 DEF Write, Advance, Rewriting
<1>13. ASSUME FileFails PROVE Queue' \subseteq Queue
  BY <1>13 DEF FileFails, Fault, Advance, Rewriting
<1>14. ASSUME Restart PROVE Queue' \subseteq Queue
  BY <1>14 DEF Restart, Fault, Rewriting
<1>15. ASSUME NEW r \in requests, Look(r) PROVE Queue' \subseteq Queue
  BY <1>15 DEF Look
<1>16. ASSUME NEW r \in requests, Insert(r) PROVE Queue' \subseteq Queue
  BY <1>16 DEF Insert
<1>17. ASSUME NEW r \in requests, Answer(r) PROVE Queue' \subseteq Queue
  BY <1>17 DEF Answer
<1> QED
  BY <1>1, <1>2, <1>3, <1>4, <1>5, <1>6, <1>7, <1>8, <1>9, <1>10, <1>11, <1>12, <1>13, <1>14,
       <1>15, <1>16, <1>17, Zenon DEF Next, RetryStep

-----------------------------------------------------------------------------
(* Accepted batches.                                                         *)

\* Nothing that was recorded is forgotten ...
LEMMA RecordedGrows ==
    ASSUME Next
    PROVE  recorded \subseteq recorded'
BY Zenon DEF Next, RetryStep, Handle, Forward, Enqueue, EnqueueFails, List, ListPartly, Retry,
       Retried, Remove, RecordFailure, MoveToDead, Write, FileFails, Restart, Look, Insert, Answer, erp

\* ... so an event that is known stays known ...
LEMMA KnownKept ==
    ASSUME recorded \subseteq recorded', NEW e, Known(e)
    PROVE  Known(e)'
BY DEF Known

\* ... and a batch that is recorded stays recorded.
LEMMA RecordedAllKept ==
    ASSUME recorded \subseteq recorded', NEW b, RecordedAll(b)
    PROVE  RecordedAll(b)'
BY KnownKept, Zenon DEF RecordedAll

\* A request passes an event by finding it or one like it, or by inserting it.
LEMMA PassedKept ==
    ASSUME TypeInv, Passed, Next
    PROVE  Passed'
<1> DEFINE Done(q) == \A i \in 1 .. Len(EventsOf[q.batch]) : i < q.next => Known(EventsOf[q.batch][i])'
<1> SUFFICES ASSUME NEW q \in requests'
             PROVE  Done(q) /\ (q.reply = "ok" => q.next > Len(EventsOf[q.batch]))
  BY Zenon DEF Passed
<1>1. /\ recorded \subseteq recorded'
      /\ \A e : Known(e) => Known(e)'
  BY RecordedGrows, KnownKept
<1>2. ASSUME NEW r \in requests
      PROVE  /\ r \in [batch : Batches, number : Nat, next : Nat \ {0}, missing : BOOLEAN,
                       reply : {None, "ok", "error"}]
             /\ Len(EventsOf[r.batch]) \in Nat
             /\ \A i \in 1 .. Len(EventsOf[r.batch]) : i < r.next => Known(EventsOf[r.batch][i])'
             /\ r.reply = "ok" => r.next > Len(EventsOf[r.batch])
  <2>1. r \in [batch : Batches, number : Nat, next : Nat \ {0}, missing : BOOLEAN,
               reply : {None, "ok", "error"}]
    BY DEF TypeInv, Types, RequestRecords
  <2>2. EventsOf[r.batch] \in Seq(Events)
    BY <2>1, GatewayConstants
  <2>3. Len(EventsOf[r.batch]) \in Nat
    BY <2>2
  <2>4. \A i \in 1 .. Len(EventsOf[r.batch]) : i < r.next => Known(EventsOf[r.batch][i])'
    BY <1>1, Zenon DEF Passed
  <2> QED
    BY <2>1, <2>3, <2>4, Zenon DEF Passed
<1>3. CASE q \in requests
  BY <1>2, <1>3, Zenon
<1>4. ASSUME NEW b \in Batches, q = NewRequest(b)
      PROVE  Done(q) /\ q.reply # "ok"
  <2>1. q.next = 1 /\ q.reply = None
    BY <1>4 DEF NewRequest
  <2> QED
    BY <2>1, GatewayConstants
<1>5. ASSUME NEW r \in requests, Look(r), q = [r EXCEPT !.next = @ + 1],
             Known(EventsOf[r.batch][r.next])
      PROVE  Done(q) /\ q.reply # "ok"
  <2>1. q.next = r.next + 1 /\ q.reply = None /\ q.batch = r.batch
    BY <1>2, <1>5 DEF Look
  <2>2. Known(EventsOf[r.batch][r.next])'
    BY <1>1, <1>5, Zenon
  <2>3. ASSUME NEW i \in 1 .. Len(EventsOf[r.batch]), i < r.next + 1
        PROVE  i < r.next \/ i = r.next
    BY <2>3, <1>2
  <2> QED
    BY <2>1, <2>2, <2>3, <1>2, GatewayConstants, Zenon
<1>6. ASSUME NEW r \in requests, Look(r), q = [r EXCEPT !.missing = TRUE]
      PROVE  Done(q) /\ q.reply # "ok"
  <2>1. q.next = r.next /\ q.reply = None /\ q.batch = r.batch
    BY <1>2, <1>6 DEF Look
  <2> QED
    BY <2>1, <1>2, GatewayConstants, Zenon
<1>7. ASSUME NEW r \in requests, Insert(r), q = [r EXCEPT !.missing = FALSE, !.next = @ + 1]
      PROVE  Done(q) /\ q.reply # "ok"
  <2>1. q.next = r.next + 1 /\ q.reply = None /\ q.batch = r.batch
    BY <1>2, <1>7 DEF Insert
  <2>2. EventsOf[r.batch][r.next] \in recorded' /\ EventsOf[r.batch][r.next] \in Events
    <3>1. EventsOf[r.batch] \in Seq(Events)
      BY <1>2, GatewayConstants
    <3>2. r.next \in 1 .. Len(EventsOf[r.batch])
      BY <1>2, <1>7 DEF Insert, TypeInv, Inserting
    <3> QED
      BY <3>1, <3>2, <1>7 DEF Insert
  <2>3. Known(EventsOf[r.batch][r.next])'
    BY <2>2, GatewayConstants DEF Known
  <2>4. ASSUME NEW i \in 1 .. Len(EventsOf[r.batch]), i < r.next + 1
        PROVE  i < r.next \/ i = r.next
    BY <2>4, <1>2
  <2> QED
    BY <2>1, <2>3, <2>4, <1>2, GatewayConstants, Zenon
<1>8. ASSUME NEW r \in requests, r.next > Len(EventsOf[r.batch]), q = [r EXCEPT !.reply = "ok"]
      PROVE  Done(q) /\ q.next > Len(EventsOf[q.batch])
  <2>1. q.next = r.next /\ q.batch = r.batch
    BY <1>2, <1>8
  <2> QED
    BY <2>1, <1>2, <1>8, Zenon
<1>9. ASSUME NEW r \in requests, q = [r EXCEPT !.reply = "error"]
      PROVE  Done(q) /\ q.reply # "ok"
  <2>1. q.next = r.next /\ q.batch = r.batch /\ q.reply = "error"
    BY <1>2, <1>9
  <2> QED
    BY <2>1, <1>2
<1> HIDE DEF Done
<1> QED
  BY <1>3, <1>4, <1>5, <1>6, <1>7, <1>8, <1>9, RequestsStep, Zenon DEF TypeInv

\* A sending that ended well was of a batch that is recorded.
LEMMA OkRecorded ==
    ASSUME TypeInv, Passed, NEW b \in Batches, Ends(b, "ok")
    PROVE  RecordedAll(b)
<1>1. PICK r \in Awaited(b) : r.reply = "ok"
  BY DEF Ends
<1>2. r \in requests /\ r.batch = b
  BY DEF Awaited
<1>3. /\ \A i \in 1 .. Len(EventsOf[b]) : i < r.next => Known(EventsOf[b][i])
      /\ r.next > Len(EventsOf[b]) /\ r.next \in Nat
  BY <1>1, <1>2 DEF Passed, TypeInv, Types, RequestRecords
<1>4. ASSUME NEW i \in 1 .. Len(EventsOf[b])
      PROVE  i < r.next
  <2>1. Len(EventsOf[b]) \in Nat
    BY GatewayConstants
  <2> QED
    BY <1>3, <2>1
<1> QED
  BY <1>3, <1>4, Zenon DEF RecordedAll

\* The file of a batch is removed after an answer "ok" only.
LEMMA SentKept ==
    ASSUME TypeInv, Passed, SentRecorded, Next
    PROVE  SentRecorded'
<1> SUFFICES ASSUME NEW b \in Batches, step' = "sent", item' = b
             PROVE  RecordedAll(b)
  BY RecordedGrows, RecordedAllKept, Zenon DEF SentRecorded
<1> USE DEF TypeInv, SentRecorded, files, loop, erp
<1>1. ASSUME NEW c \in Batches, Handle(c) PROVE RecordedAll(b)
  BY <1>1 DEF Handle, Post
<1>2. ASSUME NEW c \in Batches, Forward(c) PROVE RecordedAll(b)
  BY <1>2 DEF Forward
<1>3. ASSUME NEW c \in Batches, Enqueue(c) PROVE RecordedAll(b)
  BY <1>3 DEF Enqueue, Room, Rewriting
<1>4. ASSUME NEW c \in Batches, EnqueueFails(c) PROVE RecordedAll(b)
  BY <1>4 DEF EnqueueFails, Fault
<1>5. ASSUME List \/ ListPartly PROVE RecordedAll(b)
  BY <1>5 DEF List, ListPartly, Fault
<1>6. ASSUME Retry PROVE RecordedAll(b)
  BY <1>6 DEF Retry, Post, Foremost
<1>7. ASSUME Retried PROVE RecordedAll(b)
  <2>1. Ends(b, "ok")
    BY <1>7 DEF Retried
  <2> QED
    BY <2>1, OkRecorded, Zenon
<1>8. ASSUME Remove PROVE RecordedAll(b)
  BY <1>8 DEF Remove, Advance
<1>9. ASSUME RecordFailure PROVE RecordedAll(b)
  BY <1>9 DEF RecordFailure, NoteFailure
<1>10. ASSUME MoveToDead PROVE RecordedAll(b)
  BY <1>10 DEF MoveToDead
<1>11. ASSUME Write PROVE RecordedAll(b)
  BY <1>11 DEF Write, Advance, Rewriting
<1>12. ASSUME FileFails PROVE RecordedAll(b)
  BY <1>12 DEF FileFails, Fault, Advance, Rewriting
<1>13. ASSUME Restart PROVE RecordedAll(b)
  BY <1>13 DEF Restart, Fault, Rewriting
<1>14. ASSUME NEW r \in requests, Look(r) PROVE RecordedAll(b)
  BY <1>14 DEF Look
<1>15. ASSUME NEW r \in requests, Insert(r) PROVE RecordedAll(b)
  BY <1>15 DEF Insert
<1>16. ASSUME NEW r \in requests, Answer(r) PROVE RecordedAll(b)
  BY <1>16 DEF Answer
<1> QED
  BY <1>1, <1>2, <1>3, <1>4, <1>5, <1>6, <1>7, <1>8, <1>9, <1>10, <1>11, <1>12, <1>13, <1>14,
       <1>15, <1>16, Zenon DEF Next, RetryStep

\* Where an accepted batch may be.
Accounted(b) ==
    \/ RecordedAll(b)
    \/ b \in stored \union dead \union cut
    \/ Rewriting /\ item = b

\* No step leaves an accepted batch unaccounted for.
LEMMA AcceptedKept ==
    ASSUME TypeInv, Passed, SentRecorded, AcceptedAccounted, Next
    PROVE  AcceptedAccounted'
<1> SUFFICES ASSUME NEW b \in Batches, handler'[b] = "accepted"
             PROVE  Accounted(b)'
  BY Zenon DEF AcceptedAccounted, Accounted
<1>1. handler[b] = "accepted" => Accounted(b)
  BY Zenon DEF AcceptedAccounted, Accounted
<1>2. RecordedAll(b) => RecordedAll(b)'
  BY RecordedGrows, RecordedAllKept, Zenon
<1> USE DEF Accounted, Rewriting, files, loop, erp
<1>3. ASSUME NEW c \in Batches, Handle(c) PROVE Accounted(b)'
  <2>1. handler[b] = "accepted" /\ UNCHANGED <<stored, dead, cut, step, item>>
    BY <1>3 DEF Handle, TypeInv, Types, Plain
  <2> QED
    BY <2>1, <1>1, <1>2
<1>4. ASSUME NEW c \in Batches, Forward(c) PROVE Accounted(b)'
  <2>1. CASE c # b
    <3>1. handler[b] = "accepted" /\ Accounted(b)
      BY <1>4, <2>1 DEF Forward, TypeInv, Types, Plain, AcceptedAccounted
    <3> QED
      BY <1>4, <3>1, <1>2 DEF Forward
  <2>2. CASE c = b /\ Ends(b, "ok")
    BY <2>2, OkRecorded, <1>2, Zenon
  <2>3. CASE c = b /\ handler' = [handler EXCEPT ![b] = "failed"]
    BY <2>3 DEF TypeInv, Types, Plain
  <2> QED
    BY <1>4, <2>1, <2>2, <2>3, Zenon DEF Forward
<1>5. ASSUME NEW c \in Batches, Enqueue(c) PROVE Accounted(b)'
  <2>1. CASE c # b
    <3>1. handler[b] = "accepted"
      BY <1>5, <2>1 DEF Enqueue, TypeInv, Types, Plain
    <3> QED
      BY <1>5, <3>1, <1>1, <1>2 DEF Enqueue
  <2>2. CASE c = b
    BY <1>5, <2>2 DEF Enqueue
  <2> QED
    BY <2>1, <2>2
<1>6. ASSUME NEW c \in Batches, EnqueueFails(c) PROVE Accounted(b)'
  <2>1. handler[b] = "accepted" /\ UNCHANGED <<stored, dead, cut, step, item>>
    BY <1>6 DEF EnqueueFails, TypeInv, Types, Plain
  <2> QED
    BY <2>1, <1>1, <1>2
<1>7. ASSUME List \/ ListPartly PROVE Accounted(b)'
  BY <1>7, <1>1, <1>2 DEF List, ListPartly, Fault
<1>8. ASSUME Retry PROVE Accounted(b)'
  BY <1>8, <1>1, <1>2 DEF Retry, Post, Foremost
<1>9. ASSUME Retried PROVE Accounted(b)'
  BY <1>9, <1>1, <1>2 DEF Retried
<1>10. ASSUME Remove PROVE Accounted(b)'
  <2>1. handler[b] = "accepted" /\ (step = "sent" /\ item = b => RecordedAll(b))
    BY <1>10 DEF Remove, SentRecorded
  <2> QED
    BY <1>10, <2>1, <1>1, <1>2 DEF Remove, Removable
<1>11. ASSUME RecordFailure PROVE Accounted(b)'
  BY <1>11, <1>1, <1>2 DEF RecordFailure, NoteFailure
<1>12. ASSUME MoveToDead PROVE Accounted(b)'
  BY <1>12, <1>1, <1>2 DEF MoveToDead
<1>13. ASSUME Write PROVE Accounted(b)'
  BY <1>13, <1>1, <1>2 DEF Write, Advance, Rewriting
<1>14. ASSUME FileFails PROVE Accounted(b)'
  BY <1>14, <1>1, <1>2 DEF FileFails, Fault, Advance, Rewriting
<1>15. ASSUME Restart PROVE Accounted(b)'
  <2>1. handler[b] = "accepted"
    BY <1>15 DEF Restart, TypeInv, Types, Plain
  <2> QED
    BY <1>15, <2>1, <1>1, <1>2 DEF Restart
<1>16. ASSUME NEW r \in requests, Look(r) PROVE Accounted(b)'
  BY <1>16, <1>1, <1>2 DEF Look
<1>17. ASSUME NEW r \in requests, Insert(r) PROVE Accounted(b)'
  BY <1>17, <1>1, <1>2 DEF Insert
<1>18. ASSUME NEW r \in requests, Answer(r) PROVE Accounted(b)'
  BY <1>18, <1>1, <1>2 DEF Answer
<1> QED
  BY <1>3, <1>4, <1>5, <1>6, <1>7, <1>8, <1>9, <1>10, <1>11, <1>12, <1>13, <1>14, <1>15, <1>16,
       <1>17, <1>18, Zenon DEF Next, RetryStep

-----------------------------------------------------------------------------
(* Retries.                                                                  *)

CountedFor(b) ==
    /\ handler[b] = "new" => sends[b] = 0
    /\ handler[b] \in {"sending", "failed"} => sends[b] <= 1
    /\ b \in Queue => sends[b] <= 1 + attempts[b] + faults + Unnoted(b)

\* Each sending of a queued batch is noted in its file, unless a fault comes between.
LEMMA CountedKept ==
    ASSUME TypeInv, Counted, SendsBounded, Next
    PROVE  Counted' /\ SendsBounded'
<1> SUFFICES ASSUME NEW b \in Batches
             PROVE  CountedFor(b)' /\ sends'[b] <= 1 + MaxRetryAttempts + faults'
  BY Zenon DEF Counted, CountedFor, SendsBounded
<1>1. /\ CountedFor(b) /\ sends[b] <= 1 + MaxRetryAttempts + faults
      /\ sends[b] \in Nat /\ attempts[b] \in 0 .. MaxRetryAttempts /\ faults \in Nat
      /\ MaxRetryAttempts \in Nat
      /\ sends \in [Batches -> Nat] /\ attempts \in [Batches -> 0 .. MaxRetryAttempts]
      /\ handler \in [Batches -> HandlerSteps]
      /\ b \in Queue => attempts[b] < MaxRetryAttempts
      /\ HasFile => item \in stored
      /\ handler[b] \in {"new", "sending", "failed"} => b \notin stored /\ ~(Busy /\ item = b)
                                                       /\ attempts[b] = 0
      /\ todo \subseteq stored
  <2>1. CountedFor(b) /\ sends[b] <= 1 + MaxRetryAttempts + faults
    BY Zenon DEF Counted, CountedFor, SendsBounded
  <2> QED
    BY <2>1, GatewayConstants DEF TypeInv, Types, Plain, Files, Unqueued, Queue
<1> USE DEF CountedFor, Queue, Unnoted, Busy, HasFile, Rewriting, HandlerSteps, files, loop, erp
<1>2. ASSUME NEW c \in Batches, Handle(c) PROVE CountedFor(b)' /\ sends'[b] <= 1 + MaxRetryAttempts + faults'
  BY <1>2, <1>1 DEF Handle, Post
<1>3. ASSUME NEW c \in Batches, Forward(c) PROVE CountedFor(b)' /\ sends'[b] <= 1 + MaxRetryAttempts + faults'
  BY <1>3, <1>1 DEF Forward
<1>4. ASSUME NEW c \in Batches, Enqueue(c) PROVE CountedFor(b)' /\ sends'[b] <= 1 + MaxRetryAttempts + faults'
  BY <1>4, <1>1 DEF Enqueue, Room, Rewriting
<1>5. ASSUME NEW c \in Batches, EnqueueFails(c) PROVE CountedFor(b)' /\ sends'[b] <= 1 + MaxRetryAttempts + faults'
  BY <1>5, <1>1 DEF EnqueueFails, Fault
<1>6. ASSUME List \/ ListPartly PROVE CountedFor(b)' /\ sends'[b] <= 1 + MaxRetryAttempts + faults'
  BY <1>6, <1>1 DEF List, ListPartly, Fault
<1>7. ASSUME Retry PROVE CountedFor(b)' /\ sends'[b] <= 1 + MaxRetryAttempts + faults'
  BY <1>7, <1>1 DEF Retry, Post, Foremost
<1>8. ASSUME Retried PROVE CountedFor(b)' /\ sends'[b] <= 1 + MaxRetryAttempts + faults'
  BY <1>8, <1>1 DEF Retried
<1>9. ASSUME Remove PROVE CountedFor(b)' /\ sends'[b] <= 1 + MaxRetryAttempts + faults'
  BY <1>9, <1>1 DEF Remove, Removable, Advance
<1>10. ASSUME RecordFailure PROVE CountedFor(b)' /\ sends'[b] <= 1 + MaxRetryAttempts + faults'
  BY <1>10, <1>1 DEF RecordFailure, NoteFailure
<1>11. ASSUME MoveToDead PROVE CountedFor(b)' /\ sends'[b] <= 1 + MaxRetryAttempts + faults'
  BY <1>11, <1>1 DEF MoveToDead
<1>12. ASSUME Write PROVE CountedFor(b)' /\ sends'[b] <= 1 + MaxRetryAttempts + faults'
  BY <1>12, <1>1 DEF Write, Advance, Rewriting
<1>13. ASSUME FileFails PROVE CountedFor(b)' /\ sends'[b] <= 1 + MaxRetryAttempts + faults'
  BY <1>13, <1>1 DEF FileFails, Fault, Advance, Rewriting
<1>14. ASSUME Restart PROVE CountedFor(b)' /\ sends'[b] <= 1 + MaxRetryAttempts + faults'
  BY <1>14, <1>1 DEF Restart, Fault, Rewriting
<1>15. ASSUME NEW r \in requests, Look(r) PROVE CountedFor(b)' /\ sends'[b] <= 1 + MaxRetryAttempts + faults'
  BY <1>15, <1>1 DEF Look
<1>16. ASSUME NEW r \in requests, Insert(r) PROVE CountedFor(b)' /\ sends'[b] <= 1 + MaxRetryAttempts + faults'
  BY <1>16, <1>1 DEF Insert
<1>17. ASSUME NEW r \in requests, Answer(r) PROVE CountedFor(b)' /\ sends'[b] <= 1 + MaxRetryAttempts + faults'
  BY <1>17, <1>1 DEF Answer
<1> QED
  BY <1>2, <1>3, <1>4, <1>5, <1>6, <1>7, <1>8, <1>9, <1>10, <1>11, <1>12, <1>13, <1>14, <1>15,
       <1>16, <1>17, Zenon DEF Next, RetryStep

-----------------------------------------------------------------------------
(* Turns.                                                                    *)

\* What Turns says of two batches.
TurnOf(c, b) ==
    /\ Fresh(c) => overtaken[c][b] = 0
    /\ c \in stored => overtaken[c][b] <= Turn(c, b) + faults

\* Only Retry counts, and it takes b out of todo; a fault may cut a pass short.
LEMMA TurnsKept ==
    ASSUME TypeInv, Turns, Next
    PROVE  Turns'
<1>1. /\ overtaken \in [Batches -> [Batches -> Nat]]
      /\ step = "wait" => todo = {}
      /\ \A c, b \in Batches : TurnOf(c, b)
  BY Zenon DEF Turns, TurnOf
<1>2. SUFFICES /\ overtaken' \in [Batches -> [Batches -> Nat]]
               /\ step' = "wait" => todo' = {}
               /\ \A c, b \in Batches : TurnOf(c, b)'
  BY <1>2, Zenon DEF Turns, TurnOf
<1>3. /\ todo \subseteq stored /\ faults \in Nat
      /\ handler \in [Batches -> HandlerSteps]
      /\ Busy => item \in Batches /\ item \notin todo
      /\ HasFile => item \in stored
      /\ Rewriting => item \notin stored
      /\ \A b \in Batches : handler[b] \in {"new", "sending", "failed"} =>
             b \notin stored /\ ~(Busy /\ item = b)
  BY GatewayConstants DEF TypeInv, Types, Plain, Files, Unqueued
<1>4. overtaken' \in [Batches -> [Batches -> Nat]]
  <2>1. CASE Retry
    <3>1. PICK b \in Batches : Overtake(b)
      BY <2>1, Zenon DEF Retry
    <3>2. ASSUME NEW c \in Batches
          PROVE  overtaken[c] \in [Batches -> Nat]
      BY <1>1
    <3>3. ASSUME NEW c \in Batches
          PROVE  [overtaken[c] EXCEPT ![b] = @ + 1] \in [Batches -> Nat]
      BY <3>2
    <3>4. [d \in Batches |-> 0] \in [Batches -> Nat]
      OBVIOUS
    <3> QED
      BY <3>1, <3>2, <3>3, <3>4 DEF Overtake
  <2>2. CASE ~Retry
    BY <2>2, <1>1, Zenon DEF Next, RetryStep, Handle, Forward, Enqueue, EnqueueFails, List,
         ListPartly, Retried, Remove, RecordFailure, MoveToDead, Write, FileFails, Restart, Look,
         Insert, Answer
  <2> QED
    BY <2>1, <2>2
<1>5. step' = "wait" => todo' = {}
  BY <1>1, <1>3 DEF Next, RetryStep, Handle, Forward, Enqueue, EnqueueFails, List,
       ListPartly, Retry, Retried, Remove, RecordFailure, MoveToDead, Write, FileFails, Restart,
       Look, Insert, Answer, Advance, loop
<1>6. ASSUME NEW c \in Batches, NEW b \in Batches
      PROVE  TurnOf(c, b)'
  <2>1. TurnOf(c, b) /\ overtaken[c][b] \in Nat
    BY <1>1
  <2> USE DEF TurnOf, Turn, Fresh, Busy, HasFile, Rewriting, HandlerSteps, files, loop, erp
  <2>2. ASSUME NEW d \in Batches, Handle(d) PROVE TurnOf(c, b)'
    BY <2>1, <2>2, <1>3 DEF Handle
  <2>3. ASSUME NEW d \in Batches, Forward(d) PROVE TurnOf(c, b)'
    BY <2>1, <2>3, <1>3 DEF Forward
  <2>4. ASSUME NEW d \in Batches, Enqueue(d) PROVE TurnOf(c, b)'
    BY <2>1, <2>4, <1>3 DEF Enqueue, Room
  <2>5. ASSUME NEW d \in Batches, EnqueueFails(d) PROVE TurnOf(c, b)'
    BY <2>1, <2>5, <1>3 DEF EnqueueFails, Fault
  <2>6. ASSUME List \/ ListPartly PROVE TurnOf(c, b)'
    BY <2>1, <2>6, <1>1, <1>3 DEF List, ListPartly, Fault
  <2>7. ASSUME Retry PROVE TurnOf(c, b)'
    <3>1. PICK d \in Batches : /\ d \in todo /\ item' = d /\ todo' = todo \ {d}
                               /\ Overtake(d)
      BY <2>7, Zenon DEF Retry, Foremost
    <3>2. step = "next" /\ step' \in {"sending", "unknown"} /\ UNCHANGED <<handler, stored, faults>>
      BY <2>7 DEF Retry
    <3>3. CASE c = d
      <4>1. overtaken'[c][b] = 0
        BY <3>1, <3>3 DEF Overtake
      <4> QED
        BY <4>1, <3>2, <1>3
    <3>4. CASE c # d /\ c \in stored
      <4>1. overtaken'[c] = [overtaken[c] EXCEPT ![d] = @ + 1] /\ overtaken[c] \in [Batches -> Nat]
        BY <3>1, <3>4, <1>1 DEF Overtake
      <4>2. overtaken'[c][b] = IF b = d THEN overtaken[c][b] + 1 ELSE overtaken[c][b]
        BY <4>1
      <4> QED
        BY <4>2, <3>1, <3>2, <3>4, <2>1, <1>3
    <3>5. CASE c # d /\ c \notin stored
      <4>1. overtaken'[c][b] = overtaken[c][b]
        BY <3>1, <3>5 DEF Overtake
      <4> QED
        BY <4>1, <3>1, <3>2, <3>5, <2>1, <1>3
    <3> QED
      BY <3>3, <3>4, <3>5
  <2>8. ASSUME Retried PROVE TurnOf(c, b)'
    BY <2>1, <2>8, <1>3 DEF Retried
  <2>9. ASSUME Remove PROVE TurnOf(c, b)'
    BY <2>1, <2>9, <1>3 DEF Remove, Removable, Advance
  <2>10. ASSUME RecordFailure PROVE TurnOf(c, b)'
    BY <2>1, <2>10, <1>3 DEF RecordFailure
  <2>11. ASSUME MoveToDead PROVE TurnOf(c, b)'
    BY <2>1, <2>11, <1>3 DEF MoveToDead
  <2>12. ASSUME Write PROVE TurnOf(c, b)'
    BY <2>1, <2>12, <1>3 DEF Write, Advance
  <2>13. ASSUME FileFails PROVE TurnOf(c, b)'
    BY <2>1, <2>13, <1>3 DEF FileFails, Fault, Advance
  <2>14. ASSUME Restart PROVE TurnOf(c, b)'
    BY <2>1, <2>14, <1>3 DEF Restart, Fault
  <2>15. ASSUME NEW r \in requests, Look(r) PROVE TurnOf(c, b)'
    BY <2>1, <2>15, <1>3 DEF Look
  <2>16. ASSUME NEW r \in requests, Insert(r) PROVE TurnOf(c, b)'
    BY <2>1, <2>16, <1>3 DEF Insert
  <2>17. ASSUME NEW r \in requests, Answer(r) PROVE TurnOf(c, b)'
    BY <2>1, <2>17, <1>3 DEF Answer
  <2> QED
    BY <2>2, <2>3, <2>4, <2>5, <2>6, <2>7, <2>8, <2>9, <2>10, <2>11, <2>12, <2>13, <2>14, <2>15,
         <2>16, <2>17, Zenon DEF Next, RetryStep
<1> QED
  BY <1>4, <1>5, <1>6

-----------------------------------------------------------------------------
(* The theorems.                                                             *)

IInv ==
    /\ TypeInv /\ Limit /\ Passed /\ SentRecorded /\ AcceptedAccounted
    /\ Counted /\ SendsBounded /\ Turns

\* The inductive invariant holds at the start ...
LEMMA InitInv == Init => IInv
<1> SUFFICES ASSUME Init PROVE IInv
  OBVIOUS
<1>1. TypeInv
  <2>1. <<>> \in Seq(Batches) /\ {} \subseteq RequestRecords
    OBVIOUS
  <2>2. Plain
    BY <2>1, GatewayConstants DEF Init, Plain, HandlerSteps, LoopSteps
  <2>3. Types /\ Inserting
    BY <2>1, <2>2 DEF Init, Types, Inserting
  <2>4. Files /\ Unqueued
    BY GatewayConstants DEF Init, Files, Unqueued, Busy, HasFile, Rewriting
  <2> QED
    BY <2>3, <2>4 DEF TypeInv
<1>2. Limit
  <2>1. Queue = {}
    BY DEF Init, Queue
  <2> QED
    BY <2>1, FS_EmptySet, GatewayConstants DEF Limit
<1>3. Passed /\ SentRecorded /\ AcceptedAccounted
  BY DEF Init, Passed, SentRecorded, AcceptedAccounted
<1>4. Counted /\ SendsBounded
  BY GatewayConstants DEF Init, Counted, SendsBounded, Queue
<1>5. Turns
  BY GatewayConstants DEF Init, Turns, Fresh, Busy
<1> QED
  BY <1>1, <1>2, <1>3, <1>4, <1>5 DEF IInv

\* ... and is kept by every step.
LEMMA NextInv == IInv /\ [Next]_vars => IInv'
<1> SUFFICES ASSUME IInv, [Next]_vars PROVE IInv'
  OBVIOUS
<1>1. CASE Next
  <2>1. /\ TypeInv /\ Limit /\ Passed /\ SentRecorded /\ AcceptedAccounted
        /\ Counted /\ SendsBounded /\ Turns
    BY Zenon DEF IInv
  <2>2. recorded' \subseteq Events
    <3>1. CASE \E r \in requests : Insert(r)
      BY <2>1, <3>1, InsertTyped, Zenon DEF TypeInv
    <3>2. CASE ~\E r \in requests : Insert(r)
      <4>1. recorded' = recorded
        BY <1>1, <3>2, Zenon DEF Next, RetryStep, Handle, Forward, Enqueue, EnqueueFails, List,
             ListPartly, Retry, Retried, Remove, RecordFailure, MoveToDead, Write, FileFails,
             Restart, Look, Answer, erp
      <4> QED
        BY <2>1, <4>1, Zenon DEF TypeInv, Types
    <3> QED
      BY <3>1, <3>2
  <2>3. TypeInv'
    BY <1>1, <2>1, <2>2, PlainKept, RequestsTyped, FilesKept, UnqueuedKept, Zenon DEF TypeInv,
         Types
  <2> QED
    BY <1>1, <2>1, <2>3, LimitKept, PassedKept, SentKept, AcceptedKept, CountedKept,
         TurnsKept, Zenon DEF IInv
<1>2. CASE UNCHANGED vars
  <2>1. UNCHANGED <<enabled, handler, stored, created, attempts, dead, todo, item, step, requests,
                    recorded, sends, overtaken, cut, faults>>
    BY <1>2 DEF vars, files, loop, erp
  <2>2. TypeInv'
    BY <2>1, Zenon DEF IInv, TypeInv, Types, Plain, Inserting, Files, Unqueued, Busy, HasFile,
         Rewriting
  <2>3. Limit' /\ Passed' /\ SentRecorded'
    BY <2>1, Zenon DEF IInv, Limit, Queue, Passed, Known, SentRecorded, RecordedAll
  <2>4. AcceptedAccounted'
    BY <2>1, Zenon DEF IInv, AcceptedAccounted, RecordedAll, Known, Rewriting
  <2>5. Counted' /\ SendsBounded'
    BY <2>1, Zenon DEF IInv, Counted, Queue, Unnoted, SendsBounded
  <2>6. Turns'
    BY <2>1, Zenon DEF IInv, Turns, Fresh, Turn, Busy
  <2> QED
    BY <2>2, <2>3, <2>4, <2>5, <2>6, Zenon DEF IInv
<1> QED
  BY <1>1, <1>2

\* The inductive invariant: where files and batches are, what requests have passed, and
\* how sendings are counted.
THEOREM Inductive == Spec => []IInv
BY InitInv, NextInv, PTL DEF Spec

\* Types; and the queue is never longer than MaxQueueItems, a file that is being
\* rewritten included.
THEOREM TypesCorrect == Spec => []TypeOK
<1>1. IInv => TypeOK
  BY Zenon DEF IInv, TypeInv, Types, Plain, Limit, Queue, Turns, TypeOK
<1> QED
  BY <1>1, Inductive, PTL

\* An accepted batch is recorded, or has a file, or lost it to a stop or a disk error
\* between two file operations: for any batches, windows, answers and faults.
THEOREM AcceptedAreAccounted == Spec => []AcceptedAccounted
<1>1. IInv => AcceptedAccounted
  BY Zenon DEF IInv
<1> QED
  BY <1>1, Inductive, PTL

\* A batch is sent at most once more than the limit of retries, plus once for each fault.
THEOREM SendsAreBounded == Spec => []SendsBounded
<1>1. IInv => SendsBounded
  BY Zenon DEF IInv
<1> QED
  BY <1>1, Inductive, PTL

\* A batch in the queue is overtaken by any other at most twice, plus once for each fault:
\* with any number of batches and limit of retries, however many of them fail.
THEOREM BatchesTakenInTurn == Spec => []TakenInTurn
<1>1. IInv => TakenInTurn
  <2>1. ASSUME IInv, NEW b \in Batches, NEW c \in stored
        PROVE  overtaken[c][b] <= 2 + faults
    <3>1. c \in Batches /\ faults \in Nat
      BY <2>1, GatewayConstants DEF IInv, TypeInv, Types, Plain
    <3>2. overtaken[c][b] \in Nat /\ overtaken[c][b] <= Turn(c, b) + faults
      BY <2>1, <3>1 DEF IInv, Turns
    <3> QED
      BY <3>1, <3>2 DEF Turn
  <2> QED
    BY <2>1, Zenon DEF TakenInTurn
<1> QED
  BY <1>1, Inductive, PTL

=============================================================================
