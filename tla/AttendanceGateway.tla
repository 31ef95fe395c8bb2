--------------------------- MODULE AttendanceGateway ---------------------------
(***************************************************************************)
(* The attendance gateway and the ingestion it feeds: batches of punches that *)
(* a device bridge hands over are sent to the ERP, or kept as files and sent    *)
(* again by one retry loop until the ERP accepts them or they are put aside.    *)
(* The ERP takes the events of a batch one by one, without a transaction.      *)
(*                                                                         *)
(* An action of the gateway is one file operation, or an answer.  The mutex of *)
(* the store is held from a file's removal until it is written again.  All     *)
(* batches are of one device.  Punches of one person, direction and type that   *)
(* the device's deduplication window cannot tell apart are related by Near.     *)
(***************************************************************************)
EXTENDS Naturals, Sequences, FiniteSets

CONSTANTS
    Batches, Events,
    EventsOf,            \* the events of a batch, in order
    Near,                \* pairs of events within the window, an event with itself too
    MaxQueueItems, MaxRetryAttempts,
    MaxFaults,           \* bound: restarts and failing file operations
    MaxStrays,           \* bound: requests the ERP goes on with though nobody waits
    None

ASSUME GatewayConstants ==
    /\ None \notin Batches \union {"ok", "error"}
    /\ EventsOf \in [Batches -> Seq(Events)]
    /\ Near \subseteq Events \X Events
    /\ \A e \in Events : <<e, e>> \in Near
    /\ MaxQueueItems \in Nat \ {0} /\ MaxRetryAttempts \in Nat \ {0}
    /\ MaxFaults \in Nat /\ MaxStrays \in Nat

VARIABLES
    enabled,    \* the device is configured and enabled
    handler,    \* how far the handler of each batch is
    stored,     \* batches with a file in the queue directory
    created,    \* batches in the order of their CreatedAt
    attempts,   \* failed retries noted in the file of a batch
    dead,       \* batches in the dead-letter directory
    todo,       \* what the retry loop has listed and not yet come to
    item,       \* what it works on
    step,       \* and how far it is
    requests,   \* requests the ERP has and has not finished, or whose answer is awaited
    recorded,   \* rows of attendance_events
    sends,      \* history: how often each batch was sent
    overtaken,  \* history: how often the loop came to another batch since a batch was
                \* stored, or since the loop came to it
    cut,        \* history: batches whose file was removed and never written again
    faults      \* how many faults there were

files == <<stored, created, attempts, dead>>
loop == <<todo, item, step>>
erp == <<requests, recorded>>
vars == <<enabled, handler, files, loop, erp, sends, overtaken, cut, faults>>

Fault == faults < MaxFaults /\ faults' = faults + 1

HandlerSteps == {"new", "sending", "failed", "accepted", "refused", "killed"}
LoopSteps == {"wait", "next", "sending", "sent", "failed", "unknown", "rewrite", "bury"}

\* The store's mutex is held by the retry loop, between two file operations.
Rewriting == step \in {"rewrite", "bury"}

Waiting(b) == handler[b] = "sending" \/ (step = "sending" /\ item = b)

\* Requests carry the number of the sending; that of the last one may be awaited.
NewRequest(b) == [batch |-> b, number |-> sends[b] + 1, next |-> 1, missing |-> FALSE,
                  reply |-> None]
Awaited(b) == {r \in requests : Waiting(b) /\ r.batch = b /\ r.number = sends[b]}
Strays == {r \in requests : r \notin Awaited(r.batch)}

Init ==
    /\ enabled = TRUE
    /\ handler = [b \in Batches |-> "new"]
    /\ stored = {} /\ created = <<>> /\ dead = {}
    /\ attempts = [b \in Batches |-> 0]
    /\ todo = {} /\ item = None /\ step = "wait"
    /\ requests = {} /\ recorded = {}
    /\ sends = [b \in Batches |-> 0]
    /\ overtaken = [c \in Batches |-> [b \in Batches |-> 0]]
    /\ cut = {} /\ faults = 0

-----------------------------------------------------------------------------
(* The ERP: IngestAttendanceEvents.                                          *)

\* A row with the same fingerprint, or one within the window.
Known(e) == \E f \in recorded : <<e, f>> \in Near

\* persistAttendanceEvent looks for the event ...
Look(r) ==
    /\ r.reply = None /\ ~r.missing /\ r.next <= Len(EventsOf[r.batch])
    /\ LET found == Known(EventsOf[r.batch][r.next])
           looked == IF found THEN [r EXCEPT !.next = @ + 1] ELSE [r EXCEPT !.missing = TRUE]
       IN requests' = (requests \ {r}) \union {looked}
    /\ UNCHANGED <<enabled, handler, files, loop, recorded, sends, cut, faults, overtaken>>

\* ... and then inserts it.  The unique index turns a second insertion of one
\* fingerprint into a duplicate, which is no error.
Insert(r) ==
    /\ r.reply = None /\ r.missing
    /\ recorded' = recorded \union {EventsOf[r.batch][r.next]}
    /\ requests' = (requests \ {r}) \union {[r EXCEPT !.missing = FALSE, !.next = @ + 1]}
    /\ UNCHANGED <<enabled, handler, files, loop, sends, cut, faults, overtaken>>

\* Success once every event is there, an error at any time before and after.
AnswersOf(r) == IF r.next > Len(EventsOf[r.batch]) THEN {"ok", "error"} ELSE {"error"}

Answer(r) ==
    /\ r.reply = None
    /\ \E reply \in AnswersOf(r) :
        requests' = (requests \ {r}) \union
                    (IF r \in Awaited(r.batch) THEN {[r EXCEPT !.reply = reply]} ELSE {})
    /\ UNCHANGED <<enabled, handler, files, loop, recorded, sends, cut, faults, overtaken>>

-----------------------------------------------------------------------------
(* HandleEvents.                                                             *)

\* erp.Client.post.
Post(b) ==
    /\ sends' = [sends EXCEPT ![b] = @ + 1]
    /\ requests' = requests \union {NewRequest(b)}

\* The ERP goes on with a request that nobody waits for any more, or drops it.
Abandon(r) ==
    \/ requests' = requests \ {r}
    \/ r.reply = None /\ Cardinality(Strays) < MaxStrays /\ UNCHANGED requests

\* How it ends: with an answer; or the ERP is not reached, or the client's timeout or
\* the end of its context comes first.
Ends(b, outcome) ==
    \E r \in Awaited(b) :
        \/ r.reply = outcome /\ requests' = requests \ {r}
        \/ outcome = "error" /\ Abandon(r)

Handle(b) ==
    /\ handler[b] = "new"
    /\ \/ /\ ~enabled
          /\ handler' = [handler EXCEPT ![b] = "refused"]
          /\ UNCHANGED <<requests, sends>>
       \/ /\ enabled
          /\ handler' = [handler EXCEPT ![b] = "sending"]
          /\ Post(b)
    /\ UNCHANGED <<enabled, files, loop, recorded, cut, faults, overtaken>>

Forward(b) ==
    /\ handler[b] = "sending"
    /\ \/ Ends(b, "ok") /\ handler' = [handler EXCEPT ![b] = "accepted"]
       \/ Ends(b, "error") /\ handler' = [handler EXCEPT ![b] = "failed"]
    /\ UNCHANGED <<enabled, files, loop, recorded, sends, cut, faults, overtaken>>

\* Mutant: the store is not locked while the retry loop rewrites a file.
RoomUnlocked == Cardinality(stored) < MaxQueueItems
\* Enqueue has the store for itself, and the queue is not full.
Room == ~Rewriting /\ Cardinality(stored) < MaxQueueItems

\* Enqueue: a file appears whole (it is renamed into place) or not at all.
Enqueue(b) ==
    /\ handler[b] = "failed" /\ Room
    /\ handler' = [handler EXCEPT ![b] = "accepted"]
    /\ stored' = stored \union {b}
    /\ created' = Append(created, b)
    /\ UNCHANGED <<enabled, attempts, dead, loop, erp, sends, cut, faults, overtaken>>

EnqueueFails(b) ==
    /\ handler[b] = "failed" /\ ~Rewriting
    /\ \/ ~Room /\ UNCHANGED faults
       \/ Fault
    /\ handler' = [handler EXCEPT ![b] = "refused"]
    /\ UNCHANGED <<enabled, files, loop, erp, sends, cut, overtaken>>

-----------------------------------------------------------------------------
(* retryPending.                                                             *)

List ==
    /\ step = "wait" /\ stored # {}
    /\ todo' = stored
    /\ step' = "next"
    /\ UNCHANGED <<enabled, handler, files, item, erp, sends, cut, faults, overtaken>>

\* The directory or some of the files cannot be read: they are left for a later pass.
ListPartly ==
    /\ step = "wait" /\ stored # {}
    /\ Fault
    /\ \E listed \in (SUBSET stored) \ {stored} :
        /\ todo' = listed
        /\ step' = IF listed = {} THEN "wait" ELSE "next"
    /\ UNCHANGED <<enabled, handler, files, item, erp, sends, cut, overtaken>>

\* Older files come first.
Before(b, c) ==
    \E i, j \in DOMAIN created : i < j /\ created[i] = b /\ created[j] = c
Foremost(b) == b \in todo /\ \A c \in todo : ~Before(c, b)

\* Mutant: a failure ends the pass, and the files behind it are not come to.
AdvanceReturning ==
    /\ item' = None
    /\ step' = IF todo = {} \/ step \in {"failed", "rewrite", "bury"} THEN "wait" ELSE "next"
\* Mutant: the loop ends after its first pass.
AdvanceOnce ==
    /\ item' = None
    /\ step' = IF todo = {} THEN "ended" ELSE "next"
\* The loop has done with the batch.
Advance ==
    /\ item' = None
    /\ step' = IF todo = {} THEN "wait" ELSE "next"

\* The loop comes to b: it has been to b itself, and overtakes the other stored ones.
Overtake(b) == overtaken' = [c \in Batches |->
    IF c = b THEN [d \in Batches |-> 0]
    ELSE IF c \in stored THEN [overtaken[c] EXCEPT ![b] = @ + 1] ELSE overtaken[c]]

\* A batch is sent unless its device is not configured any more.
Retry ==
    /\ step = "next"
    /\ \E b \in Batches :
        /\ Foremost(b)
        /\ item' = b /\ todo' = todo \ {b}
        /\ \/ enabled /\ step' = "sending" /\ Post(b)
           \/ ~enabled /\ step' = "unknown" /\ UNCHANGED <<requests, sends>>
        /\ Overtake(b)
    /\ UNCHANGED <<enabled, handler, files, recorded, cut, faults>>

Retried ==
    /\ step = "sending"
    /\ \/ Ends(item, "ok") /\ step' = "sent"
       \/ Ends(item, "error") /\ step' = "failed"
    /\ UNCHANGED <<enabled, handler, files, todo, item, recorded, sends, cut, faults, overtaken>>

\* Mutant: an error of the ERP takes the file away as well.
RemovableAlways == step \in {"sent", "failed"}
Removable == step = "sent"

Remove ==
    /\ Removable
    /\ stored' = stored \ {item}
    /\ Advance
    /\ UNCHANGED <<enabled, handler, created, attempts, dead, todo, erp, sends, cut, faults, overtaken>>

\* Mutant: a failed retry is not counted.
NoteNothing == UNCHANGED attempts
\* item.Attempts++.
NoteFailure == attempts' = [attempts EXCEPT ![item] = @ + 1]

\* RecordFailure removes the file ...
RecordFailure ==
    /\ step = "failed"
    /\ NoteFailure
    /\ stored' = stored \ {item}
    /\ step' = IF attempts'[item] >= MaxRetryAttempts THEN "bury" ELSE "rewrite"
    /\ UNCHANGED <<enabled, handler, created, dead, todo, item, erp, sends, cut, faults, overtaken>>

\* MoveToDead removes it as well ...
MoveToDead ==
    /\ step = "unknown"
    /\ stored' = stored \ {item}
    /\ step' = "bury"
    /\ UNCHANGED <<enabled, handler, created, attempts, dead, todo, item, erp, sends, cut, faults, overtaken>>

\* ... and writeLocked writes it again, in its place or among the dead letters.
Write ==
    /\ Rewriting
    /\ \/ step = "rewrite" /\ stored' = stored \union {item} /\ UNCHANGED dead
       \/ step = "bury" /\ dead' = dead \union {item} /\ UNCHANGED stored
    /\ Advance
    /\ UNCHANGED <<enabled, handler, created, attempts, todo, erp, sends, cut, faults, overtaken>>

\* A file cannot be removed: the loop goes on with the next one.  Or it cannot be
\* written again: nobody looks at the error of RecordFailure.
FileFails ==
    /\ step \in {"sent", "failed", "unknown", "rewrite", "bury"}
    /\ Fault
    /\ Advance
    /\ cut' = IF Rewriting THEN cut \union {item} ELSE cut
    /\ UNCHANGED <<enabled, handler, files, todo, erp, sends, overtaken>>

-----------------------------------------------------------------------------
\* The gateway is stopped at any point (nothing waits for its goroutines) and started
\* again, perhaps with another configuration.  The ERP goes on with what it has.
Restart ==
    /\ Fault
    /\ enabled' \in BOOLEAN
    /\ handler' = [b \in Batches |->
           IF handler[b] \in {"sending", "failed"} THEN "killed" ELSE handler[b]]
    /\ todo' = {} /\ item' = None /\ step' = "wait"
    /\ cut' = IF Rewriting THEN cut \union {item} ELSE cut
    /\ requests' \in {Strays} \union
                     {Strays \union {r} : r \in {q \in requests \ Strays :
                          q.reply = None /\ Cardinality(Strays) < MaxStrays}}
    /\ UNCHANGED <<files, recorded, sends, overtaken>>

RetryStep == List \/ Retry \/ Retried \/ Remove \/ RecordFailure \/ MoveToDead \/ Write

Next ==
    \/ \E b \in Batches : Handle(b) \/ Forward(b) \/ Enqueue(b) \/ EnqueueFails(b)
    \/ RetryStep \/ ListPartly \/ FileFails \/ Restart
    \/ \E r \in requests : Look(r) \/ Insert(r) \/ Answer(r)

Spec == Init /\ [][Next]_vars

\* The retry loop goes on, and its requests end, by the timeout of the client if not
\* by an answer.  Nothing is assumed of the ERP, the device and the handlers.
FairSpec == Spec /\ WF_vars(RetryStep)

-----------------------------------------------------------------------------
(* Properties.                                                               *)

RequestRecords == [batch : Batches, number : Nat, next : Nat \ {0}, missing : BOOLEAN,
                   reply : {None, "ok", "error"}]

\* Types.  The queue is never longer than configured, a file that is being rewritten
\* included: its place is not given away meanwhile.
TypeOK ==
    /\ enabled \in BOOLEAN
    /\ handler \in [Batches -> HandlerSteps]
    /\ stored \subseteq Batches /\ dead \subseteq Batches /\ cut \subseteq Batches
    /\ created \in Seq(Batches) /\ todo \subseteq Batches /\ item \in Batches \union {None}
    /\ attempts \in [Batches -> 0 .. MaxRetryAttempts]
    /\ step \in LoopSteps
    /\ requests \subseteq RequestRecords
    /\ recorded \subseteq Events
    /\ sends \in [Batches -> Nat] /\ faults \in 0 .. MaxFaults
    /\ overtaken \in [Batches -> [Batches -> Nat]]
    /\ Cardinality(stored \union (IF step = "rewrite" THEN {item} ELSE {})) <= MaxQueueItems

RecordedAll(b) == \A i \in 1 .. Len(EventsOf[b]) : Known(EventsOf[b][i])

\* A batch the gateway accepted is in the ERP, every event of it or one that its
\* window takes for the same, or in a file, or its file was being rewritten when the
\* gateway stopped or the disk refused.  Answers that were lost, batches taken in
\* part and requests that overlap do not change that.
AcceptedAccounted ==
    \A b \in Batches : handler[b] = "accepted" =>
        \/ RecordedAll(b)
        \/ b \in stored \union dead \union cut
        \/ Rewriting /\ item = b

\* The limit of retries holds over restarts: a batch is sent once and then
\* MaxRetryAttempts times, plus once for each fault that kept a failure from being noted
\* or a file from being removed.
SendsBounded == \A b \in Batches : sends[b] <= 1 + MaxRetryAttempts + faults

\* A batch that fails does not hold up the ones behind it: while a batch waits in its
\* file, the loop comes to any other at most twice (in the pass under way and, if that
\* one is older, in the next), plus once for each restart and each listing that
\* missed the file.  So it is with retries of several batches and new ones coming in.
TakenInTurn ==
    \A b, c \in Batches : c \in stored => overtaken[c][b] <= 2 + faults

\* Every batch leaves the queue, for the ERP or for the dead letters, whatever the
\* ERP answers.
QueueDrains ==
    \A b \in Batches :
        b \in stored ~> b \notin stored /\ ~(step = "rewrite" /\ item = b)

=============================================================================
