---------------------------- MODULE OfflineStocktake ----------------------------
(***************************************************************************)
(* Stocktaking on a handheld that loses its network: scans and patches are   *)
(* stored in the browser's database, sent, and sent again by the offline     *)
(* engine or by a button, while the server counts scans and takes a patch     *)
(* only on the version of the item it names.                                *)
(*                                                                         *)
(* One browser tab.  JavaScript runs to the next await, so an action is the   *)
(* code between two awaits that matter: a database transaction, or an answer  *)
(* together with the write it leads to.  A sender is a submission (of one     *)
(* scan or patch) or a flush of one kind (by the engine or by the screen).   *)
(*                                                                         *)
(* A version is kept as a set: the patches whose base version is the item's   *)
(* present one.  Every write of the item moves its timestamp, and with it     *)
(* the version, so the set is emptied.  All scans and patches are of one item.*)
(***************************************************************************)
EXTENDS Naturals, FiniteSets

CONSTANTS
    Scans, Patches,                \* operations a user may submit
    TaskOf,                        \* the stocktake task of each scan
    EngineScans, EnginePatches,    \* the flushes of the engine's adapter
    ScreenPatches,                 \* the flush behind the button of the PDA screen
    MaxFaults,    \* bound: lost answers, refusals of the breaker, losses of the
                  \* network and reloads of the page, together
    None

Ops == Scans \union Patches
ScanFlushers == {EngineScans}
PatchFlushers == {EnginePatches, ScreenPatches}
EngineFlushers == {EngineScans, EnginePatches}
Flushers == ScanFlushers \union PatchFlushers
Senders == Ops \union Flushers

ASSUME OfflineConstants ==
    /\ Scans \intersect Patches = {}
    /\ Ops \intersect Flushers = {}
    /\ ScanFlushers \intersect PatchFlushers = {}
    /\ None \notin Senders
    /\ MaxFaults \in Nat

VARIABLES
    online,      \* navigator.onLine
    running,     \* isFlushRunning
    replay,      \* shouldReplayFlush
    delta,       \* pendingDeltas: state of the row of each operation
    conflict,    \* conflictRecords: the record of each patch
    submission,  \* where the submission of each operation is
    retryOf,     \* the conflict a patch was submitted again for
    flush,       \* where each flush is
    todo,        \* rows a flush has read and not yet sent
    call,        \* the request each sender waits for
    ghosts,      \* requests nobody waits for any more
    fresh,       \* patches whose base version is the item's version
    applied,     \* history: how often the server applied an operation, up to 2
    settled,     \* history: scans acknowledged, or refused before the user's eyes
    doubtful,    \* history: operations whose answer was lost or that two senders held
    orphans,     \* history: rows a reload left in 'syncing'
    faults       \* how many faults there were

browser == <<online, running, replay>>
storage == <<delta, conflict>>
flows == <<submission, retryOf, flush, todo, call, ghosts>>
server == <<fresh, applied>>
history == <<settled, doubtful, orphans>>
vars == <<browser, storage, flows, server, history, faults>>

Fault == faults < MaxFaults /\ faults' = faults + 1

-----------------------------------------------------------------------------
(* Stored rows.                                                              *)

DeltaStates == {"none", "queued", "syncing", "conflict"}

\* enqueueDelta puts the row; updatePendingDelta and bulkDelete do nothing to a
\* row that is gone.
Enqueued(o) == [delta EXCEPT ![o] = "queued"]
Updated(S, state) ==
    [o \in Ops |-> IF o \in S /\ delta[o] # "none" THEN state ELSE delta[o]]
\* Mutants: a sent row is kept; a sent row is marked as such.
Kept(S) == delta
MarkedSynced(S) == [o \in Ops |-> IF o \in S THEN "synced" ELSE delta[o]]

Removed(S) == [o \in Ops |-> IF o \in S THEN "none" ELSE delta[o]]

\* Mutant: rows in conflict are read as well.
QueuedOrConflicting(f) ==
    {o \in IF f \in ScanFlushers THEN Scans ELSE Patches : delta[o] \in {"queued", "conflict"}}

\* getQueuedByIntent.
QueuedBy(f) ==
    {o \in IF f \in ScanFlushers THEN Scans ELSE Patches : delta[o] = "queued"}

\* Mutant: the row is marked, the record is not written.
MarkConflictRow(p) == delta' = Updated({p}, "conflict") /\ UNCHANGED conflict

\* markConflict: one transaction over the row and the record.
MarkConflict(p) ==
    /\ delta' = Updated({p}, "conflict")
    /\ conflict' = [conflict EXCEPT ![p] = "open"]

(***************************************************************************)
(* How a request ends.  apiFetch words a failed fetch "[NETWORK_ERROR] ...", *)
(* a wording shouldQueueOffline does not look for, so a network error is      *)
(* queued only if the browser knows that it is offline.  Where a browser words *)
(* it otherwise than apiFetch looks for ("NetworkError ..."), it is queued as a *)
(* timeout is, and stands for one here.                                      *)
(***************************************************************************)
Answers == {"ok", "conflict", "rejected"}
Failures == {"timeout", "breaker", "network"}

\* None, for a request without an answer, is not an answer.
ASSUME NoneIsNoAnswer == None \notin Answers

ShouldQueue(outcome) == ~online \/ outcome \in {"timeout", "breaker"}

NoCall == [ops |-> {}, reply |-> None]
Waiting(x) == call[x].ops # {}

\* The operations a sender has in hand.
Held(x) ==
    IF x \in Flushers THEN todo[x] \union call[x].ops
    ELSE IF submission[x] \in {"saved", "sending"} THEN {x} ELSE {}
HeldTwice(x, S) ==
    {o \in S : \E y \in Senders \ {x} : o \in Held(y)}

-----------------------------------------------------------------------------
\* start, which the first page behind the sign-in calls: a first cycle if the
\* browser is online.
StartedFlushes ==
    [f \in Flushers |-> IF online /\ f \in EngineFlushers THEN "begin" ELSE "off"]

SubmissionStates ==
    {"idle", "paused", "reading", "direct", "saved", "sending", "over", "lost"}

Init ==
    /\ online \in BOOLEAN
    /\ running = online /\ replay = FALSE
    /\ delta = [o \in Ops |-> "none"]
    /\ conflict = [p \in Patches |-> "none"]
    /\ submission = [o \in Ops |-> "idle"]
    /\ retryOf = [p \in Patches |-> None]
    /\ flush = StartedFlushes
    /\ todo = [f \in Flushers |-> {}]
    /\ call = [x \in Senders |-> NoCall]
    /\ ghosts = {} /\ fresh = {}
    /\ applied = [o \in Ops |-> 0]
    /\ settled = {} /\ doubtful = {} /\ orphans = {}
    /\ faults = 0

-----------------------------------------------------------------------------
(* Submissions.                                                              *)

\* submitScan and submitPatchItem until their first row is stored.
Store(o) ==
    /\ submission' = [submission EXCEPT ![o] = "saved"]
    /\ delta' = Enqueued(o)
    /\ UNCHANGED <<browser, conflict, retryOf, flush, todo, call, ghosts, applied,
                   history, faults>>

\* The user scans, or edits an item that the screen shows in its present version
\* or in an older one.
ShownVersions(o) == IF o \in Patches THEN {fresh, fresh \union {o}} ELSE {fresh}

Submit(o) ==
    /\ submission[o] = "idle" /\ online
    /\ fresh' \in ShownVersions(o)
    /\ Store(o)

\* The hooks leave networkMode of useMutation at its default: in an offline browser
\* the mutation is paused before it has called the adapter.
Pause(o) ==
    /\ submission[o] = "idle" /\ ~online
    /\ submission' = [submission EXCEPT ![o] = "paused"]
    /\ fresh' \in ShownVersions(o)
    /\ UNCHANGED <<browser, storage, retryOf, flush, todo, call, ghosts, applied,
                   history, faults>>

\* A paused mutation resumes online; a retry goes straight to submitPatchItem.
StoreNow(o) ==
    /\ \/ submission[o] = "paused" /\ online
       \/ submission[o] = "direct"
    /\ Store(o) /\ UNCHANGED fresh

\* After the refresh of the banner: leave the row to the engine, or send it.
\* The row stays 'queued' while it is sent.
LeaveQueued(o) ==
    /\ submission[o] = "saved" /\ ~online
    /\ submission' = [submission EXCEPT ![o] = "over"]
    /\ UNCHANGED <<browser, storage, retryOf, flush, todo, call, ghosts, server,
                   history, faults>>

SendNow(o) ==
    /\ submission[o] = "saved" /\ online
    /\ submission' = [submission EXCEPT ![o] = "sending"]
    /\ call' = [call EXCEPT ![o].ops = {o}]
    /\ UNCHANGED <<browser, storage, retryOf, flush, todo, ghosts, server, history, faults>>

\* The rest of submitScan: markSynced, markQueuedWithError, or the row is removed
\* and the user is told.
ScanSubmitted(s, outcome) ==
    LET kept == outcome # "ok" /\ ShouldQueue(outcome) IN
    /\ delta' = IF kept THEN Updated({s}, "queued") ELSE Removed({s})
    /\ settled' = IF kept THEN settled ELSE settled \union {s}
    /\ submission' = [submission EXCEPT ![s] = "over"]
    /\ UNCHANGED <<conflict, flush>>

\* The rest of submitPatchItem.
PatchSubmitted(p, outcome) ==
    /\ \/ /\ outcome = "ok"
          /\ delta' = Removed({p}) /\ UNCHANGED conflict
       \/ /\ outcome # "ok" /\ ShouldQueue(outcome)
          /\ delta' = Updated({p}, "queued") /\ UNCHANGED conflict
       \/ /\ outcome # "ok" /\ ~ShouldQueue(outcome)
          /\ MarkConflict(p)
    /\ submission' = [submission EXCEPT ![p] = "over"]
    /\ UNCHANGED <<flush, settled>>

-----------------------------------------------------------------------------
(* Flushes.                                                                  *)

\* flushAllAdapters, in an online browser: start both flushes, or have the
\* running cycle start them again.
FlushAllAdapters ==
    IF running
    THEN replay' = TRUE /\ UNCHANGED <<running, flush>>
    ELSE /\ running' = TRUE /\ UNCHANGED replay
         /\ flush' = [f \in Flushers |->
                         IF f \in EngineFlushers THEN "begin" ELSE flush[f]]

\* Mutant: a cycle asked for while one runs is forgotten.
FinishCycleOnce ==
    /\ running /\ \A f \in EngineFlushers : flush[f] = "off"
    /\ replay' = FALSE /\ running' = FALSE
    /\ UNCHANGED <<online, storage, flows, server, history, faults>>

\* The finally of flushAllAdapters, once the adapter's two flushes have ended.
FinishCycle ==
    /\ running /\ \A f \in EngineFlushers : flush[f] = "off"
    /\ replay' = FALSE
    /\ running' = (replay /\ online)
    /\ flush' = [f \in Flushers |->
                    IF f \in EngineFlushers /\ running' THEN "begin" ELSE flush[f]]
    /\ UNCHANGED <<online, storage, submission, retryOf, todo, call, ghosts,
                   server, history, faults>>

\* The button beside the list of conflicts calls the adapter past the engine; it
\* too is a mutation.
PressFlush(f) ==
    /\ f \notin EngineFlushers /\ online /\ flush[f] = "off"
    /\ \E p \in Patches : conflict[p] = "open"
    /\ flush' = [flush EXCEPT ![f] = "begin"]
    /\ UNCHANGED <<browser, storage, submission, retryOf, todo, call, ghosts, server,
                   history, faults>>

\* flushQueuedScansInternal and flushQueuedPatchesInternal read what is queued.
ReadQueued(f) ==
    /\ flush[f] = "begin"
    /\ LET read == IF online THEN QueuedBy(f) ELSE {} IN
       /\ todo' = [todo EXCEPT ![f] = read]
       /\ flush' = [flush EXCEPT ![f] = IF read = {} THEN "off" ELSE "run"]
       /\ doubtful' = doubtful \union HeldTwice(f, read)
    /\ UNCHANGED <<browser, storage, submission, retryOf, call, ghosts, server,
                   settled, orphans, faults>>

\* The scans of one task go out together, patches one by one.
Batches(f) ==
    IF f \in ScanFlushers
    THEN {{s \in todo[f] : TaskOf[s] = TaskOf[first]} : first \in todo[f]}
    ELSE {{p} : p \in todo[f]}

\* markSyncing, then pdaSubmitScan, pdaBulkSync or pdaPatchItem.
SendBatch(f, batch) ==
    /\ flush[f] = "run" /\ ~Waiting(f)
    /\ delta' = Updated(batch, "syncing")
    /\ todo' = [todo EXCEPT ![f] = @ \ batch]
    /\ call' = [call EXCEPT ![f].ops = batch]
    /\ UNCHANGED <<browser, conflict, submission, retryOf, flush, ghosts, server,
                   history, faults>>

\* Mutant: an error removes the rows.
ScansFlushedDropped(f, outcome) ==
    /\ delta' = Removed(call[f].ops)
    /\ settled' = IF outcome = "ok" THEN settled \union call[f].ops ELSE settled
    /\ flush' = [flush EXCEPT ![f] = IF todo[f] = {} THEN "off" ELSE @]
    /\ UNCHANGED <<conflict, submission>>

\* The rest of a turn of flushQueuedScansInternal: any error puts the rows back.
\* The failures that an answer to pdaBulkSync lists are not looked at.
ScansFlushed(f, outcome) ==
    LET batch == call[f].ops IN
    /\ delta' = IF outcome = "ok" THEN Removed(batch) ELSE Updated(batch, "queued")
    /\ settled' = IF outcome = "ok" THEN settled \union batch ELSE settled
    /\ flush' = [flush EXCEPT ![f] = IF todo[f] = {} THEN "off" ELSE @]
    /\ UNCHANGED <<conflict, submission>>

\* Mutant: after a failure the row is not put back.
PatchFlushedUnrestored(f, outcome) ==
    /\ delta' = IF outcome = "ok" THEN Removed(call[f].ops) ELSE delta
    /\ flush' = [flush EXCEPT ![f] = IF todo[f] = {} THEN "off" ELSE @]
    /\ UNCHANGED <<conflict, submission, settled>>

\* The rest of a turn of flushQueuedPatchesInternal.
PatchFlushed(f, outcome) ==
    LET queueAgain == outcome # "conflict" /\ ShouldQueue(outcome) IN
    /\ \/ /\ outcome = "ok"
          /\ delta' = Removed(call[f].ops) /\ UNCHANGED conflict
       \/ /\ outcome # "ok" /\ queueAgain
          /\ delta' = Updated(call[f].ops, "queued") /\ UNCHANGED conflict
       \/ /\ outcome # "ok" /\ ~queueAgain
          /\ \E p \in call[f].ops : MarkConflict(p)
    /\ flush' = [flush EXCEPT ![f] = IF todo[f] = {} THEN "off" ELSE @]
    /\ UNCHANGED <<submission, settled>>

-----------------------------------------------------------------------------
(* Answers and failures.                                                     *)

\* What a sender does with the end of its request.
Proceed(x, outcome) ==
    /\ call' = [call EXCEPT ![x] = NoCall]
    /\ \/ x \in Scans /\ ScanSubmitted(x, outcome)
       \/ x \in Patches /\ PatchSubmitted(x, outcome)
       \/ x \in ScanFlushers /\ ScansFlushed(x, outcome)
       \/ x \in PatchFlushers /\ PatchFlushed(x, outcome)
    /\ UNCHANGED <<browser, retryOf, todo, server, orphans>>

Receive(x) ==
    /\ Waiting(x) /\ call[x].reply # None
    /\ Proceed(x, call[x].reply)
    /\ UNCHANGED <<ghosts, doubtful, faults>>

\* A request nobody waits for may be lost, or be served later.
Abandon(x) ==
    \/ UNCHANGED ghosts
    \/ /\ Waiting(x) /\ call[x].reply = None
       /\ ghosts' = ghosts \union {[id |-> faults, ops |-> call[x].ops]}

\* The timeout of apiFetch, or a connection that breaks: the answer is lost.
LoseAnswer(x, failure) ==
    /\ Waiting(x)
    /\ failure \in {"timeout", "network"}
    /\ Fault
    /\ Abandon(x)
    /\ doubtful' = doubtful \union call[x].ops
    /\ Proceed(x, failure)

\* The circuit breaker of apiFetch refuses to send.
Blocked(x) ==
    /\ Waiting(x) /\ call[x].reply = None
    /\ Fault
    /\ Proceed(x, "breaker")
    /\ UNCHANGED <<ghosts, doubtful>>

-----------------------------------------------------------------------------
(* Conflicts.                                                                *)

\* resolveConflict: the user discards the patch.
ResolveConflict(p) ==
    /\ conflict[p] = "open"
    /\ delta' = Removed({p})
    /\ conflict' = [conflict EXCEPT ![p] = "resolved"]
    /\ UNCHANGED <<browser, flows, server, history, faults>>

\* retryConflictAfterRefresh reads the item, closes the conflict in a
\* transaction, and submits the same edit again on the version it read.
ReadLatestItem(p, q) ==
    /\ conflict[p] = "open" /\ online
    /\ submission[q] = "idle" /\ q # p
    /\ submission' = [submission EXCEPT ![q] = "reading"]
    /\ retryOf' = [retryOf EXCEPT ![q] = p]
    /\ fresh' = fresh \union {q}
    /\ UNCHANGED <<browser, storage, flush, todo, call, ghosts, applied, history, faults>>

CloseForRetry(q) ==
    /\ submission[q] = "reading"
    /\ delta' = Removed({retryOf[q]})
    /\ conflict' = [conflict EXCEPT ![retryOf[q]] = "resolved"]
    /\ submission' = [submission EXCEPT ![q] = "direct"]
    /\ UNCHANGED <<browser, retryOf, flush, todo, call, ghosts, server, history, faults>>

-----------------------------------------------------------------------------
(* The network and the page.                                                 *)

\* handleOnline.
GoOnline ==
    /\ ~online /\ online' = TRUE
    /\ FlushAllAdapters
    /\ UNCHANGED <<storage, submission, retryOf, todo, call, ghosts, server,
                   history, faults>>

GoOffline ==
    /\ online /\ online' = FALSE
    /\ Fault
    /\ UNCHANGED <<running, replay, storage, flows, server, history>>

\* The page is reloaded, or killed and opened again.  Any number of its requests may
\* go on in the code; here at most one does, and every operation of any of them is
\* doubtful, so that the properties promise the same of all.
Reload ==
    /\ Fault
    /\ running' = online /\ replay' = FALSE
    /\ submission' = [o \in Ops |->
           CASE submission[o] \in {"saved", "sending"} -> "over"
             [] submission[o] \in {"paused", "reading", "direct"} -> "lost"
             [] OTHER -> submission[o]]
    /\ flush' = StartedFlushes
    /\ todo' = [f \in Flushers |-> {}]
    /\ call' = [x \in Senders |-> NoCall]
    /\ \E x \in Senders : Abandon(x)
    /\ doubtful' = doubtful \union UNION {call[x].ops : x \in Senders}
    /\ orphans' = orphans \union {o \in Ops : delta[o] = "syncing"}
    /\ UNCHANGED <<online, storage, retryOf, server, settled>>

-----------------------------------------------------------------------------
(* The server.                                                               *)

\* Mutant: a patch is taken on any version.
OutcomeUnversioned(S, taken, reply) ==
    \/ reply = "rejected" /\ taken = {}
    \/ reply = "ok" /\ taken = S

\* What may become of a request: the scans of /pda/sync are taken or refused one
\* by one and the answer is 200 all the same; a patch is taken on its version only.
Outcome(S, taken, reply) ==
    \/ reply = "rejected" /\ taken = {}
    \/ /\ S \subseteq Scans /\ reply = "ok"
       /\ taken = S \/ Cardinality(S) > 1
    \/ S \subseteq Patches /\ reply = "ok" /\ taken = S /\ S \subseteq fresh
    \/ S \subseteq Patches /\ reply = "conflict" /\ taken = {}

\* SubmitPDAScanWithContext and PatchStocktakeItem for the operations taken.
Apply(taken) ==
    /\ applied' = [o \in Ops |-> IF o \in taken /\ applied[o] < 2
                                 THEN applied[o] + 1 ELSE applied[o]]
    /\ fresh' = IF taken = {} THEN fresh ELSE {}

Serve(x) ==
    /\ Waiting(x) /\ call[x].reply = None
    /\ \E taken \in SUBSET call[x].ops, reply \in Answers :
        /\ Outcome(call[x].ops, taken, reply)
        /\ Apply(taken)
        /\ call' = [call EXCEPT ![x].reply = reply]
    /\ UNCHANGED <<browser, storage, submission, retryOf, flush, todo, ghosts, history, faults>>

ServeLate(g) ==
    /\ \E taken \in SUBSET g.ops, reply \in Answers :
        Outcome(g.ops, taken, reply) /\ Apply(taken)
    /\ ghosts' = ghosts \ {g}
    /\ UNCHANGED <<browser, storage, submission, retryOf, flush, todo, call, history, faults>>

\* Somebody else writes the item.
WriteElsewhere ==
    /\ fresh # {} /\ fresh' = {}
    /\ UNCHANGED <<browser, storage, flows, applied, history, faults>>

-----------------------------------------------------------------------------
Ending(x) ==
    \/ Serve(x) \/ Receive(x)
    \/ LoseAnswer(x, "timeout") \/ LoseAnswer(x, "network") \/ Blocked(x)

\* What the callbacks of one submission, and of one flush, do.
Submission(o) ==
    \/ StoreNow(o) \/ LeaveQueued(o) \/ SendNow(o) \/ Ending(o)
    \/ o \in Patches /\ CloseForRetry(o)
Flush(f) == ReadQueued(f) \/ (\E batch \in Batches(f) : SendBatch(f, batch)) \/ Ending(f)

Next ==
    \/ \E o \in Ops : Submit(o) \/ Pause(o) \/ Submission(o)
    \/ FinishCycle
    \/ \E f \in Flushers : PressFlush(f) \/ Flush(f)
    \/ \E p, q \in Patches : ReadLatestItem(p, q)
    \/ \E p \in Patches : ResolveConflict(p)
    \/ GoOnline \/ GoOffline \/ Reload
    \/ \E g \in ghosts : ServeLate(g)
    \/ WriteElsewhere

Spec == Init /\ [][Next]_vars

(***************************************************************************)
(* A tab that is not reloaded runs the callbacks of its flushes, and a request *)
(* ends, if not by an answer then by its timeout (once MaxFaults is reached, by *)
(* an answer).  Nothing is assumed of the network, the user and submissions.  *)
(***************************************************************************)
FairSpec ==
    /\ Spec
    /\ WF_vars(FinishCycle)
    /\ \A f \in Flushers : WF_vars(Flush(f))

-----------------------------------------------------------------------------
FlushAsked(o) ==
    replay \/ flush[IF o \in Scans THEN EngineScans ELSE EnginePatches] = "begin"

TypeOK ==
    /\ online \in BOOLEAN
    /\ running \in BOOLEAN /\ replay \in BOOLEAN
    /\ delta \in [Ops -> DeltaStates]
    /\ conflict \in [Patches -> {"none", "open", "resolved"}]
    /\ submission \in [Ops -> SubmissionStates]
    /\ retryOf \in [Patches -> Patches \union {None}]
    /\ flush \in [Flushers -> {"off", "begin", "run"}]
    /\ todo \in [Flushers -> SUBSET Ops]
    /\ call \in [Senders -> [ops : SUBSET Ops, reply : Answers \union {None}]]
    /\ ghosts \subseteq [id : 0 .. MaxFaults, ops : SUBSET Ops]
    /\ fresh \subseteq Patches
    /\ applied \in [Ops -> 0 .. 2]
    /\ settled \subseteq Scans /\ doubtful \subseteq Ops
    /\ orphans \subseteq Ops
    /\ faults \in 0 .. MaxFaults

\* A stored scan stays stored until a request that carried it was acknowledged or
\* its submission was refused before the user's eyes.
ScansAccounted ==
    \A s \in Scans :
        submission[s] \in {"saved", "sending", "over"} =>
            delta[s] # "none" \/ s \in settled

\* A scan is counted twice only if an answer to it was lost or two senders had it
\* in hand at a time: a flush alone never sends what it has sent.
DoubleCountOnlyInDoubt ==
    \A s \in Scans : applied[s] = 2 => s \in doubtful

\* However often a patch is sent, the server takes it at most once.
PatchTakenOnce == \A p \in Patches : applied[p] < 2

\* A row in 'conflict' has an open record, without which the user could neither
\* discard nor retry it and no flush would touch it again.
ConflictRowsResolvable ==
    \A p \in Patches : delta[p] = "conflict" => conflict[p] = "open"

\* A row in 'syncing' is in the request of some flush: no flush ends, and no other
\* sender's answer leaves a row, in a state that no later flush reads.  Only a
\* reload does that.
SyncingRowsAreSent ==
    \A o \in Ops : delta[o] = "syncing" =>
        o \in orphans \/ \E f \in Flushers : o \in call[f].ops

\* A patch whose conflict the user has closed is taken only if an answer to it
\* was lost or two senders had it in hand.
ClosedPatchStaysOut ==
    [][\A p \in Patches :
          applied'[p] > applied[p] /\ conflict[p] = "resolved" => p \in doubtful]_vars

\* Once a flush is asked for, be it about to read the queue or noted for the end of
\* the running cycle, what is queued is sent, unless the browser goes offline.
AskedFlushSends ==
    \A o \in Ops :
        (delta[o] = "queued" /\ online /\ FlushAsked(o))
            ~> (delta[o] # "queued" \/ ~online)

=============================================================================
