------------------------ MODULE OfflineStocktake_proofs ------------------------
(***************************************************************************)
(* The browser's database, its senders and the server are kept consistent: the *)
(* type invariant, the safety invariants of OfflineStocktake and the action    *)
(* property ClosedPatchStaysOut, from one inductive invariant, StocktakeInv.   *)
(*                                                                         *)
(* Its core is Undoubted: as long as no answer to an operation was lost and no *)
(* two senders had it in hand, at most one sender has it, no late request       *)
(* carries it, and once the server has taken it the only thing left of it is   *)
(* the answer that says so.                                                  *)
(***************************************************************************)
EXTENDS OfflineStocktake, TLAPS

\* What a sender has in hand, by the kind of the sender and where it is.
SendersInv ==
    /\ \A o \in Ops : call[o].ops # {} => submission[o] = "sending" /\ call[o].ops = {o}
    /\ \A f \in ScanFlushers : todo[f] \subseteq Scans /\ call[f].ops \subseteq Scans
    /\ \A f \in PatchFlushers : todo[f] \subseteq Patches /\ call[f].ops \subseteq Patches
                                /\ \A p, q \in call[f].ops : p = q
    /\ \A f \in Flushers : todo[f] \intersect call[f].ops = {}
    /\ \A f \in Flushers : flush[f] # "run" => todo[f] = {} /\ call[f].ops = {}
    /\ ~running => \A f \in EngineFlushers : flush[f] = "off"
    /\ \A q \in Patches : submission[q] = "reading" =>
           retryOf[q] \in Patches /\ conflict[retryOf[q]] # "none"
    /\ \A s \in Scans : submission[s] # "reading"

\* Of an operation that was not stored yet there is no trace.
Early == {"idle", "paused", "reading", "direct", "lost"}
Untouched(o) ==
    /\ delta[o] = "none" /\ applied[o] = 0
    /\ \A x \in Senders : o \notin Held(x)
    /\ \A g \in ghosts : o \notin g.ops
    /\ o \in Patches => conflict[o] = "none"
EarlyInv == \A o \in Ops : submission[o] \in Early => Untouched(o)

\* The server has taken the operation and only the answer to it is under way.
Answered(o) ==
    /\ \A x \in Senders : o \in Held(x) => o \in call[x].ops /\ call[x].reply = "ok"
    /\ delta[o] = "queued" => \E x \in Senders : o \in Held(x)

\* An operation without a lost answer that no two senders had in hand.
Undoubted(o) ==
    /\ \A x, y \in Senders : o \in Held(x) /\ o \in Held(y) => x = y
    /\ \A g \in ghosts : o \notin g.ops
    /\ applied[o] < 2 /\ (applied[o] > 0 => Answered(o))
    /\ o \in Patches /\ conflict[o] # "none" =>
           delta[o] # "queued" /\ \A x \in Senders : o \notin Held(x)
DoubtInv == \A o \in Ops : o \in doubtful \/ Undoubted(o)

\* A patch that was taken is not of the item's version any more.
VersionInv == \A p \in Patches : applied[p] > 0 => applied[p] = 1 /\ p \notin fresh

StocktakeInv ==
    /\ TypeOK /\ SendersInv /\ EarlyInv /\ DoubtInv /\ VersionInv
    /\ ScansAccounted /\ ConflictRowsResolvable /\ SyncingRowsAreSent

-----------------------------------------------------------------------------
(* Requests that end.                                                        *)

\* What is left of a request that ends: the rows it carried are gone, queued or in
\* conflict, in one way for all of them.
Finished(x, outcome) ==
    /\ call' = [call EXCEPT ![x] = NoCall]
    /\ UNCHANGED <<browser, retryOf, todo, server, orphans>>
    /\ submission' = IF x \in Ops THEN [submission EXCEPT ![x] = "over"] ELSE submission
    /\ flush' = IF x \in Flushers /\ todo[x] = {} THEN [flush EXCEPT ![x] = "off"] ELSE flush
    /\ settled' \in {settled, settled \union (call[x].ops \intersect Scans)}
    /\ \E state \in {"none", "queued", "conflict"} :
        /\ delta' = [o \in Ops |-> IF o \in call[x].ops /\ delta[o] # "none"
                                   THEN state ELSE delta[o]]
        /\ outcome = "ok" => state = "none"
        /\ state = "none" => call[x].ops \intersect Scans \subseteq settled'
        /\ conflict' = [p \in Patches |-> IF p \in call[x].ops /\ state = "conflict"
                                          THEN "open" ELSE conflict[p]]
        /\ state = "conflict" => call[x].ops \subseteq Patches

\* Either the answer is what the sender goes on, or it is lost and in doubt.
Closing(x, outcome) ==
    /\ Finished(x, outcome)
    /\ \/ /\ UNCHANGED <<ghosts, doubtful>>
          /\ call[x].reply = "ok" => outcome = "ok"
       \/ /\ ghosts' \in {ghosts, ghosts \union {[id |-> faults, ops |-> call[x].ops]}}
          /\ doubtful' = doubtful \union call[x].ops
    /\ faults' \in {faults, faults + 1} /\ faults' \in 0 .. MaxFaults

\* The senders are operations and flushes, and no scan is a patch.
LEMMA SenderKinds ==
    /\ Senders = Ops \union Flushers /\ Scans \subseteq Ops /\ Patches \subseteq Ops
    /\ ScanFlushers \subseteq Flushers /\ PatchFlushers \subseteq Flushers
    /\ EngineFlushers \subseteq Flushers
    /\ \A o \in Ops : (o \in Scans \/ o \in Patches) /\ ~(o \in Scans /\ o \in Patches)
    /\ \A f \in Flushers : (f \in ScanFlushers \/ f \in PatchFlushers)
                           /\ ~(f \in ScanFlushers /\ f \in PatchFlushers)
    /\ \A o \in Ops : o \notin Flushers
BY OfflineConstants DEF Senders, Ops, Flushers, ScanFlushers, PatchFlushers, EngineFlushers

\* The conflict record of a patch is written for the only patch of its request.
LEMMA MarkConflictFinishes ==
    ASSUME TypeOK, NEW S \in SUBSET Patches, NEW p \in S, S = {p}, MarkConflict(p)
    PROVE  /\ delta' = [o \in Ops |-> IF o \in S /\ delta[o] # "none" THEN "conflict" ELSE delta[o]]
           /\ conflict' = [q \in Patches |-> IF q \in S THEN "open" ELSE conflict[q]]
BY DEF MarkConflict, Updated, TypeOK

\* A submission whose request ends.
LEMMA SubmissionFinishes ==
    ASSUME TypeOK, SendersInv, NEW x \in Ops, NEW outcome, Waiting(x), Proceed(x, outcome)
    PROVE  Finished(x, outcome)
<1> DEFINE S == call[x].ops
<1>1. S = {x} /\ x \in Senders /\ x \notin Flushers
  BY SenderKinds DEF SendersInv, Waiting
<1>2. /\ call' = [call EXCEPT ![x] = NoCall] /\ UNCHANGED <<browser, retryOf, todo, server, orphans>>
      /\ \/ x \in Scans /\ ScanSubmitted(x, outcome)
         \/ x \in Patches /\ PatchSubmitted(x, outcome)
  BY <1>1, SenderKinds DEF Proceed
<1>3. UNCHANGED flush /\ submission' = [submission EXCEPT ![x] = "over"]
  BY <1>2 DEF ScanSubmitted, PatchSubmitted
<1>4. conflict = [p \in Patches |-> conflict[p]]
  BY DEF TypeOK
<1>5. CASE x \in Scans /\ ScanSubmitted(x, outcome)
  <2>1. x \notin Patches /\ S \intersect Scans = {x} /\ conflict' = conflict
    BY <1>1, <1>5, SenderKinds DEF ScanSubmitted
  <2>2. CASE outcome # "ok" /\ ShouldQueue(outcome)
    <3>1. settled' = settled
          /\ delta' = [o \in Ops |-> IF o \in S /\ delta[o] # "none" THEN "queued" ELSE delta[o]]
      BY <1>1, <1>5, <2>2 DEF ScanSubmitted, Updated
    <3> QED
      BY <1>1, <1>2, <1>3, <1>4, <2>1, <2>2, <3>1 DEF Finished
  <2>3. CASE ~(outcome # "ok" /\ ShouldQueue(outcome))
    <3>1. settled' = settled \union {x}
          /\ delta' = [o \in Ops |-> IF o \in S /\ delta[o] # "none" THEN "none" ELSE delta[o]]
      BY <1>1, <1>5, <2>3 DEF ScanSubmitted, Removed
    <3> QED
      BY <1>1, <1>2, <1>3, <1>4, <2>1, <3>1 DEF Finished
  <2> QED
    BY <2>2, <2>3
<1>6. CASE x \in Patches /\ PatchSubmitted(x, outcome)
  <2>1. S \intersect Scans = {} /\ S \subseteq Patches /\ settled' = settled
    BY <1>1, <1>6, SenderKinds DEF PatchSubmitted
  <2>2. CASE outcome = "ok" /\ delta' = Removed({x}) /\ UNCHANGED conflict
    <3>1. delta' = [o \in Ops |-> IF o \in S /\ delta[o] # "none" THEN "none" ELSE delta[o]]
      BY <1>1, <2>2 DEF Removed
    <3> QED
      BY <1>1, <1>2, <1>3, <1>4, <2>1, <2>2, <3>1 DEF Finished
  <2>3. CASE outcome # "ok" /\ delta' = Updated({x}, "queued") /\ UNCHANGED conflict
    <3>1. delta' = [o \in Ops |-> IF o \in S /\ delta[o] # "none" THEN "queued" ELSE delta[o]]
      BY <1>1, <2>3 DEF Updated
    <3> QED
      BY <1>1, <1>2, <1>3, <1>4, <2>1, <2>3, <3>1 DEF Finished
  <2>4. CASE outcome # "ok" /\ MarkConflict(x)
    <3>1. /\ delta' = [o \in Ops |-> IF o \in S /\ delta[o] # "none" THEN "conflict" ELSE delta[o]]
          /\ conflict' = [q \in Patches |-> IF q \in S THEN "open" ELSE conflict[q]]
      BY <1>1, <2>1, <2>4, MarkConflictFinishes
    <3> QED
      BY <1>1, <1>2, <1>3, <2>1, <2>4, <3>1 DEF Finished
  <2> QED
    BY <1>6, <2>2, <2>3, <2>4 DEF PatchSubmitted
<1> QED
  BY <1>2, <1>5, <1>6

\* A flush whose request ends.
LEMMA FlushFinishes ==
    ASSUME TypeOK, SendersInv, NEW x \in Flushers, NEW outcome, Waiting(x), Proceed(x, outcome)
    PROVE  Finished(x, outcome)
<1> DEFINE S == call[x].ops
<1>1. x \in Senders /\ x \notin Ops /\ x \notin Scans /\ x \notin Patches
  BY SenderKinds
<1>2. /\ call' = [call EXCEPT ![x] = NoCall] /\ UNCHANGED <<browser, retryOf, todo, server, orphans>>
      /\ \/ x \in ScanFlushers /\ ScansFlushed(x, outcome)
         \/ x \in PatchFlushers /\ PatchFlushed(x, outcome)
  BY <1>1 DEF Proceed
<1>3. UNCHANGED submission /\ flush' = [flush EXCEPT ![x] = IF todo[x] = {} THEN "off" ELSE @]
  BY <1>2 DEF ScansFlushed, PatchFlushed
<1>4. flush' = IF x \in Flushers /\ todo[x] = {} THEN [flush EXCEPT ![x] = "off"] ELSE flush
  BY <1>3 DEF TypeOK
<1>5. conflict = [p \in Patches |-> conflict[p]] /\ S \subseteq Ops
  BY <1>1 DEF TypeOK
<1>6. CASE x \in ScanFlushers /\ ScansFlushed(x, outcome)
  <2>1. S \subseteq Scans /\ S \intersect Scans = S /\ UNCHANGED conflict
    BY <1>6 DEF ScansFlushed, SendersInv
  <2>2. CASE outcome = "ok"
    <3>1. settled' = settled \union S
          /\ delta' = [o \in Ops |-> IF o \in S /\ delta[o] # "none" THEN "none" ELSE delta[o]]
      BY <1>6, <2>2 DEF ScansFlushed, Removed
    <3> QED
      BY <1>1, <1>2, <1>3, <1>4, <1>5, <2>1, <3>1 DEF Finished
  <2>3. CASE outcome # "ok"
    <3>1. settled' = settled
          /\ delta' = [o \in Ops |-> IF o \in S /\ delta[o] # "none" THEN "queued" ELSE delta[o]]
      BY <1>6, <2>3 DEF ScansFlushed, Updated
    <3> QED
      BY <1>1, <1>2, <1>3, <1>4, <1>5, <2>1, <2>3, <3>1 DEF Finished
  <2> QED
    BY <2>2, <2>3
<1>7. CASE x \in PatchFlushers /\ PatchFlushed(x, outcome)
  <2>1. /\ S \subseteq Patches /\ S \intersect Scans = {} /\ settled' = settled
        /\ \A p, q \in S : p = q
    BY <1>7, SenderKinds DEF PatchFlushed, SendersInv
  <2>2. CASE outcome = "ok" /\ delta' = Removed(S) /\ UNCHANGED conflict
    <3>1. delta' = [o \in Ops |-> IF o \in S /\ delta[o] # "none" THEN "none" ELSE delta[o]]
      BY <2>2 DEF Removed
    <3> QED
      BY <1>1, <1>2, <1>3, <1>4, <1>5, <2>1, <2>2, <3>1 DEF Finished
  <2>3. CASE outcome # "ok" /\ delta' = Updated(S, "queued") /\ UNCHANGED conflict
    <3>1. delta' = [o \in Ops |-> IF o \in S /\ delta[o] # "none" THEN "queued" ELSE delta[o]]
      BY <2>3 DEF Updated
    <3> QED
      BY <1>1, <1>2, <1>3, <1>4, <1>5, <2>1, <2>3, <3>1 DEF Finished
  <2>4. CASE outcome # "ok" /\ \E p \in S : MarkConflict(p)
    <3>1. PICK p \in S : MarkConflict(p)
      BY <2>4
    <3>2. S = {p}
      BY <2>1
    <3>3. /\ delta' = [o \in Ops |-> IF o \in S /\ delta[o] # "none" THEN "conflict" ELSE delta[o]]
          /\ conflict' = [q \in Patches |-> IF q \in S THEN "open" ELSE conflict[q]]
      BY <2>1, <3>1, <3>2, MarkConflictFinishes
    <3> QED
      BY <1>1, <1>2, <1>3, <1>4, <2>1, <2>4, <3>3 DEF Finished
  <2> QED
    BY <1>7, <2>2, <2>3, <2>4 DEF PatchFlushed
<1> QED
  BY <1>2, <1>6, <1>7

\* Every way a request ends, for its sender, closes it.
LEMMA RequestsClose ==
    ASSUME TypeOK, SendersInv, NEW x \in Senders,
           Receive(x) \/ LoseAnswer(x, "timeout") \/ LoseAnswer(x, "network") \/ Blocked(x)
    PROVE  Waiting(x) /\ \E outcome : Closing(x, outcome)
<1>1. ASSUME NEW outcome, Waiting(x), Proceed(x, outcome) PROVE Finished(x, outcome)
  BY <1>1, SenderKinds, SubmissionFinishes, FlushFinishes
<1>2. faults \in 0 .. MaxFaults /\ MaxFaults \in Nat
  BY OfflineConstants DEF TypeOK
<1>3. CASE Receive(x)
  BY <1>1, <1>2, <1>3 DEF Receive, Closing
<1>4. ASSUME NEW failure, LoseAnswer(x, failure) PROVE Waiting(x) /\ \E outcome : Closing(x, outcome)
  <2>1. faults' = faults + 1 /\ faults' \in 0 .. MaxFaults
    BY <1>2, <1>4 DEF LoseAnswer, Fault
  <2> QED
    BY <1>1, <1>4, <2>1 DEF LoseAnswer, Abandon, Closing
<1>5. CASE Blocked(x)
  <2>1. faults' = faults + 1 /\ faults' \in 0 .. MaxFaults
    BY <1>2, <1>5 DEF Blocked, Fault
  <2>2. call[x].reply # "ok" /\ Waiting(x) /\ Proceed(x, "breaker") /\ UNCHANGED <<ghosts, doubtful>>
    BY <1>5, NoneIsNoAnswer DEF Blocked, Answers
  <2>3. Closing(x, "breaker")
    BY <1>1, <2>1, <2>2 DEF Closing
  <2> QED
    BY <2>2, <2>3
<1> QED
  BY <1>3, <1>4, <1>5

-----------------------------------------------------------------------------
(* The steps, with the ends of requests in one form.                        *)

StepCases ==
    \/ \E o \in Ops : Submit(o) \/ Pause(o) \/ StoreNow(o) \/ LeaveQueued(o) \/ SendNow(o)
    \/ \E q \in Patches : CloseForRetry(q)
    \/ \E x \in Senders : Serve(x) \/ (Waiting(x) /\ \E outcome : Closing(x, outcome))
    \/ \E f \in Flushers : PressFlush(f) \/ ReadQueued(f) \/ \E batch \in Batches(f) : SendBatch(f, batch)
    \/ \E p, q \in Patches : ReadLatestItem(p, q)
    \/ \E p \in Patches : ResolveConflict(p)
    \/ \E g \in ghosts : ServeLate(g)
    \/ FinishCycle \/ GoOnline \/ GoOffline \/ Reload \/ WriteElsewhere

LEMMA StepsAre ==
    ASSUME TypeOK, SendersInv, Next
    PROVE  StepCases
<1>1. ASSUME NEW x \in Senders, Ending(x) PROVE StepCases
  BY <1>1, RequestsClose DEF Ending, StepCases
<1>2. ASSUME NEW o \in Ops, Submit(o) \/ Pause(o) \/ Submission(o) PROVE StepCases
  <2>1. o \in Senders
    BY SenderKinds
  <2> QED
    BY <1>1, <1>2, <2>1 DEF Submission, StepCases
<1>3. ASSUME NEW f \in Flushers, PressFlush(f) \/ Flush(f) PROVE StepCases
  <2>1. f \in Senders
    BY SenderKinds
  <2> QED
    BY <1>1, <1>3, <2>1 DEF Flush, StepCases
<1>4. CASE \/ FinishCycle \/ GoOnline \/ GoOffline \/ Reload \/ WriteElsewhere
           \/ \E g \in ghosts : ServeLate(g)
           \/ \E p, q \in Patches : ReadLatestItem(p, q)
           \/ \E p \in Patches : ResolveConflict(p)
  BY <1>4 DEF StepCases
<1> QED
  BY <1>2, <1>3, <1>4 DEF Next

-----------------------------------------------------------------------------
(* Types.                                                                    *)

\* The variables of the browser and of its senders.
RowTypes ==
    /\ delta \in [Ops -> DeltaStates]
    /\ conflict \in [Patches -> {"none", "open", "resolved"}]
    /\ submission \in [Ops -> SubmissionStates]
    /\ retryOf \in [Patches -> Patches \union {None}]
FlushTypes ==
    /\ online \in BOOLEAN /\ running \in BOOLEAN /\ replay \in BOOLEAN
    /\ flush \in [Flushers -> {"off", "begin", "run"}]
    /\ todo \in [Flushers -> SUBSET Ops]
CallTypes ==
    /\ call \in [Senders -> [ops : SUBSET Ops, reply : Answers \union {None}]]
    /\ ghosts \subseteq [id : 0 .. MaxFaults, ops : SUBSET Ops]
ServerTypes ==
    /\ fresh \subseteq Patches
    /\ applied \in [Ops -> 0 .. 2]
    /\ settled \subseteq Scans /\ doubtful \subseteq Ops
    /\ orphans \subseteq Ops
    /\ faults \in 0 .. MaxFaults

LEMMA TypeParts == TypeOK <=> RowTypes /\ FlushTypes /\ CallTypes /\ ServerTypes
BY DEF TypeOK, RowTypes, FlushTypes, CallTypes, ServerTypes

LEMMA RowOperators ==
    ASSUME RowTypes
    PROVE  /\ \A o \in Ops : Enqueued(o) \in [Ops -> DeltaStates]
           /\ \A S : Removed(S) \in [Ops -> DeltaStates]
           /\ \A S, state : state \in DeltaStates => Updated(S, state) \in [Ops -> DeltaStates]
BY DEF RowTypes, Enqueued, Removed, Updated, DeltaStates

\* Replacing one request keeps the requests typed.
LEMMA CallUpdates ==
    ASSUME CallTypes, NEW x \in Senders, NEW S \in SUBSET Ops
    PROVE  /\ [call EXCEPT ![x].ops = S] \in [Senders -> [ops : SUBSET Ops, reply : Answers \union {None}]]
           /\ [call EXCEPT ![x] = NoCall] \in [Senders -> [ops : SUBSET Ops, reply : Answers \union {None}]]
           /\ \A reply \in Answers : [call EXCEPT ![x].reply = reply]
                  \in [Senders -> [ops : SUBSET Ops, reply : Answers \union {None}]]
BY DEF CallTypes, NoCall

LEMMA SubmitTypes ==
    ASSUME TypeOK, NEW o \in Ops,
           Submit(o) \/ Pause(o) \/ StoreNow(o) \/ LeaveQueued(o) \/ SendNow(o)
    PROVE  TypeOK'
<1> USE SenderKinds
<1>0. RowTypes /\ FlushTypes /\ CallTypes /\ ServerTypes
  BY TypeParts
<1>1. FlushTypes'
  BY <1>0 DEF FlushTypes, Submit, Pause, StoreNow, Store, LeaveQueued, SendNow, browser, flows
<1>2. RowTypes'
  <2>1. submission' \in [Ops -> SubmissionStates]
    BY <1>0 DEF RowTypes, SubmissionStates, Submit, Pause, StoreNow, Store, LeaveQueued, SendNow
  <2>2. delta' \in [Ops -> DeltaStates]
    BY <1>0, RowOperators DEF RowTypes, Submit, Pause, StoreNow, Store, LeaveQueued, SendNow, storage
  <2>3. UNCHANGED <<conflict, retryOf>>
    BY DEF Submit, Pause, StoreNow, Store, LeaveQueued, SendNow, storage, flows
  <2> QED
    BY <1>0, <2>1, <2>2, <2>3 DEF RowTypes
<1>3. CallTypes'
  <2>1. UNCHANGED ghosts /\ (UNCHANGED call \/ call' = [call EXCEPT ![o].ops = {o}])
    BY DEF Submit, Pause, StoreNow, Store, LeaveQueued, SendNow, flows
  <2>2. call' \in [Senders -> [ops : SUBSET Ops, reply : Answers \union {None}]]
    BY <1>0, <2>1, CallUpdates DEF CallTypes
  <2> QED
    BY <1>0, <2>1, <2>2 DEF CallTypes
<1>4. ServerTypes'
  <2>1. UNCHANGED <<applied, settled, doubtful, orphans, faults>>
    BY DEF Submit, Pause, StoreNow, Store, LeaveQueued, SendNow, server, history
  <2>2. UNCHANGED fresh \/ fresh' \in ShownVersions(o)
    BY DEF Submit, Pause, StoreNow, Store, LeaveQueued, SendNow, server
  <2>3. fresh' \subseteq Patches
    BY <1>0, <2>2 DEF ServerTypes, ShownVersions
  <2> QED
    BY <1>0, <2>1, <2>3 DEF ServerTypes
<1> QED
  <2>1. RowTypes' /\ FlushTypes' /\ CallTypes' /\ ServerTypes'
    BY <1>1, <1>2, <1>3, <1>4
  <2> QED
    BY <2>1 DEF TypeOK, RowTypes, FlushTypes, CallTypes, ServerTypes

LEMMA ClosingTypes ==
    ASSUME TypeOK, NEW x \in Senders, NEW outcome, Closing(x, outcome)
    PROVE  TypeOK'
<1> USE SenderKinds
<1>0. RowTypes /\ FlushTypes /\ CallTypes /\ ServerTypes /\ Finished(x, outcome)
  BY TypeParts DEF Closing
<1>1. FlushTypes'
  BY <1>0 DEF FlushTypes, Finished, browser
<1>2. RowTypes'
  <2>1. PICK state \in {"none", "queued", "conflict"} :
            /\ delta' = [o \in Ops |-> IF o \in call[x].ops /\ delta[o] # "none"
                                       THEN state ELSE delta[o]]
            /\ conflict' = [p \in Patches |-> IF p \in call[x].ops /\ state = "conflict"
                                              THEN "open" ELSE conflict[p]]
    BY <1>0 DEF Finished
  <2>2. delta' \in [Ops -> DeltaStates]
    BY <1>0, <2>1 DEF RowTypes, DeltaStates
  <2>3. conflict' \in [Patches -> {"none", "open", "resolved"}]
    BY <1>0, <2>1 DEF RowTypes
  <2>4. submission' \in [Ops -> SubmissionStates]
    BY <1>0 DEF RowTypes, SubmissionStates, Finished
  <2>5. UNCHANGED retryOf
    BY <1>0 DEF Finished
  <2> QED
    BY <1>0, <2>2, <2>3, <2>4, <2>5 DEF RowTypes
<1>3. CallTypes'
  <2>1. call' = [call EXCEPT ![x] = NoCall]
    BY <1>0 DEF Finished
  <2>2. call' \in [Senders -> [ops : SUBSET Ops, reply : Answers \union {None}]]
    BY <1>0, <2>1, CallUpdates
  <2>3. call[x].ops \in SUBSET Ops /\ faults \in 0 .. MaxFaults
    BY <1>0 DEF CallTypes, ServerTypes
  <2>4. ghosts' \subseteq ghosts \union {[id |-> faults, ops |-> call[x].ops]}
    BY DEF Closing
  <2>5. ghosts' \subseteq [id : 0 .. MaxFaults, ops : SUBSET Ops]
    BY <1>0, <2>3, <2>4 DEF CallTypes
  <2> QED
    BY <2>2, <2>5 DEF CallTypes
<1>4. ServerTypes'
  <2>1. UNCHANGED <<fresh, applied, orphans>> /\ settled' \subseteq Scans
    BY <1>0 DEF Finished, server, ServerTypes
  <2>2. call[x].ops \in SUBSET Ops
    BY <1>0 DEF CallTypes
  <2>3. doubtful' \subseteq Ops /\ faults' \in 0 .. MaxFaults
    BY <1>0, <2>2 DEF Closing, ServerTypes
  <2> QED
    BY <1>0, <2>1, <2>3 DEF ServerTypes
<1> QED
  <2>1. RowTypes' /\ FlushTypes' /\ CallTypes' /\ ServerTypes'
    BY <1>1, <1>2, <1>3, <1>4
  <2> QED
    BY <2>1 DEF TypeOK, RowTypes, FlushTypes, CallTypes, ServerTypes

LEMMA FlushStepTypes ==
    ASSUME TypeOK, NEW f \in Flushers,
           PressFlush(f) \/ ReadQueued(f) \/ \E batch \in Batches(f) : SendBatch(f, batch)
    PROVE  TypeOK'
<1> USE SenderKinds
<1>0. RowTypes /\ FlushTypes /\ CallTypes /\ ServerTypes /\ f \in Senders
  BY TypeParts
<1>1. CASE PressFlush(f)
  BY <1>0, <1>1 DEF PressFlush, TypeOK, browser, storage, server, history
<1>2. CASE ReadQueued(f)
  <2> DEFINE read == IF online THEN QueuedBy(f) ELSE {}
  <2>1. read \subseteq Ops
    BY DEF QueuedBy
  <2>2. /\ todo' = [todo EXCEPT ![f] = read]
        /\ flush' = [flush EXCEPT ![f] = IF read = {} THEN "off" ELSE "run"]
        /\ doubtful' = doubtful \union HeldTwice(f, read)
        /\ UNCHANGED <<browser, storage, submission, retryOf, call, ghosts, server,
                       settled, orphans, faults>>
    BY <1>2 DEF ReadQueued
  <2>3. HeldTwice(f, read) \subseteq read
    BY DEF HeldTwice
  <2> HIDE DEF read
  <2>4. doubtful' \subseteq Ops
    BY <2>1, <2>2, <2>3 DEF TypeOK
  <2> QED
    BY <2>1, <2>2, <2>4 DEF TypeOK, browser, storage, server
<1>3. ASSUME NEW batch \in Batches(f), SendBatch(f, batch) PROVE TypeOK'
  <2>1. batch \in SUBSET Ops
    BY DEF Batches, TypeOK
  <2>2. delta' \in [Ops -> DeltaStates]
    BY <1>0, <1>3, RowOperators DEF SendBatch, DeltaStates
  <2>3. call' \in [Senders -> [ops : SUBSET Ops, reply : Answers \union {None}]]
    BY <1>0, <1>3, <2>1, CallUpdates DEF SendBatch
  <2>4. todo' \in [Flushers -> SUBSET Ops]
    BY <1>3 DEF SendBatch, TypeOK
  <2> QED
    BY <1>3, <2>2, <2>3, <2>4 DEF SendBatch, TypeOK, browser, server, history
<1> QED
  BY <1>1, <1>2, <1>3

LEMMA ServerStepTypes ==
    ASSUME TypeOK, SendersInv,
           (\E x \in Senders : Serve(x)) \/ (\E g \in ghosts : ServeLate(g)) \/ WriteElsewhere
    PROVE  TypeOK'
<1>0. CallTypes /\ ServerTypes
  BY TypeParts
<1>1. ASSUME NEW taken, Apply(taken) PROVE applied' \in [Ops -> 0 .. 2] /\ fresh' \subseteq Patches
  BY <1>0, <1>1 DEF Apply, ServerTypes
<1>2. ASSUME NEW x \in Senders, Serve(x) PROVE TypeOK'
  <2>1. PICK taken \in SUBSET call[x].ops, reply \in Answers : Apply(taken) /\ call' = [call EXCEPT ![x].reply = reply]
    BY <1>2 DEF Serve
  <2>2. call' \in [Senders -> [ops : SUBSET Ops, reply : Answers \union {None}]]
    BY <1>0, <2>1, CallUpdates
  <2> QED
    BY <1>1, <1>2, <2>1, <2>2 DEF Serve, TypeOK, browser, storage, history
<1>3. ASSUME NEW g \in ghosts, ServeLate(g) PROVE TypeOK'
  <2>1. applied' \in [Ops -> 0 .. 2] /\ fresh' \subseteq Patches
    BY <1>1, <1>3 DEF ServeLate
  <2> QED
    BY <1>3, <2>1 DEF ServeLate, TypeOK, browser, storage, history
<1>4. CASE WriteElsewhere
  BY <1>4 DEF WriteElsewhere, TypeOK, browser, storage, flows, history
<1> QED
  BY <1>2, <1>3, <1>4

LEMMA ConflictStepTypes ==
    ASSUME TypeOK, SendersInv,
           \/ \E p, q \in Patches : ReadLatestItem(p, q)
           \/ \E p \in Patches : ResolveConflict(p)
           \/ \E q \in Patches : CloseForRetry(q)
    PROVE  TypeOK'
<1> USE SenderKinds
<1>0. RowTypes
  BY TypeParts
<1>1. ASSUME NEW p \in Patches, NEW q \in Patches, ReadLatestItem(p, q) PROVE TypeOK'
  BY <1>1 DEF ReadLatestItem, TypeOK, SubmissionStates, browser, storage, history
<1>2. ASSUME NEW p \in Patches, ResolveConflict(p) PROVE TypeOK'
  <2>1. delta' \in [Ops -> DeltaStates]
    BY <1>0, <1>2, RowOperators DEF ResolveConflict
  <2> QED
    BY <1>2, <2>1 DEF ResolveConflict, TypeOK, browser, flows, server, history
<1>3. ASSUME NEW q \in Patches, CloseForRetry(q) PROVE TypeOK'
  <2>1. delta' \in [Ops -> DeltaStates]
    BY <1>0, <1>3, RowOperators DEF CloseForRetry
  <2> QED
    BY <1>3, <2>1 DEF CloseForRetry, TypeOK, SubmissionStates, browser, server, history
<1> QED
  BY <1>1, <1>2, <1>3

LEMMA PageStepTypes ==
    ASSUME TypeOK, FinishCycle \/ GoOnline \/ GoOffline \/ Reload
    PROVE  TypeOK'
<1>0. faults \in 0 .. MaxFaults /\ MaxFaults \in Nat
  BY OfflineConstants DEF TypeOK
<1>1. Fault => faults' \in 0 .. MaxFaults
  BY <1>0 DEF Fault
<1>2. CASE FinishCycle
  BY <1>2 DEF FinishCycle, TypeOK, storage, server, history
<1>3. CASE GoOnline
  BY <1>3 DEF GoOnline, FlushAllAdapters, TypeOK, storage, server, history
<1>4. CASE GoOffline
  BY <1>1, <1>4 DEF GoOffline, TypeOK, storage, flows, server, history
<1>5. CASE Reload
  <2>1. submission' \in [Ops -> SubmissionStates]
    BY <1>5 DEF Reload, TypeOK, SubmissionStates
  <2>2. call' \in [Senders -> [ops : SUBSET Ops, reply : Answers \union {None}]]
    BY <1>5 DEF Reload, NoCall
  <2>3. \A x \in Senders : call[x].ops \in SUBSET Ops
    BY DEF TypeOK
  <2>4. ghosts' \subseteq [id : 0 .. MaxFaults, ops : SUBSET Ops]
    BY <1>0, <1>5, <2>3 DEF Reload, Abandon, TypeOK
  <2>5. doubtful' \subseteq Ops /\ orphans' \subseteq Ops
    BY <1>5, <2>3 DEF Reload, TypeOK
  <2>6. flush' \in [Flushers -> {"off", "begin", "run"}] /\ todo' \in [Flushers -> SUBSET Ops]
    BY <1>5 DEF Reload, StartedFlushes
  <2>7. running' \in BOOLEAN /\ replay' \in BOOLEAN /\ faults' \in 0 .. MaxFaults
        /\ UNCHANGED <<online, delta, conflict, retryOf, fresh, applied, settled>>
    BY <1>1, <1>5 DEF Reload, TypeOK, storage, server
  <2> QED
    BY <2>1, <2>2, <2>4, <2>5, <2>6, <2>7 DEF TypeOK
<1> QED
  BY <1>2, <1>3, <1>4, <1>5

\* Every step keeps the types.
LEMMA TypesKept ==
    ASSUME TypeOK, SendersInv, StepCases
    PROVE  TypeOK'
BY SubmitTypes, ClosingTypes, FlushStepTypes, ServerStepTypes, ConflictStepTypes, PageStepTypes, Zenon
   DEF StepCases

-----------------------------------------------------------------------------
(* What the senders have in hand.                                            *)

\* The parts of SendersInv that are about submissions, flushes and retries.
SubmissionCalls ==
    \A o \in Ops : call[o].ops # {} => submission[o] = "sending" /\ call[o].ops = {o}
FlushKinds ==
    /\ \A f \in ScanFlushers : todo[f] \subseteq Scans /\ call[f].ops \subseteq Scans
    /\ \A f \in PatchFlushers : todo[f] \subseteq Patches /\ call[f].ops \subseteq Patches
                                /\ \A p, q \in call[f].ops : p = q
    /\ \A f \in Flushers : todo[f] \intersect call[f].ops = {}
FlushesRun ==
    /\ \A f \in Flushers : flush[f] # "run" => todo[f] = {} /\ call[f].ops = {}
    /\ ~running => \A f \in EngineFlushers : flush[f] = "off"
RetriesRead ==
    /\ \A q \in Patches : submission[q] = "reading" =>
           retryOf[q] \in Patches /\ conflict[retryOf[q]] # "none"
    /\ \A s \in Scans : submission[s] # "reading"

LEMMA SendersParts == SendersInv <=> SubmissionCalls /\ FlushKinds /\ FlushesRun /\ RetriesRead
BY DEF SendersInv, SubmissionCalls, FlushKinds, FlushesRun, RetriesRead

LEMMA SendersPartsNext ==
    SendersInv' <=> SubmissionCalls' /\ FlushKinds' /\ FlushesRun' /\ RetriesRead'
BY DEF SendersInv, SubmissionCalls, FlushKinds, FlushesRun, RetriesRead

LEMMA SubmitSenders ==
    ASSUME TypeOK, SendersInv, NEW o \in Ops,
           Submit(o) \/ Pause(o) \/ StoreNow(o) \/ LeaveQueued(o) \/ SendNow(o)
    PROVE  SendersInv'
<1> USE SenderKinds
<1>0. SubmissionCalls /\ FlushKinds /\ FlushesRun /\ RetriesRead
  BY SendersParts
<1>1. /\ UNCHANGED <<todo, flush, running, conflict, retryOf>>
      /\ UNCHANGED call \/ call' = [call EXCEPT ![o].ops = {o}]
  BY DEF Submit, Pause, StoreNow, Store, LeaveQueued, SendNow, browser, storage, flows
<1>2. /\ \E state \in {"paused", "saved", "over", "sending"} :
            submission' = [submission EXCEPT ![o] = state]
      /\ submission[o] # "sending"
  BY DEF Submit, Pause, StoreNow, Store, LeaveQueued, SendNow
<1>3. \A x \in Senders \ {o} : call'[x] = call[x]
  BY <1>1 DEF TypeOK
<1>4. SubmissionCalls'
  <2>1. SendNow(o) \/ UNCHANGED call
    BY DEF Submit, Pause, StoreNow, Store, LeaveQueued, SendNow, flows
  <2>2. CASE SendNow(o)
    BY <1>0, <1>3, <2>2 DEF SubmissionCalls, SendNow, TypeOK
  <2>3. CASE UNCHANGED call
    <3> SUFFICES ASSUME NEW u \in Ops, call[u].ops # {}
                 PROVE  submission'[u] = "sending" /\ call[u].ops = {u}
      BY <2>3 DEF SubmissionCalls
    <3>1. submission[u] = "sending" /\ call[u].ops = {u} /\ u # o
      BY <1>0, <1>2 DEF SubmissionCalls
    <3> QED
      BY <1>2, <3>1 DEF TypeOK
  <2> QED
    BY <2>1, <2>2, <2>3
<1>5. FlushKinds' /\ FlushesRun'
  <2>1. \A f \in Flushers : call'[f] = call[f]
    BY <1>3
  <2> QED
    BY <1>0, <1>1, <2>1 DEF FlushKinds, FlushesRun
<1>6. RetriesRead'
  BY <1>0, <1>1, <1>2 DEF RetriesRead, TypeOK
<1> QED
  BY <1>4, <1>5, <1>6, SendersPartsNext

LEMMA ClosingSenders ==
    ASSUME TypeOK, SendersInv, NEW x \in Senders, NEW outcome, Waiting(x), Closing(x, outcome)
    PROVE  SendersInv'
<1> USE SenderKinds
<1>0. SubmissionCalls /\ FlushKinds /\ FlushesRun /\ RetriesRead /\ Finished(x, outcome)
  BY SendersParts DEF Closing
<1>1. /\ call'[x] = NoCall /\ \A y \in Senders : y # x => call'[y] = call[y]
      /\ UNCHANGED <<todo, running, retryOf>> /\ NoCall.ops = {}
  BY <1>0 DEF Finished, TypeOK, NoCall, browser
<1>2. SubmissionCalls'
  <2> SUFFICES ASSUME NEW o \in Ops, call'[o].ops # {}
               PROVE  submission'[o] = "sending" /\ call'[o].ops = {o}
    BY DEF SubmissionCalls
  <2>1. o # x /\ call'[o] = call[o]
    BY <1>1
  <2>2. submission[o] = "sending" /\ call[o].ops = {o}
    BY <1>0, <2>1 DEF SubmissionCalls
  <2>3. submission'[o] = submission[o]
    BY <1>0, <2>1 DEF Finished, TypeOK
  <2> QED
    BY <2>1, <2>2, <2>3
<1>3. FlushKinds'
  BY <1>0, <1>1 DEF FlushKinds
<1>4. FlushesRun'
  <2>1. ASSUME NEW f \in Flushers, flush'[f] # "run" PROVE todo'[f] = {} /\ call'[f].ops = {}
    BY <1>0, <1>1, <2>1 DEF Finished, TypeOK, FlushesRun
  <2>2. ASSUME ~running', NEW f \in EngineFlushers PROVE flush'[f] = "off"
    BY <1>0, <1>1, <2>2 DEF Finished, TypeOK, FlushesRun
  <2> QED
    BY <2>1, <2>2 DEF FlushesRun
<1>5. RetriesRead'
  <2>1. \A o \in Ops : submission'[o] = "reading" => submission[o] = "reading"
    BY <1>0 DEF Finished, TypeOK
  <2>2. \A p \in Patches : conflict[p] # "none" => conflict'[p] # "none"
    BY <1>0 DEF Finished
  <2> QED
    BY <1>0, <1>1, <2>1, <2>2 DEF RetriesRead
<1> QED
  BY <1>2, <1>3, <1>4, <1>5, SendersPartsNext

LEMMA FlushStepSenders ==
    ASSUME TypeOK, SendersInv, NEW f \in Flushers,
           PressFlush(f) \/ ReadQueued(f) \/ \E batch \in Batches(f) : SendBatch(f, batch)
    PROVE  SendersInv'
<1> USE SenderKinds
<1>0. SubmissionCalls /\ FlushKinds /\ FlushesRun /\ RetriesRead /\ f \in Senders
  BY SendersParts
<1>1. UNCHANGED <<running, submission, retryOf, conflict>>
  BY DEF PressFlush, ReadQueued, SendBatch, browser, storage
<1>2. RetriesRead'
  BY <1>0, <1>1 DEF RetriesRead
<1>3. CASE PressFlush(f)
  <2>1. UNCHANGED <<todo, call>> /\ f \notin EngineFlushers /\ flush[f] = "off"
        /\ flush' = [flush EXCEPT ![f] = "begin"]
    BY <1>3 DEF PressFlush
  <2>2. FlushesRun'
    BY <1>0, <1>1, <2>1 DEF FlushesRun, TypeOK
  <2>3. SubmissionCalls' /\ FlushKinds'
    BY <1>0, <1>1, <2>1 DEF SubmissionCalls, FlushKinds
  <2> QED
    BY <1>2, <2>2, <2>3, SendersPartsNext
<1>4. CASE ReadQueued(f)
  <2> DEFINE read == IF online THEN QueuedBy(f) ELSE {}
  <2>1. /\ flush[f] = "begin" /\ todo' = [todo EXCEPT ![f] = read]
        /\ flush' = [flush EXCEPT ![f] = IF read = {} THEN "off" ELSE "run"]
        /\ UNCHANGED call
    BY <1>4 DEF ReadQueued
  <2>2. read \subseteq IF f \in ScanFlushers THEN Scans ELSE Patches
    BY DEF QueuedBy
  <2> HIDE DEF read
  <2>3. call[f].ops = {}
    BY <1>0, <2>1 DEF FlushesRun
  <2>4. FlushKinds'
    BY <1>0, <2>1, <2>2, <2>3 DEF FlushKinds, TypeOK
  <2>5. FlushesRun'
    BY <1>0, <1>1, <2>1, <2>3 DEF FlushesRun, TypeOK
  <2>6. SubmissionCalls'
    BY <1>0, <1>1, <2>1 DEF SubmissionCalls
  <2> QED
    BY <1>2, <2>4, <2>5, <2>6, SendersPartsNext
<1>5. ASSUME NEW batch \in Batches(f), SendBatch(f, batch) PROVE SendersInv'
  <2>1. /\ flush[f] = "run" /\ UNCHANGED flush /\ call'[f].ops = batch
        /\ todo'[f] = todo[f] \ batch
        /\ \A g \in Flushers : g # f => todo'[g] = todo[g]
        /\ \A y \in Senders : y # f => call'[y] = call[y]
    BY <1>0, <1>5 DEF SendBatch, TypeOK
  <2>2. batch \subseteq todo[f] /\ (f \in PatchFlushers => \A p, q \in batch : p = q)
    BY DEF Batches
  <2>3. SubmissionCalls'
    BY <1>0, <1>1, <2>1 DEF SubmissionCalls
  <2>4. FlushKinds'
    BY <1>0, <2>1, <2>2 DEF FlushKinds
  <2>5. FlushesRun'
    BY <1>0, <1>1, <2>1 DEF FlushesRun
  <2> QED
    BY <1>2, <2>3, <2>4, <2>5, SendersPartsNext
<1> QED
  BY <1>3, <1>4, <1>5

LEMMA ServerStepSenders ==
    ASSUME TypeOK, SendersInv,
           (\E x \in Senders : Serve(x)) \/ (\E g \in ghosts : ServeLate(g)) \/ WriteElsewhere
    PROVE  SendersInv'
<1> USE SenderKinds
<1>1. UNCHANGED <<running, submission, retryOf, conflict, todo, flush>>
  BY DEF Serve, ServeLate, WriteElsewhere, browser, storage, flows
<1>2. \A y \in Senders : call'[y].ops = call[y].ops
  BY DEF Serve, ServeLate, WriteElsewhere, flows, TypeOK
<1> QED
  BY <1>1, <1>2 DEF SendersInv

LEMMA ConflictStepSenders ==
    ASSUME TypeOK, SendersInv,
           \/ \E p, q \in Patches : ReadLatestItem(p, q)
           \/ \E p \in Patches : ResolveConflict(p)
           \/ \E q \in Patches : CloseForRetry(q)
    PROVE  SendersInv'
<1> USE SenderKinds
<1>0. SubmissionCalls /\ FlushKinds /\ FlushesRun /\ RetriesRead
  BY SendersParts
<1>1. UNCHANGED <<running, todo, flush, call>>
  BY DEF ReadLatestItem, ResolveConflict, CloseForRetry, browser, flows
<1>2. FlushKinds' /\ FlushesRun'
  BY <1>0, <1>1 DEF FlushKinds, FlushesRun
<1>3. ASSUME NEW p \in Patches, NEW q \in Patches, ReadLatestItem(p, q) PROVE SendersInv'
  <2>1. RetriesRead'
    BY <1>0, <1>3 DEF RetriesRead, ReadLatestItem, TypeOK, storage
  <2>2. SubmissionCalls'
    BY <1>0, <1>1, <1>3 DEF SubmissionCalls, ReadLatestItem, TypeOK
  <2> QED
    BY <1>2, <2>1, <2>2, SendersPartsNext
<1>4. ASSUME NEW p \in Patches, ResolveConflict(p) PROVE SendersInv'
  <2>1. RetriesRead' /\ SubmissionCalls'
    BY <1>0, <1>1, <1>4 DEF RetriesRead, SubmissionCalls, ResolveConflict, TypeOK, flows
  <2> QED
    BY <1>2, <2>1, SendersPartsNext
<1>5. ASSUME NEW q \in Patches, CloseForRetry(q) PROVE SendersInv'
  <2>1. RetriesRead'
    BY <1>0, <1>5 DEF RetriesRead, CloseForRetry, TypeOK
  <2>2. SubmissionCalls'
    BY <1>0, <1>1, <1>5 DEF SubmissionCalls, CloseForRetry, TypeOK
  <2> QED
    BY <1>2, <2>1, <2>2, SendersPartsNext
<1> QED
  BY <1>3, <1>4, <1>5

LEMMA PageStepSenders ==
    ASSUME TypeOK, SendersInv, FinishCycle \/ GoOnline \/ GoOffline \/ Reload
    PROVE  SendersInv'
<1> USE SenderKinds
<1>0. SubmissionCalls /\ FlushKinds /\ FlushesRun /\ RetriesRead
  BY SendersParts
<1>1. CASE GoOffline
  BY <1>0, <1>1, SendersPartsNext
     DEF GoOffline, storage, flows, SubmissionCalls, FlushKinds, FlushesRun, RetriesRead
<1>2. CASE FinishCycle \/ GoOnline
  <2>1. UNCHANGED <<submission, retryOf, conflict, todo, call>>
    BY <1>2 DEF FinishCycle, GoOnline, storage
  <2>2. FlushesRun'
    <3>1. CASE FinishCycle
      BY <1>0, <2>1, <3>1 DEF FinishCycle, FlushesRun, TypeOK
    <3>2. CASE GoOnline
      BY <1>0, <2>1, <3>2 DEF GoOnline, FlushAllAdapters, FlushesRun, TypeOK
    <3> QED
      BY <1>2, <3>1, <3>2
  <2> QED
    BY <1>0, <2>1, <2>2, SendersPartsNext DEF SubmissionCalls, FlushKinds, RetriesRead
<1>3. CASE Reload
  <2>1. /\ \A x \in Senders : call'[x].ops = {}
        /\ \A f \in Flushers : todo'[f] = {}
    BY <1>3 DEF Reload, NoCall
  <2>2. \A o \in Ops : submission'[o] # "reading"
    BY <1>3 DEF Reload
  <2>3. ~running' => \A f \in EngineFlushers : flush'[f] = "off"
    BY <1>3 DEF Reload, StartedFlushes
  <2> QED
    BY <2>1, <2>2, <2>3 DEF SendersInv
<1> QED
  BY <1>1, <1>2, <1>3

\* Every step keeps what the senders have in hand in its shape.
LEMMA SendersKept ==
    ASSUME TypeOK, SendersInv, StepCases
    PROVE  SendersInv'
BY SubmitSenders, ClosingSenders, FlushStepSenders, ServerStepSenders, ConflictStepSenders,
   PageStepSenders, Zenon
   DEF StepCases

-----------------------------------------------------------------------------
(* The trace of an operation: its row, who has it in hand, what the server did. *)

LEMMA HeldBy ==
    /\ \A f \in Flushers : Held(f) = todo[f] \union call[f].ops
    /\ \A u \in Ops : Held(u) = IF submission[u] \in {"saved", "sending"} THEN {u} ELSE {}
BY SenderKinds DEF Held

LEMMA HeldByNext ==
    /\ \A f \in Flushers : Held(f)' = todo'[f] \union call'[f].ops
    /\ \A u \in Ops : Held(u)' = IF submission'[u] \in {"saved", "sending"} THEN {u} ELSE {}
BY SenderKinds DEF Held

\* A sender whose rows, request and place are as they were has what it had.
LEMMA HeldKept ==
    ASSUME NEW x \in Senders,
           x \in Flushers => todo'[x] = todo[x] /\ call'[x].ops = call[x].ops,
           x \in Ops => submission'[x] = submission[x]
    PROVE  Held(x)' = Held(x)
<1>1. CASE x \in Flushers
  BY <1>1, HeldBy, HeldByNext
<1>2. CASE x \in Ops
  BY <1>2, HeldBy, HeldByNext
<1> QED
  BY <1>1, <1>2, SenderKinds

\* A sender that waits for a request has its operations in hand.
LEMMA CallsAreHeld ==
    ASSUME SendersInv, NEW x \in Senders
    PROVE  call[x].ops \subseteq Held(x)
BY SenderKinds, HeldBy DEF SendersInv

\* A step that leaves the trace of an operation as it is.
SameTrace(o) ==
    /\ delta'[o] = delta[o] /\ applied'[o] = applied[o]
    /\ o \in Patches => conflict'[o] = conflict[o]
    /\ \A x \in Senders : o \in Held(x)' <=> o \in Held(x)
    /\ \A x \in Senders : o \in call[x].ops /\ call[x].reply = "ok"
                              => o \in call'[x].ops /\ call'[x].reply = "ok"
    /\ \A g \in ghosts' : o \in g.ops => \E h \in ghosts : o \in h.ops

\* The parts of EarlyInv and DoubtInv that are about one operation.
TraceInv(o) ==
    /\ submission[o] \in Early => Untouched(o)
    /\ o \in doubtful \/ Undoubted(o)

LEMMA UntouchedIsUndoubted ==
    ASSUME TypeOK, NEW o \in Ops, Untouched(o)
    PROVE  Undoubted(o)
BY DEF Untouched, Undoubted

LEMMA SameTraceKept ==
    ASSUME NEW o \in Ops, TraceInv(o), SameTrace(o),
           submission'[o] \in Early => submission[o] \in Early,
           o \in doubtful => o \in doubtful'
    PROVE  TraceInv(o)'
<1>1. Untouched(o) => Untouched(o)'
  BY DEF Untouched, SameTrace
<1>2. Undoubted(o) => Undoubted(o)'
  <2> SUFFICES ASSUME Undoubted(o) PROVE Undoubted(o)'
    OBVIOUS
  <2>1. \A x, y \in Senders : o \in Held(x)' /\ o \in Held(y)' => x = y
    BY DEF Undoubted, SameTrace
  <2>2. \A g \in ghosts' : o \notin g.ops
    BY DEF Undoubted, SameTrace
  <2>3. applied'[o] < 2 /\ (applied'[o] > 0 => Answered(o)')
    BY DEF Undoubted, SameTrace, Answered
  <2>4. o \in Patches /\ conflict'[o] # "none" =>
            delta'[o] # "queued" /\ \A x \in Senders : o \notin Held(x)'
    BY DEF Undoubted, SameTrace
  <2> QED
    BY <2>1, <2>2, <2>3, <2>4 DEF Undoubted
<1> QED
  BY <1>1, <1>2 DEF TraceInv

LEMMA TraceParts == EarlyInv /\ DoubtInv <=> \A o \in Ops : TraceInv(o)
BY DEF EarlyInv, DoubtInv, TraceInv

LEMMA TracePartsNext == EarlyInv' /\ DoubtInv' <=> \A o \in Ops : TraceInv(o)'
BY DEF EarlyInv, DoubtInv, TraceInv

\* An operation that somebody has in hand and no answer of which says "ok" was not
\* taken by the server, unless it is in doubt, and has no conflict yet.
LEMMA HeldUnanswered ==
    ASSUME TypeOK, NEW o \in Ops, Undoubted(o), NEW x \in Senders, o \in Held(x),
           o \in call[x].ops => call[x].reply # "ok"
    PROVE  applied[o] = 0
BY DEF Undoubted, Answered, TypeOK

LEMMA HeldHasNoConflict ==
    ASSUME NEW o \in Ops, Undoubted(o), NEW x \in Senders, o \in Held(x), o \in Patches
    PROVE  conflict[o] = "none"
BY DEF Undoubted

\* Submissions keep every trace.
LEMMA SubmitTraces ==
    ASSUME TypeOK, SendersInv, NEW o \in Ops, \A u \in Ops : TraceInv(u),
           Submit(o) \/ Pause(o) \/ StoreNow(o) \/ LeaveQueued(o) \/ SendNow(o)
    PROVE  \A u \in Ops : TraceInv(u)'
<1> USE SenderKinds
<1>1. /\ UNCHANGED <<todo, conflict, applied, ghosts, doubtful>>
      /\ UNCHANGED call \/ call' = [call EXCEPT ![o].ops = {o}]
      /\ UNCHANGED delta \/ delta' = [delta EXCEPT ![o] = "queued"]
      /\ \E state \in {"paused", "saved", "over", "sending"} :
            submission' = [submission EXCEPT ![o] = state]
  BY DEF Submit, Pause, StoreNow, Store, LeaveQueued, SendNow, storage, flows, server, history, Enqueued
<1>2. /\ \A x \in Senders : x # o => call'[x] = call[x]
      /\ \A u \in Ops : u # o => submission'[u] = submission[u] /\ delta'[u] = delta[u]
  BY <1>1 DEF TypeOK
<1>3. ASSUME NEW x \in Senders, x # o PROVE Held(x)' = Held(x)
  BY <1>1, <1>2, <1>3, HeldKept
<1>4. Held(o) \subseteq {o} /\ Held(o)' \subseteq {o} /\ call[o].ops \subseteq {o}
  BY HeldBy, HeldByNext DEF SendersInv
<1>5. ASSUME NEW u \in Ops, u # o PROVE TraceInv(u)'
  <2>1. SameTrace(u)
    BY <1>1, <1>2, <1>3, <1>4, <1>5 DEF SameTrace
  <2> QED
    BY <1>1, <1>2, <1>5, <2>1, SameTraceKept
<1>6. TraceInv(o)'
  <2>0. \A x \in Senders \ {o} : o \in Held(x)' <=> o \in Held(x)
    BY <1>3
  <2>1. CASE Pause(o)
    <3>1. UNCHANGED <<delta, call>> /\ submission[o] \in Early /\ submission'[o] = "paused"
      BY <2>1 DEF Pause, storage, TypeOK, Early
    <3>2. Held(o)' = {} /\ Held(o) = {}
      BY <3>1, HeldBy, HeldByNext DEF Early
    <3>3. SameTrace(o)
      BY <1>1, <2>0, <3>1, <3>2 DEF SameTrace
    <3> QED
      BY <1>1, <3>1, <3>3, SameTraceKept
  <2>2. CASE Submit(o) \/ StoreNow(o)
    <3>1. /\ submission[o] \in Early /\ submission'[o] = "saved" /\ UNCHANGED call
      BY <2>2 DEF Submit, StoreNow, Store, TypeOK, Early
    <3>2. Untouched(o)
      BY <3>1 DEF TraceInv
    <3>3. /\ \A x \in Senders : o \in Held(x)' => x = o
          /\ applied'[o] = 0 /\ (\A g \in ghosts' : o \notin g.ops)
          /\ o \in Patches => conflict'[o] = "none"
      BY <1>1, <2>0, <3>2 DEF Untouched
    <3>4. Undoubted(o)'
      BY <3>3 DEF Undoubted
    <3> QED
      BY <3>1, <3>4 DEF TraceInv, Early
  <2>3. CASE LeaveQueued(o)
    <3>1. /\ submission[o] = "saved" /\ submission'[o] = "over" /\ UNCHANGED <<delta, call>>
      BY <2>3 DEF LeaveQueued, TypeOK, storage
    <3>2. Held(o) = {o} /\ Held(o)' = {} /\ call[o].ops = {}
      BY <3>1, HeldBy, HeldByNext DEF SendersInv
    <3>3. ASSUME Undoubted(o) PROVE Undoubted(o)'
      <4>1. applied[o] = 0 /\ (o \in Patches => conflict[o] = "none")
        BY <3>2, <3>3, HeldUnanswered, HeldHasNoConflict
      <4>2. \A x \in Senders : o \notin Held(x)'
        BY <2>0, <3>2, <3>3 DEF Undoubted
      <4> QED
        BY <1>1, <3>3, <4>1, <4>2 DEF Undoubted
    <3> QED
      BY <1>1, <3>1, <3>3 DEF TraceInv, Early
  <2>4. CASE SendNow(o)
    <3>1. /\ submission[o] = "saved" /\ submission'[o] = "sending" /\ UNCHANGED delta
      BY <2>4 DEF SendNow, TypeOK, storage
    <3>2. Held(o) = {o} /\ Held(o)' = {o} /\ call[o].ops = {}
      BY <3>1, HeldBy, HeldByNext DEF SendersInv
    <3>3. ASSUME Undoubted(o) PROVE Undoubted(o)'
      <4>1. applied[o] = 0 /\ (o \in Patches => conflict[o] = "none")
        BY <3>2, <3>3, HeldUnanswered, HeldHasNoConflict
      <4>2. \A x \in Senders : o \in Held(x)' => x = o
        BY <2>0, <3>2, <3>3 DEF Undoubted
      <4> QED
        BY <1>1, <3>3, <4>1, <4>2 DEF Undoubted
    <3> QED
      BY <1>1, <3>1, <3>3 DEF TraceInv, Early
  <2> QED
    BY <2>1, <2>2, <2>3, <2>4
<1> QED
  BY <1>5, <1>6

\* A request that ends keeps every trace: what it carried is in nobody's hands.
LEMMA ClosingTraces ==
    ASSUME TypeOK, SendersInv, NEW x \in Senders, NEW outcome, Waiting(x), Closing(x, outcome),
           \A u \in Ops : TraceInv(u)
    PROVE  \A u \in Ops : TraceInv(u)'
<1> USE SenderKinds
<1> DEFINE S == call[x].ops
<1>1. /\ call'[x] = NoCall /\ (\A y \in Senders : y # x => call'[y] = call[y])
      /\ UNCHANGED <<todo, applied>> /\ NoCall.ops = {}
      /\ submission' = IF x \in Ops THEN [submission EXCEPT ![x] = "over"] ELSE submission
  BY DEF Closing, Finished, TypeOK, NoCall, server
<1>2. PICK state \in {"none", "queued", "conflict"} :
          /\ delta' = [o \in Ops |-> IF o \in call[x].ops /\ delta[o] # "none"
                                     THEN state ELSE delta[o]]
          /\ outcome = "ok" => state = "none"
          /\ conflict' = [p \in Patches |-> IF p \in call[x].ops /\ state = "conflict"
                                            THEN "open" ELSE conflict[p]]
  BY DEF Closing, Finished
<1>3. ASSUME NEW y \in Senders, y # x PROVE Held(y)' = Held(y)
  <2>1. y \in Ops => submission'[y] = submission[y]
    BY <1>1, <1>3 DEF TypeOK
  <2> QED
    BY <1>1, <1>3, <2>1, HeldKept
<1>4. Held(x)' = Held(x) \ S
  <2>1. CASE x \in Flushers
    BY <1>1, <2>1, HeldBy, HeldByNext DEF SendersInv
  <2>2. CASE x \in Ops
    <3>1. S = {x} /\ Held(x) = {x} /\ submission'[x] = "over"
      BY <1>1, <2>2, HeldBy DEF SendersInv, Waiting, TypeOK
    <3> QED
      BY <2>2, <3>1, HeldByNext
  <2> QED
    BY <2>1, <2>2
<1>5. \A u \in Ops : submission'[u] \in Early => submission[u] \in Early /\ submission'[u] = submission[u]
  BY <1>1 DEF TypeOK, Early
<1>6. doubtful \subseteq doubtful'
  BY DEF Closing
<1>7. ASSUME NEW g \in ghosts', g \notin ghosts PROVE g.ops = S
  BY <1>7 DEF Closing
<1>8. ASSUME NEW u \in Ops, u \notin S PROVE TraceInv(u)'
  <2>1. delta'[u] = delta[u] /\ applied'[u] = applied[u] /\ (u \in Patches => conflict'[u] = conflict[u])
    BY <1>1, <1>2, <1>8
  <2>2. \A y \in Senders : u \in Held(y)' <=> u \in Held(y)
    BY <1>3, <1>4, <1>8
  <2>3. \A y \in Senders : u \in call[y].ops => call'[y] = call[y]
    BY <1>1, <1>8
  <2>4. \A g \in ghosts' : u \in g.ops => g \in ghosts
    BY <1>7, <1>8
  <2>5. SameTrace(u)
    BY <2>1, <2>2, <2>3, <2>4 DEF SameTrace
  <2> QED
    BY <1>5, <1>6, <2>5, SameTraceKept
<1>9. ASSUME NEW u \in Ops, u \in S PROVE TraceInv(u)'
  <2>1. u \in Held(x) /\ u \notin Held(x)'
    BY <1>4, <1>9, CallsAreHeld
  <2>2. submission'[u] \notin Early
    BY <1>5, <2>1 DEF TraceInv, Untouched
  <2>3. ASSUME Undoubted(u), u \notin doubtful' PROVE Undoubted(u)'
    <3>1. UNCHANGED ghosts /\ (call[x].reply = "ok" => outcome = "ok")
      BY <1>9, <2>3 DEF Closing
    <3>2. \A y \in Senders : u \notin Held(y)'
      BY <1>3, <2>1, <2>3 DEF Undoubted
    <3>3. applied'[u] > 0 => delta'[u] # "queued"
      <4> SUFFICES ASSUME applied[u] > 0 PROVE delta'[u] # "queued"
        BY <1>1
      <4>1. call[x].reply = "ok"
        BY <2>1, <2>3 DEF Undoubted, Answered
      <4>2. state = "none"
        BY <1>2, <3>1, <4>1
      <4> QED
        BY <1>2, <1>9, <4>2
    <3>4. u \in Patches /\ conflict'[u] # "none" => delta'[u] # "queued"
      <4>1. u \in Patches => conflict[u] = "none"
        BY <2>1, <2>3, HeldHasNoConflict
      <4> QED
        BY <1>2, <1>9, <4>1
    <3> QED
      BY <1>1, <2>3, <3>1, <3>2, <3>3, <3>4 DEF Undoubted, Answered
  <2> QED
    BY <1>6, <2>2, <2>3 DEF TraceInv
<1> QED
  BY <1>8, <1>9

\* What a flush reads and sends keeps every trace: rows that another sender has in
\* hand are in doubt from then on.
LEMMA FlushStepTraces ==
    ASSUME TypeOK, SendersInv, NEW f \in Flushers, \A u \in Ops : TraceInv(u),
           PressFlush(f) \/ ReadQueued(f) \/ \E batch \in Batches(f) : SendBatch(f, batch)
    PROVE  \A u \in Ops : TraceInv(u)'
<1> USE SenderKinds
<1>1. UNCHANGED <<submission, conflict, applied, ghosts>> /\ doubtful \subseteq doubtful'
  BY DEF PressFlush, ReadQueued, SendBatch, browser, storage, server, history
<1>2. CASE PressFlush(f)
  <2>1. UNCHANGED <<delta, call, todo, doubtful>>
    BY <1>2 DEF PressFlush, storage, history
  <2>2. ASSUME NEW x \in Senders PROVE Held(x)' = Held(x)
    BY <1>1, <2>1, HeldKept
  <2>3. ASSUME NEW u \in Ops PROVE SameTrace(u)
    BY <1>1, <2>1, <2>2 DEF SameTrace
  <2> QED
    BY <1>1, <2>3, SameTraceKept
<1>3. CASE ReadQueued(f)
  <2> DEFINE read == IF online THEN QueuedBy(f) ELSE {}
  <2>1. /\ flush[f] = "begin" /\ todo' = [todo EXCEPT ![f] = read]
        /\ doubtful' = doubtful \union HeldTwice(f, read)
        /\ UNCHANGED <<delta, call>>
    BY <1>3 DEF ReadQueued, storage
  <2>2. \A u \in read : u \in Ops /\ delta[u] = "queued"
    BY DEF QueuedBy
  <2> HIDE DEF read
  <2>3. ASSUME NEW x \in Senders, x # f PROVE Held(x)' = Held(x)
    BY <1>1, <2>1, <2>3, HeldKept DEF TypeOK
  <2>4. todo[f] = {} /\ call[f].ops = {}
    BY <2>1 DEF SendersInv
  <2>5. Held(f) = {} /\ Held(f)' = read
    <3>1. Held(f) = {}
      BY <2>4, HeldBy
    <3>2. Held(f)' = todo'[f] \union call'[f].ops
      BY HeldByNext
    <3>3. todo'[f] = read
      BY <2>1 DEF TypeOK
    <3> QED
      BY <2>1, <2>4, <3>1, <3>2, <3>3
  <2>6. ASSUME NEW u \in Ops, u \notin read PROVE TraceInv(u)'
    <3>1. SameTrace(u)
      BY <1>1, <2>1, <2>3, <2>5, <2>6 DEF SameTrace
    <3> QED
      BY <1>1, <3>1, SameTraceKept
  <2>7. ASSUME NEW u \in read PROVE TraceInv(u)'
    <3>1. u \in Ops /\ delta[u] = "queued"
      BY <2>2
    <3>2. submission'[u] \notin Early
      BY <1>1, <3>1 DEF TraceInv, Untouched
    <3>3. ASSUME Undoubted(u), u \notin doubtful' PROVE Undoubted(u)'
      <4>1. \A y \in Senders : y # f => u \notin Held(y)
        BY <2>1, <2>7, <3>3 DEF HeldTwice
      <4>2. \A y \in Senders : u \in Held(y)' => y = f
        BY <2>3, <4>1
      <4>3. applied[u] = 0 /\ (u \in Patches => conflict[u] = "none")
        BY <2>5, <3>1, <3>3, <4>1 DEF Undoubted, Answered, TypeOK
      <4> QED
        BY <1>1, <3>3, <4>2, <4>3 DEF Undoubted
    <3> QED
      BY <1>1, <3>1, <3>2, <3>3 DEF TraceInv
  <2> QED
    BY <2>6, <2>7
<1>4. ASSUME NEW batch \in Batches(f), SendBatch(f, batch) PROVE \A u \in Ops : TraceInv(u)'
  <2>1. /\ ~Waiting(f) /\ delta' = Updated(batch, "syncing")
        /\ todo' = [todo EXCEPT ![f] = @ \ batch] /\ call' = [call EXCEPT ![f].ops = batch]
        /\ UNCHANGED doubtful
    BY <1>4 DEF SendBatch, history
  <2>2. batch \subseteq todo[f] /\ call[f].ops = {} /\ todo[f] \subseteq Ops
    BY <2>1 DEF Batches, Waiting, TypeOK
  <2>3. /\ call'[f].ops = batch /\ todo'[f] = todo[f] \ batch
        /\ \A x \in Senders : x # f => call'[x] = call[x]
        /\ \A g \in Flushers : g # f => todo'[g] = todo[g]
    BY <2>1 DEF TypeOK
  <2>4. ASSUME NEW x \in Senders, x # f PROVE Held(x)' = Held(x)
    BY <1>1, <2>3, <2>4, HeldKept
  <2>5. Held(f)' = Held(f)
    <3>1. Held(f) = todo[f] /\ Held(f)' = todo'[f] \union call'[f].ops
      BY <2>2, HeldBy, HeldByNext
    <3> QED
      BY <2>2, <2>3, <3>1
  <2>6. ASSUME NEW u \in Ops, u \notin batch PROVE TraceInv(u)'
    <3>1. delta'[u] = delta[u]
      BY <2>1, <2>6 DEF Updated
    <3>2. SameTrace(u)
      BY <1>1, <2>2, <2>3, <2>4, <2>5, <3>1 DEF SameTrace
    <3> QED
      BY <1>1, <2>1, <3>2, SameTraceKept
  <2>7. ASSUME NEW u \in batch PROVE TraceInv(u)'
    <3>1. u \in Ops /\ u \in Held(f) /\ u \notin call[f].ops
      BY <2>2, HeldBy
    <3>2. submission'[u] \notin Early
      BY <1>1, <3>1 DEF TraceInv, Untouched
    <3>3. ASSUME Undoubted(u) PROVE Undoubted(u)'
      <4>1. applied[u] = 0 /\ (u \in Patches => conflict[u] = "none")
        BY <3>1, <3>3, HeldUnanswered, HeldHasNoConflict
      <4>2. \A x, y \in Senders : u \in Held(x)' /\ u \in Held(y)' => x = y
        BY <2>4, <2>5, <3>3 DEF Undoubted
      <4> QED
        BY <1>1, <3>3, <4>1, <4>2 DEF Undoubted
    <3> QED
      BY <2>1, <3>1, <3>2, <3>3 DEF TraceInv
  <2> QED
    BY <2>6, <2>7
<1> QED
  BY <1>2, <1>3, <1>4

\* The server takes an operation that is not in doubt once, and answers "ok".
LEMMA ServeTraces ==
    ASSUME TypeOK, SendersInv, NEW x \in Senders, Serve(x), \A u \in Ops : TraceInv(u)
    PROVE  \A u \in Ops : TraceInv(u)'
<1> USE SenderKinds
<1>1. PICK taken \in SUBSET call[x].ops, reply \in Answers :
          Outcome(call[x].ops, taken, reply) /\ Apply(taken) /\ call' = [call EXCEPT ![x].reply = reply]
  BY DEF Serve
<1>2. /\ call[x].reply = None /\ None # "ok"
      /\ UNCHANGED <<submission, delta, conflict, todo, ghosts, doubtful>>
  BY NoneIsNoAnswer DEF Serve, storage, history, Answers
<1>3. /\ \A y \in Senders : call'[y].ops = call[y].ops
      /\ \A y \in Senders : y # x => call'[y] = call[y]
      /\ call'[x].reply = reply
  BY <1>1 DEF TypeOK
<1>4. ASSUME NEW y \in Senders PROVE Held(y)' = Held(y)
  BY <1>2, <1>3, HeldKept
<1>5. taken # {} => reply = "ok"
  BY <1>1 DEF Outcome
<1>6. applied' = [o \in Ops |-> IF o \in taken /\ applied[o] < 2 THEN applied[o] + 1 ELSE applied[o]]
  BY <1>1 DEF Apply
<1>7. ASSUME NEW u \in Ops, u \notin call[x].ops PROVE TraceInv(u)'
  <2>1. SameTrace(u)
    BY <1>2, <1>3, <1>4, <1>6, <1>7 DEF SameTrace
  <2> QED
    BY <1>2, <2>1, SameTraceKept
<1>8. ASSUME NEW u \in Ops, u \in call[x].ops PROVE TraceInv(u)'
  <2>1. u \in Held(x)
    BY <1>8, CallsAreHeld
  <2>2. submission'[u] \notin Early
    BY <1>2, <2>1 DEF TraceInv, Untouched
  <2>3. ASSUME Undoubted(u) PROVE Undoubted(u)'
    <3>1. applied[u] = 0 /\ (u \in Patches => conflict[u] = "none")
      BY <1>2, <2>1, <2>3, HeldUnanswered, HeldHasNoConflict
    <3>2. \A y, z \in Senders : u \in Held(y)' /\ u \in Held(z)' => y = z
      BY <1>4, <2>3 DEF Undoubted
    <3>3. applied'[u] < 2 /\ (applied'[u] > 0 => reply = "ok")
      BY <1>5, <1>6, <3>1
    <3>4. \A y \in Senders : u \in Held(y)' => y = x
      BY <1>4, <2>1, <2>3 DEF Undoubted
    <3>5. applied'[u] > 0 => Answered(u)'
      BY <1>3, <1>4, <1>8, <2>1, <3>3, <3>4 DEF Answered
    <3> QED
      BY <1>2, <2>3, <3>1, <3>2, <3>3, <3>5 DEF Undoubted
  <2> QED
    BY <1>2, <2>2, <2>3 DEF TraceInv
<1> QED
  BY <1>7, <1>8

\* A late request carries operations in doubt only.
LEMMA LateTraces ==
    ASSUME TypeOK, SendersInv, (\E g \in ghosts : ServeLate(g)) \/ WriteElsewhere,
           \A u \in Ops : TraceInv(u)
    PROVE  \A u \in Ops : TraceInv(u)'
<1> USE SenderKinds
<1>1. UNCHANGED <<submission, delta, conflict, todo, call, doubtful>> /\ ghosts' \subseteq ghosts
  BY DEF ServeLate, WriteElsewhere, storage, flows, history
<1>2. ASSUME NEW y \in Senders PROVE Held(y)' = Held(y)
  BY <1>1, HeldKept
<1>3. ASSUME NEW u \in Ops, applied'[u] = applied[u] PROVE TraceInv(u)'
  <2>1. SameTrace(u)
    BY <1>1, <1>2, <1>3 DEF SameTrace
  <2> QED
    BY <1>1, <2>1, SameTraceKept
<1>4. CASE WriteElsewhere
  BY <1>3, <1>4 DEF WriteElsewhere
<1>5. ASSUME NEW g \in ghosts, ServeLate(g) PROVE \A u \in Ops : TraceInv(u)'
  <2>1. \A u \in Ops : u \notin g.ops => applied'[u] = applied[u]
    BY <1>5 DEF ServeLate, Apply
  <2>2. ASSUME NEW u \in Ops, u \in g.ops PROVE TraceInv(u)'
    BY <1>1, <2>2 DEF TraceInv, Untouched, Undoubted
  <2> QED
    BY <1>3, <2>1, <2>2
<1> QED
  BY <1>4, <1>5

\* Closing a conflict removes a row that nobody has in hand, or that is in doubt.
LEMMA ConflictStepTraces ==
    ASSUME TypeOK, SendersInv, \A u \in Ops : TraceInv(u),
           \/ \E p, q \in Patches : ReadLatestItem(p, q)
           \/ \E p \in Patches : ResolveConflict(p)
           \/ \E q \in Patches : CloseForRetry(q)
    PROVE  \A u \in Ops : TraceInv(u)'
<1> USE SenderKinds
<1>1. UNCHANGED <<todo, call, ghosts, applied, doubtful>>
  BY DEF ReadLatestItem, ResolveConflict, CloseForRetry, flows, server, history
<1>2. \A u \in Ops : \/ submission'[u] = submission[u]
                     \/ submission[u] \in {"idle", "reading"} /\ submission'[u] \in {"reading", "direct"}
  BY DEF ReadLatestItem, ResolveConflict, CloseForRetry, flows, TypeOK
<1>3. ASSUME NEW x \in Senders PROVE Held(x)' = Held(x)
  <2>1. CASE x \in Flushers
    BY <1>1, <2>1, HeldKept
  <2>2. CASE x \in Ops
    BY <1>2, <2>2, HeldBy, HeldByNext
  <2> QED
    BY <2>1, <2>2
<1>4. \A u \in Ops : submission'[u] \in Early => submission[u] \in Early
  BY <1>2 DEF Early
<1>5. ASSUME NEW u \in Ops, delta'[u] = delta[u], u \in Patches => conflict'[u] = conflict[u]
      PROVE  TraceInv(u)'
  <2>1. SameTrace(u)
    BY <1>1, <1>3, <1>5 DEF SameTrace
  <2> QED
    BY <1>1, <1>4, <2>1, SameTraceKept
<1>6. ASSUME NEW p \in Patches, conflict[p] # "none", delta' = Removed({p}),
             conflict' = [conflict EXCEPT ![p] = "resolved"]
      PROVE  \A u \in Ops : TraceInv(u)'
  <2>1. delta'[p] = "none" /\ \A u \in Ops : u # p => delta'[u] = delta[u]
    BY <1>6 DEF Removed
  <2>2. conflict'[p] = "resolved" /\ \A u \in Patches : u # p => conflict'[u] = conflict[u]
    BY <1>6 DEF TypeOK
  <2>3. submission'[p] \notin Early
    BY <1>4, <1>6 DEF TraceInv, Untouched
  <2>4. ASSUME Undoubted(p) PROVE Undoubted(p)'
    <3>1. \A x \in Senders : p \notin Held(x)'
      BY <1>3, <1>6, <2>4 DEF Undoubted
    <3> QED
      BY <1>1, <2>1, <2>4, <3>1 DEF Undoubted, Answered
  <2>5. TraceInv(p)'
    BY <1>1, <2>3, <2>4 DEF TraceInv
  <2> QED
    BY <1>5, <2>1, <2>2, <2>5
<1>7. ASSUME NEW p \in Patches, NEW q \in Patches, ReadLatestItem(p, q) PROVE \A u \in Ops : TraceInv(u)'
  BY <1>5, <1>7 DEF ReadLatestItem, storage
<1>8. ASSUME NEW p \in Patches, ResolveConflict(p) PROVE \A u \in Ops : TraceInv(u)'
  BY <1>6, <1>8 DEF ResolveConflict
<1>9. ASSUME NEW q \in Patches, CloseForRetry(q) PROVE \A u \in Ops : TraceInv(u)'
  BY <1>6, <1>9 DEF CloseForRetry, SendersInv
<1> QED
  BY <1>7, <1>8, <1>9

\* A reload leaves nothing in hand, and in doubt what was being sent.
LEMMA PageStepTraces ==
    ASSUME TypeOK, SendersInv, FinishCycle \/ GoOnline \/ GoOffline \/ Reload,
           \A u \in Ops : TraceInv(u)
    PROVE  \A u \in Ops : TraceInv(u)'
<1> USE SenderKinds
<1>1. UNCHANGED <<delta, conflict, applied>>
  BY DEF FinishCycle, GoOnline, GoOffline, Reload, storage, server
<1>2. CASE FinishCycle \/ GoOnline \/ GoOffline
  <2>1. UNCHANGED <<submission, todo, call, ghosts, doubtful>>
    BY <1>2 DEF FinishCycle, GoOnline, GoOffline, flows, history
  <2>2. ASSUME NEW x \in Senders PROVE Held(x)' = Held(x)
    BY <2>1, HeldKept
  <2>3. ASSUME NEW u \in Ops PROVE SameTrace(u)
    BY <1>1, <2>1, <2>2 DEF SameTrace
  <2> QED
    BY <2>1, <2>3, SameTraceKept
<1>3. CASE Reload
  <2>1. /\ \A x \in Senders : call'[x].ops = {}
        /\ \A f \in Flushers : todo'[f] = {}
        /\ \A o \in Ops : submission'[o] \notin {"saved", "sending"}
        /\ \A o \in Ops : submission'[o] \in Early => submission[o] \in Early
    BY <1>3 DEF Reload, NoCall, Early, TypeOK
  <2>2. ASSUME NEW x \in Senders PROVE Held(x)' = {}
    <3>1. CASE x \in Flushers
      BY <2>1, <3>1, HeldByNext
    <3>2. CASE x \in Ops
      BY <2>1, <3>2, HeldByNext
    <3> QED
      BY <3>1, <3>2
  <2>3. /\ \A x \in Senders : call[x].ops \subseteq doubtful'
        /\ doubtful \subseteq doubtful'
    BY <1>3 DEF Reload
  <2>4. \A g \in ghosts' : g \in ghosts \/ \E x \in Senders : g.ops = call[x].ops
    BY <1>3 DEF Reload, Abandon
  <2>5. ASSUME NEW u \in Ops, submission'[u] \in Early PROVE Untouched(u)'
    <3>1. Untouched(u)
      BY <2>1, <2>5 DEF TraceInv
    <3>2. \A g \in ghosts' : u \notin g.ops
      BY <2>4, <3>1, CallsAreHeld DEF Untouched
    <3> QED
      BY <1>1, <2>2, <3>1, <3>2 DEF Untouched
  <2>6. ASSUME NEW u \in Ops, Undoubted(u), u \notin doubtful' PROVE Undoubted(u)'
    <3>1. \A g \in ghosts' : u \notin g.ops
      BY <2>3, <2>4, <2>6 DEF Undoubted
    <3>2. applied[u] > 0 => delta[u] # "queued"
      BY <2>3, <2>6 DEF Undoubted, Answered
    <3> QED
      BY <1>1, <2>2, <2>6, <3>1, <3>2 DEF Undoubted, Answered
  <2> QED
    BY <2>3, <2>5, <2>6 DEF TraceInv
<1> QED
  BY <1>2, <1>3

\* Every step keeps the trace of every operation.
LEMMA TracesKept ==
    ASSUME TypeOK, SendersInv, EarlyInv, DoubtInv, StepCases
    PROVE  EarlyInv' /\ DoubtInv'
<1>1. \A u \in Ops : TraceInv(u)
  BY TraceParts
<1>2. \A u \in Ops : TraceInv(u)'
  BY <1>1, SubmitTraces, ClosingTraces, FlushStepTraces, ServeTraces, LateTraces,
     ConflictStepTraces, PageStepTraces, Zenon
     DEF StepCases
<1> QED
  BY <1>2, TracePartsNext

-----------------------------------------------------------------------------
(* Versions, stored scans and rows.                                          *)

\* A patch is taken on its version only, and moves it.
LEMMA VersionKept ==
    ASSUME TypeOK, SendersInv, EarlyInv, VersionInv, StepCases
    PROVE  VersionInv'
<1> USE SenderKinds
<1>1. ASSUME NEW S \in SUBSET Ops, NEW taken \in SUBSET S, NEW reply,
             Outcome(S, taken, reply), Apply(taken)
      PROVE  VersionInv'
  <2> SUFFICES ASSUME NEW p \in Patches, applied'[p] > 0 PROVE applied'[p] = 1 /\ p \notin fresh'
    BY DEF VersionInv
  <2>1. applied'[p] = (IF p \in taken /\ applied[p] < 2 THEN applied[p] + 1 ELSE applied[p])
        /\ fresh' = (IF taken = {} THEN fresh ELSE {}) /\ applied[p] \in 0 .. 2
    BY <1>1 DEF Apply, TypeOK
  <2>2. CASE p \in taken
    <3>1. taken \subseteq fresh
      BY <1>1, <2>2 DEF Outcome
    <3>2. applied[p] = 0
      BY <2>1, <2>2, <3>1 DEF VersionInv
    <3> QED
      BY <2>1, <2>2, <3>2
  <2>3. CASE p \notin taken
    BY <2>1, <2>3 DEF VersionInv
  <2> QED
    BY <2>2, <2>3
<1>2. ASSUME UNCHANGED applied, fresh' \subseteq fresh PROVE VersionInv'
  BY <1>2 DEF VersionInv
<1>3. ASSUME NEW o \in Ops, submission[o] \in Early, UNCHANGED applied, fresh' \subseteq fresh \union {o}
      PROVE  VersionInv'
  BY <1>3 DEF VersionInv, EarlyInv, Untouched
<1>4. ASSUME NEW o \in Ops, Submit(o) \/ Pause(o) \/ StoreNow(o) \/ LeaveQueued(o) \/ SendNow(o)
      PROVE  VersionInv'
  <2>1. UNCHANGED applied
    BY <1>4 DEF Submit, Pause, StoreNow, Store, LeaveQueued, SendNow, server
  <2>2. CASE Submit(o) \/ Pause(o)
    <3>1. submission[o] \in Early /\ fresh' \subseteq fresh \union {o}
      BY <2>2 DEF Submit, Pause, ShownVersions, Early
    <3> QED
      BY <1>3, <2>1, <3>1
  <2>3. CASE StoreNow(o) \/ LeaveQueued(o) \/ SendNow(o)
    BY <1>2, <2>1, <2>3 DEF StoreNow, LeaveQueued, SendNow, server
  <2> QED
    BY <1>4, <2>2, <2>3
<1>5. ASSUME NEW p \in Patches, NEW q \in Patches, ReadLatestItem(p, q) PROVE VersionInv'
  BY <1>3, <1>5 DEF ReadLatestItem, Early
<1>6. ASSUME NEW x \in Senders, Serve(x) PROVE VersionInv'
  <2>1. call[x].ops \in SUBSET Ops
    BY DEF TypeOK
  <2> QED
    BY <1>1, <1>6, <2>1 DEF Serve
<1>7. ASSUME NEW g \in ghosts, ServeLate(g) PROVE VersionInv'
  <2>1. g.ops \in SUBSET Ops
    BY DEF TypeOK
  <2> QED
    BY <1>1, <1>7, <2>1 DEF ServeLate
<1>8. ASSUME NEW x \in Senders, NEW outcome, Closing(x, outcome) PROVE VersionInv'
  BY <1>2, <1>8 DEF Closing, Finished, server
<1>9. ASSUME NEW f \in Flushers, PressFlush(f) \/ ReadQueued(f) \/ \E batch \in Batches(f) : SendBatch(f, batch)
      PROVE  VersionInv'
  BY <1>2, <1>9 DEF PressFlush, ReadQueued, SendBatch, server
<1>10. ASSUME NEW p \in Patches, ResolveConflict(p) \/ CloseForRetry(p) PROVE VersionInv'
  BY <1>2, <1>10 DEF ResolveConflict, CloseForRetry, server
<1>11. CASE FinishCycle \/ GoOnline \/ GoOffline \/ Reload \/ WriteElsewhere
  BY <1>2, <1>11 DEF FinishCycle, GoOnline, GoOffline, Reload, WriteElsewhere, server
<1> QED
  BY <1>4, <1>5, <1>6, <1>7, <1>8, <1>9, <1>10, <1>11, Zenon DEF StepCases

\* The rows of the database: stored scans, open conflicts, rows under way.
RowsInv == ScansAccounted /\ ConflictRowsResolvable /\ SyncingRowsAreSent

\* A step that writes no row, no record and no request.
LEMMA RowsUntouched ==
    ASSUME TypeOK, SendersInv, RowsInv, UNCHANGED <<delta, conflict, settled, orphans>>,
           \A f \in Flushers : call'[f].ops = call[f].ops,
           \A s \in Scans : submission'[s] \in {"saved", "sending", "over"}
                                => submission[s] \in {"saved", "sending", "over"}
    PROVE  RowsInv'
BY DEF RowsInv, ScansAccounted, ConflictRowsResolvable, SyncingRowsAreSent

LEMMA SubmitRows ==
    ASSUME TypeOK, SendersInv, RowsInv, NEW o \in Ops,
           Submit(o) \/ Pause(o) \/ StoreNow(o) \/ LeaveQueued(o) \/ SendNow(o)
    PROVE  RowsInv'
<1> USE SenderKinds
<1>1. /\ UNCHANGED <<conflict, settled, orphans>>
      /\ \A f \in Flushers : call'[f].ops = call[f].ops
  BY DEF Submit, Pause, StoreNow, Store, LeaveQueued, SendNow, storage, flows, history, TypeOK
<1>2. CASE Submit(o) \/ StoreNow(o)
  <2>1. delta'[o] = "queued" /\ \A u \in Ops : u # o => delta'[u] = delta[u] /\ submission'[u] = submission[u]
    BY <1>2 DEF Submit, StoreNow, Store, Enqueued, TypeOK
  <2> QED
    BY <1>1, <2>1 DEF RowsInv, ScansAccounted, ConflictRowsResolvable, SyncingRowsAreSent
<1>3. CASE Pause(o) \/ LeaveQueued(o) \/ SendNow(o)
  <2>1. UNCHANGED delta
    BY <1>3 DEF Pause, LeaveQueued, SendNow, storage
  <2>2. \A s \in Scans : submission'[s] \in {"saved", "sending", "over"}
                            => submission[s] \in {"saved", "sending", "over"}
    BY <1>3 DEF Pause, LeaveQueued, SendNow, TypeOK
  <2> QED
    BY <1>1, <2>1, <2>2, RowsUntouched
<1> QED
  BY <1>2, <1>3

LEMMA ClosingRows ==
    ASSUME TypeOK, SendersInv, EarlyInv, RowsInv, NEW x \in Senders, NEW outcome, Waiting(x),
           Closing(x, outcome)
    PROVE  RowsInv'
<1> USE SenderKinds
<1>1. PICK state \in {"none", "queued", "conflict"} :
          /\ delta' = [o \in Ops |-> IF o \in call[x].ops /\ delta[o] # "none"
                                     THEN state ELSE delta[o]]
          /\ state = "none" => call[x].ops \intersect Scans \subseteq settled'
          /\ conflict' = [p \in Patches |-> IF p \in call[x].ops /\ state = "conflict"
                                            THEN "open" ELSE conflict[p]]
          /\ state = "conflict" => call[x].ops \subseteq Patches
  BY DEF Closing, Finished
<1>2. /\ \A y \in Senders : y # x => call'[y] = call[y]
      /\ UNCHANGED orphans /\ settled \subseteq settled'
  BY DEF Closing, Finished, TypeOK
<1>3. ScansAccounted'
  <2> SUFFICES ASSUME NEW s \in Scans, submission'[s] \in {"saved", "sending", "over"}
               PROVE  delta'[s] # "none" \/ s \in settled'
    BY DEF ScansAccounted
  <2>1. CASE s \in call[x].ops
    <3>1. s \in Held(x)
      BY <2>1, CallsAreHeld
    <3>2. submission[s] \notin Early
      BY <3>1 DEF EarlyInv, Untouched
    <3>3. delta[s] # "none" \/ s \in settled
      BY <3>2 DEF RowsInv, ScansAccounted, Early, TypeOK, SubmissionStates
    <3> QED
      BY <1>1, <1>2, <2>1, <3>3
  <2>2. CASE s \notin call[x].ops
    <3>1. submission'[s] = submission[s]
      BY <2>2 DEF Closing, Finished, TypeOK, SendersInv, Waiting
    <3> QED
      BY <1>1, <1>2, <2>2, <3>1 DEF RowsInv, ScansAccounted
  <2> QED
    BY <2>1, <2>2
<1>4. ConflictRowsResolvable'
  BY <1>1 DEF RowsInv, ConflictRowsResolvable
<1>5. SyncingRowsAreSent'
  BY <1>1, <1>2 DEF RowsInv, SyncingRowsAreSent
<1> QED
  BY <1>3, <1>4, <1>5 DEF RowsInv

LEMMA SendBatchRows ==
    ASSUME TypeOK, SendersInv, RowsInv, NEW f \in Flushers, NEW batch \in Batches(f), SendBatch(f, batch)
    PROVE  RowsInv'
<1> USE SenderKinds
<1>1. /\ ~Waiting(f) /\ delta' = Updated(batch, "syncing") /\ batch \subseteq Ops
      /\ call' = [call EXCEPT ![f].ops = batch]
      /\ UNCHANGED <<submission, settled, orphans, conflict>>
  BY DEF SendBatch, Batches, history, TypeOK
<1>2. /\ call[f].ops = {} /\ call'[f].ops = batch /\ \A g \in Flushers : g # f => call'[g] = call[g]
  BY <1>1 DEF Waiting, TypeOK
<1>3. \A o \in Ops : delta'[o] = IF o \in batch /\ delta[o] # "none" THEN "syncing" ELSE delta[o]
  BY <1>1 DEF Updated
<1>4. ScansAccounted' /\ ConflictRowsResolvable'
  BY <1>1, <1>3 DEF RowsInv, ScansAccounted, ConflictRowsResolvable
<1>5. SyncingRowsAreSent'
  BY <1>1, <1>2, <1>3 DEF RowsInv, SyncingRowsAreSent
<1> QED
  BY <1>4, <1>5 DEF RowsInv

\* Every step keeps the rows accounted for.
LEMMA RowsKept ==
    ASSUME TypeOK, SendersInv, EarlyInv, RowsInv, StepCases
    PROVE  RowsInv'
<1> USE SenderKinds
<1>1. ASSUME NEW f \in Flushers, PressFlush(f) \/ ReadQueued(f) PROVE RowsInv'
  <2>1. UNCHANGED <<delta, conflict, settled, orphans, call, submission>>
    BY <1>1 DEF PressFlush, ReadQueued, storage, history
  <2> QED
    BY <2>1, RowsUntouched
<1>2. ASSUME (\E x \in Senders : Serve(x)) \/ (\E g \in ghosts : ServeLate(g)) \/ WriteElsewhere
      PROVE  RowsInv'
  <2>1. UNCHANGED <<delta, conflict, settled, orphans, submission>>
    BY <1>2 DEF Serve, ServeLate, WriteElsewhere, storage, flows, history
  <2>2. \A f \in Flushers : call'[f].ops = call[f].ops
    BY <1>2 DEF Serve, ServeLate, WriteElsewhere, flows, TypeOK
  <2> QED
    BY <2>1, <2>2, RowsUntouched
<1>3. ASSUME NEW p \in Patches, delta' = Removed({p}), conflict' = [conflict EXCEPT ![p] = "resolved"],
             UNCHANGED <<settled, orphans, call>>,
             \A s \in Scans : submission'[s] = submission[s]
      PROVE  RowsInv'
  <2>1. \A o \in Ops : delta'[o] = IF o = p THEN "none" ELSE delta[o]
    BY <1>3 DEF Removed
  <2>2. \A q \in Patches : q # p => conflict'[q] = conflict[q]
    BY <1>3 DEF TypeOK
  <2> QED
    BY <1>3, <2>1, <2>2 DEF RowsInv, ScansAccounted, ConflictRowsResolvable, SyncingRowsAreSent
<1>4. ASSUME NEW p \in Patches, ResolveConflict(p) PROVE RowsInv'
  BY <1>3, <1>4 DEF ResolveConflict, flows, history
<1>5. ASSUME NEW q \in Patches, CloseForRetry(q) PROVE RowsInv'
  <2>1. retryOf[q] \in Patches /\ \A s \in Scans : submission'[s] = submission[s]
    BY <1>5 DEF CloseForRetry, SendersInv, TypeOK
  <2> QED
    BY <1>3, <1>5, <2>1 DEF CloseForRetry, history
<1>6. ASSUME NEW p \in Patches, NEW q \in Patches, ReadLatestItem(p, q) PROVE RowsInv'
  <2>1. \A s \in Scans : submission'[s] = submission[s]
    BY <1>6 DEF ReadLatestItem, TypeOK
  <2> QED
    BY <1>6, <2>1, RowsUntouched DEF ReadLatestItem, storage, history
<1>7. ASSUME FinishCycle \/ GoOnline \/ GoOffline PROVE RowsInv'
  <2>1. UNCHANGED <<delta, conflict, settled, orphans, call, submission>>
    BY <1>7 DEF FinishCycle, GoOnline, GoOffline, storage, flows, history
  <2> QED
    BY <2>1, RowsUntouched
<1>8. ASSUME Reload PROVE RowsInv'
  <2>1. UNCHANGED <<delta, conflict, settled>> /\ orphans' = orphans \union {o \in Ops : delta[o] = "syncing"}
    BY <1>8 DEF Reload, storage
  <2>2. \A s \in Scans : submission'[s] \in {"saved", "sending", "over"}
                            => submission[s] \in {"saved", "sending", "over"}
    BY <1>8 DEF Reload, TypeOK
  <2> QED
    BY <2>1, <2>2 DEF RowsInv, ScansAccounted, ConflictRowsResolvable, SyncingRowsAreSent
<1>9. ASSUME NEW x \in Senders, NEW outcome, Waiting(x), Closing(x, outcome) PROVE RowsInv'
  BY <1>9, ClosingRows
<1> QED
  BY <1>1, <1>2, <1>4, <1>5, <1>6, <1>7, <1>8, <1>9, SubmitRows, SendBatchRows, Zenon DEF StepCases

-----------------------------------------------------------------------------
(* The theorems.                                                             *)

LEMMA InitInv == Init => StocktakeInv
<1> SUFFICES ASSUME Init PROVE StocktakeInv
  OBVIOUS
<1> USE SenderKinds
<1>1. TypeOK
  <2>1. RowTypes
    BY DEF Init, RowTypes, DeltaStates, SubmissionStates
  <2>2. FlushTypes
    <3>1. online \in BOOLEAN /\ running = online /\ replay = FALSE /\ flush = StartedFlushes
          /\ todo = [f \in Flushers |-> {}]
      BY DEF Init
    <3>2. StartedFlushes \in [Flushers -> {"off", "begin", "run"}]
      BY DEF StartedFlushes
    <3> QED
      BY <3>1, <3>2 DEF FlushTypes
  <2>3. CallTypes
    BY DEF Init, CallTypes, NoCall
  <2>4. ServerTypes
    BY OfflineConstants DEF Init, ServerTypes
  <2> QED
    BY <2>1, <2>2, <2>3, <2>4, TypeParts
<1>2. /\ \A x \in Senders : call[x].ops = {}
      /\ \A f \in Flushers : todo[f] = {}
      /\ \A o \in Ops : submission[o] = "idle" /\ delta[o] = "none" /\ applied[o] = 0
      /\ \A p \in Patches : conflict[p] = "none"
      /\ ghosts = {}
  BY DEF Init, NoCall
<1>3. SendersInv
  BY <1>2 DEF SendersInv, Init, StartedFlushes
<1>4. ASSUME NEW x \in Senders PROVE Held(x) = {}
  BY <1>2, HeldBy
<1>5. EarlyInv /\ DoubtInv
  BY <1>2, <1>4 DEF EarlyInv, DoubtInv, Untouched, Undoubted
<1>6. VersionInv /\ ScansAccounted /\ ConflictRowsResolvable /\ SyncingRowsAreSent
  BY <1>2 DEF VersionInv, ScansAccounted, ConflictRowsResolvable, SyncingRowsAreSent
<1> QED
  BY <1>1, <1>3, <1>5, <1>6 DEF StocktakeInv

LEMMA StutterInv ==
    ASSUME StocktakeInv, UNCHANGED vars
    PROVE  StocktakeInv'
<1>1. UNCHANGED <<online, running, replay, delta, conflict, submission, retryOf, flush, todo, call,
                  ghosts, fresh, applied, settled, doubtful, orphans, faults>>
  BY DEF vars, browser, storage, flows, server, history
<1>2. TypeOK' /\ SendersInv' /\ VersionInv'
  BY <1>1 DEF StocktakeInv, TypeOK, SendersInv, VersionInv
<1>3. EarlyInv' /\ DoubtInv'
  BY <1>1 DEF StocktakeInv, EarlyInv, DoubtInv, Untouched, Undoubted, Answered, Held
<1>4. ScansAccounted' /\ ConflictRowsResolvable' /\ SyncingRowsAreSent'
  BY <1>1 DEF StocktakeInv, ScansAccounted, ConflictRowsResolvable, SyncingRowsAreSent
<1> QED
  BY <1>2, <1>3, <1>4 DEF StocktakeInv

\* StocktakeInv is inductive: it holds of a new tab and every step keeps it.
THEOREM StocktakeInductive == Spec => []StocktakeInv
<1>1. StocktakeInv /\ Next => StocktakeInv'
  <2> SUFFICES ASSUME StocktakeInv, Next PROVE StocktakeInv'
    OBVIOUS
  <2>1. TypeOK /\ SendersInv /\ EarlyInv /\ DoubtInv /\ VersionInv /\ RowsInv
    BY DEF StocktakeInv, RowsInv
  <2>2. StepCases
    BY <2>1, StepsAre
  <2>3. TypeOK' /\ SendersInv' /\ EarlyInv' /\ DoubtInv' /\ VersionInv'
    BY <2>1, <2>2, TypesKept, SendersKept, TracesKept, VersionKept
  <2>4. RowsInv'
    BY <2>1, <2>2, RowsKept
  <2> QED
    BY <2>3, <2>4 DEF StocktakeInv, RowsInv
<1>2. StocktakeInv /\ UNCHANGED vars => StocktakeInv'
  BY StutterInv
<1> QED
  BY InitInv, <1>1, <1>2, PTL DEF Spec

\* The variables keep their types.
THEOREM StocktakeTypes == Spec => []TypeOK
BY StocktakeInductive, PTL DEF StocktakeInv

\* A stored scan stays in the browser's database until a request with it was
\* acknowledged or its refusal was shown to the user.
THEOREM StoredScansAreAccounted == Spec => []ScansAccounted
BY StocktakeInductive, PTL DEF StocktakeInv

\* A row in conflict has an open record.
THEOREM ConflictsAreResolvable == Spec => []ConflictRowsResolvable
BY StocktakeInductive, PTL DEF StocktakeInv

\* No flush leaves a row behind in 'syncing'; only a reload does.
THEOREM SyncingRowsAreCarried == Spec => []SyncingRowsAreSent
BY StocktakeInductive, PTL DEF StocktakeInv

\* However often a patch is sent, the server takes it at most once.
THEOREM PatchesAreTakenOnce == Spec => []PatchTakenOnce
<1>1. StocktakeInv => PatchTakenOnce
  <2> SUFFICES ASSUME StocktakeInv, NEW p \in Patches PROVE applied[p] < 2
    BY DEF PatchTakenOnce
  <2>1. applied[p] \in 0 .. 2 /\ (applied[p] > 0 => applied[p] = 1)
    BY SenderKinds DEF StocktakeInv, TypeOK, VersionInv
  <2> QED
    BY <2>1
<1> QED
  BY <1>1, StocktakeInductive, PTL

\* A scan counts twice only after an answer to it was lost or while two senders had it.
THEOREM DoubleCountsAreInDoubt == Spec => []DoubleCountOnlyInDoubt
<1>1. StocktakeInv => DoubleCountOnlyInDoubt
  BY SenderKinds DEF StocktakeInv, DoubtInv, Undoubted, DoubleCountOnlyInDoubt
<1> QED
  BY <1>1, StocktakeInductive, PTL

\* No request with a patch whose conflict is closed reaches the server, unless it is
\* in doubt.
THEOREM ClosedPatchesStayOut == Spec => ClosedPatchStaysOut
<1> DEFINE A == \A p \in Patches :
                    applied'[p] > applied[p] /\ conflict[p] = "resolved" => p \in doubtful
<1>1. ASSUME StocktakeInv, Next, NEW p \in Patches,
             applied'[p] > applied[p], conflict[p] = "resolved", p \notin doubtful
      PROVE  FALSE
  <2>0. TypeOK /\ SendersInv /\ p \in Ops
    BY <1>1, SenderKinds DEF StocktakeInv
  <2>1. StepCases
    BY <1>1, <2>0, StepsAre
  <2>2. applied[p] \in 0 .. 2
    BY <2>0 DEF TypeOK
  <2>3. applied' # applied
    BY <1>1, <2>2
  <2>4. (\E x \in Senders : Serve(x)) \/ (\E g \in ghosts : ServeLate(g))
    BY <2>1, <2>3
       DEF StepCases, Submit, Pause, StoreNow, Store, LeaveQueued, SendNow, CloseForRetry, Closing,
           Finished, PressFlush, ReadQueued, SendBatch, ReadLatestItem, ResolveConflict, FinishCycle,
           GoOnline, GoOffline, Reload, WriteElsewhere, server
  <2>5. /\ \A x \in Senders : p \notin Held(x)
        /\ \A g \in ghosts : p \notin g.ops
    BY <1>1, <2>0 DEF StocktakeInv, DoubtInv, Undoubted
  <2>6. ASSUME NEW taken, p \notin taken, Apply(taken) PROVE applied'[p] = applied[p]
    BY <2>0, <2>6 DEF Apply
  <2>7. \A x \in Senders : p \notin call[x].ops
    BY <2>0, <2>5, CallsAreHeld
  <2>8. applied'[p] = applied[p]
    BY <2>4, <2>5, <2>6, <2>7 DEF Serve, ServeLate
  <2> QED
    BY <1>1, <2>2, <2>8
<1>2. StocktakeInv /\ Next => A
  BY <1>1
<1> HIDE DEF A
<1>3. StocktakeInv /\ [Next]_vars => [A]_vars
  BY <1>2
<1>4. Spec => [][A]_vars
  BY <1>3, StocktakeInductive, PTL DEF Spec
<1> QED
  BY <1>4 DEF A, ClosedPatchStaysOut

=============================================================================
