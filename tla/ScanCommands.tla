----------------------------- MODULE ScanCommands -----------------------------
(***************************************************************************)
(* Production scans, executed once: the browser gives every command a key     *)
(* that it keeps, in the page and in sessionStorage, until an answer settles  *)
(* the command, and the server keeps a receipt of every key it has executed.  *)
(*                                                                         *)
(* One browser tab, through reloads, an expired session and signing out.  A   *)
(* command is <<content, n>>: the n-th time that its operator means this      *)
(* content.  Repeating a content that was not settled is the same command.   *)
(* The keys are those the page draws; a request whose content is in flight    *)
(* already joins it and changes nothing.                                    *)
(***************************************************************************)
EXTENDS ApiClient

CONSTANTS
    Contents,   \* requests without their key
    MaxKeys     \* bound: keys drawn

ASSUME ScanConstants == MaxKeys \in Nat

Keys == 1 .. MaxKeys
MaxSends == MaxKeys * (MaxFaults + 1)
Requests == 1 .. MaxSends
Commands == Contents \X Keys

VARIABLES
    storage,   \* whether the browser lets the page use sessionStorage
    memory,    \* pendingRequestKeys, 0 where there is none
    stored,    \* the same map in sessionStorage
    awaits,    \* inFlightProductionScanCommands: the request of each content, or 0
    request,   \* the requests sent
    status,    \* where each request is
    issued,    \* how many keys were drawn
    sends,     \* how many requests were sent
    receipts,  \* keys with a ProductionExecutionCommandRequestReceipt
    intent,    \* history: the command that the operator means by each content
    owner,     \* history: the command each key was drawn for
    executed,  \* history: how often the server carried out each command
    told,      \* history: what the operator was told of each command
    doubtful   \* history: commands with a request whose answer did not tell
               \* what became of it: none came, it was not read, or it said 5xx for
               \* a command that was carried out

tab == <<storage, memory, stored, awaits>>
requests == <<request, status, sends>>
history == <<intent, owner, executed, told, doubtful>>
vars == <<client, faults, tab, requests, issued, receipts, history>>

NoCommand == << >>
NoRequest == [key |-> 0, session |-> 0]
NoKeys == [c \in Contents |-> 0]
Replies == {"ok", "refused", "error", "unauthorized", "unknown"}

Init ==
    /\ ClientInit
    /\ storage \in BOOLEAN
    /\ memory = NoKeys /\ stored = NoKeys /\ awaits = NoKeys
    /\ request = [i \in Requests |-> NoRequest]
    /\ status = [i \in Requests |-> "unsent"]
    /\ issued = 0 /\ sends = 0
    /\ receipts = {}
    /\ intent = [c \in Contents |-> 1]
    /\ owner = [k \in Keys |-> NoCommand]
    /\ executed = [i \in Commands |-> 0]
    /\ told = [i \in Commands |-> "open"]
    /\ doubtful = {}

-----------------------------------------------------------------------------
(* The keys of the tab.                                                      *)

\* Mutant: what a page before this one stored is not read.
MemoryOnly == memory

\* readPendingProductionScanRequestKeys: stored keys are written over the page's.
Pending == [c \in Contents |-> IF stored[c] # 0 THEN stored[c] ELSE memory[c]]

\* persistPendingProductionScanRequestKeys.
Keep(keys) == memory' = keys /\ stored' = IF storage THEN keys ELSE stored

\* prepareProductionScanCommandRequestForRetry: the key of the content, or a new one.
KeyFor(c) == IF Pending[c] # 0 THEN Pending[c] ELSE issued + 1

Prepare(c) ==
    /\ KeyFor(c) \in Keys
    /\ Keep([Pending EXCEPT ![c] = KeyFor(c)])
    /\ IF Pending[c] # 0
       THEN UNCHANGED <<issued, owner>>
       ELSE /\ issued' = issued + 1
            /\ owner' = [owner EXCEPT ![issued + 1] = <<c, intent[c]>>]

\* releaseCompletedProductionScanCommandRetryKey.
Release(c, key) ==
    IF Pending[c] = key
    THEN Keep([Pending EXCEPT ![c] = 0])
    ELSE memory' = Pending /\ UNCHANGED stored

-----------------------------------------------------------------------------
(* productionScanCommandService.execute.                                     *)

\* The operator confirms a command, or repeats one that was not settled.
Send(c) ==
    /\ awaits[c] = 0 /\ sends < MaxSends
    /\ Admits /\ PassBreaker
    /\ token # 0
    /\ Prepare(c)
    /\ sends' = sends + 1
    /\ request' = [request EXCEPT ![sends + 1] = [key |-> KeyFor(c), session |-> token]]
    /\ status' = [status EXCEPT ![sends + 1] = "sent"]
    /\ awaits' = [awaits EXCEPT ![c] = sends + 1]
    /\ UNCHANGED <<session, faults, storage, receipts, intent, executed, told, doubtful>>

\* apiFetch ends the request before it is sent: the breaker is open, or there is no
\* token.  The key stays.
HoldBack(c) ==
    /\ awaits[c] = 0
    /\ \/ ~Admits /\ BlockAtBreaker
       \/ Admits /\ token = 0 /\ PassBreaker
    /\ Prepare(c)
    /\ UNCHANGED <<session, faults, storage, awaits, requests, receipts, intent, executed,
                   told, doubtful>>

\* An answer of 200, 400, 403 or 409 settles the command; what else may happen leaves
\* its key.
Settles(reply) == reply \in {"ok", "refused"}

Receive(c) ==
    /\ awaits[c] # 0
    /\ LET i == awaits[c]
           key == request[i].key
           reply == status[i]
       IN
       /\ reply \in Replies
       /\ IF reply = "error" THEN CountFailure ELSE ResetBreaker
       /\ IF reply = "unauthorized"
          THEN HandleUnauthorized(request[i].session) ELSE UNCHANGED session
       /\ IF Settles(reply)
          THEN /\ Release(c, key)
               /\ told' = [told EXCEPT ![owner[key]] = reply]
               /\ intent' = [intent EXCEPT ![c] = @ + 1]
          ELSE UNCHANGED <<memory, stored, told, intent>>
       /\ status' = [status EXCEPT ![i] = "over"]
    /\ awaits' = [awaits EXCEPT ![c] = 0]
    /\ UNCHANGED <<faults, storage, request, sends, issued, receipts, owner, executed,
                   doubtful>>

\* The timeout of apiFetch, a failed fetch, or an answer of 200 that cannot be read.  The
\* breaker counts a failed fetch by the words of one browser only ('Failed to fetch'),
\* and the unreadable answer not at all.  The request may reach the server yet.
GiveUp(c) ==
    /\ awaits[c] # 0 /\ Fault
    /\ CountFailure \/ UNCHANGED breaker
    /\ doubtful' = doubtful \union {owner[request[awaits[c]].key]}
    /\ status' = [status EXCEPT ![awaits[c]] = IF @ = "sent" THEN "sent" ELSE "over"]
    /\ awaits' = [awaits EXCEPT ![c] = 0]
    /\ UNCHANGED <<session, storage, memory, stored, request, sends, issued, receipts,
                   intent, owner, executed, told>>

\* The page is loaded anew: by its user, or on leaving for the sign-in page.  Without
\* sessionStorage its keys are gone, and what the operator repeats is a new command.
Reload ==
    /\ IF leaving THEN UNCHANGED faults ELSE Fault
    /\ LoadClient
    /\ memory' = NoKeys /\ awaits' = NoKeys
    /\ status' = [i \in Requests |-> IF status[i] \in Replies THEN "over" ELSE status[i]]
    /\ doubtful' = doubtful \union
                       {owner[request[awaits[c]].key] : c \in {d \in Contents : awaits[d] # 0}}
    /\ intent' = [c \in Contents |->
                     IF ~storage /\ memory[c] # 0 THEN intent[c] + 1 ELSE intent[c]]
    /\ UNCHANGED <<storage, stored, request, sends, issued, receipts, owner, executed, told>>

-----------------------------------------------------------------------------
(* The server.                                                               *)

\* Mutant: the receipt is not looked for.
NeverReceipted(key) == FALSE

Receipted(key) == key \in receipts

\* An answer is of use only to a page that waits for it.
Answer(i, reply) ==
    status' = [status EXCEPT
                  ![i] = IF \E c \in Contents : awaits[c] = i THEN reply ELSE "over"]

\* executeProductionCommandWithRequestReplayTx: with a receipt, the answer is read from
\* it.
Replay(i) ==
    /\ Receipted(request[i].key)
    /\ Answer(i, "ok")
    /\ UNCHANGED <<faults, receipts, executed, doubtful>>

\* Without one, the command and its receipt are committed together; a gateway may
\* still answer 5xx for it.
Run(i) ==
    LET key == request[i].key IN
    /\ ~Receipted(key)
    /\ receipts' = receipts \union {key}
    /\ executed' = [executed EXCEPT ![owner[key]] = @ + 1]
    /\ \/ Answer(i, "ok") /\ UNCHANGED <<faults, doubtful>>
       \/ /\ Answer(i, "error") /\ Fault
          /\ doubtful' = doubtful \union {owner[key]}

\* Mutant: a refused command keeps what it has written.
RunAndRefuse(i) ==
    /\ receipts' = receipts \union {request[i].key}
    /\ executed' = [executed EXCEPT ![owner[request[i].key]] = 1]
    /\ Answer(i, "refused")
    /\ UNCHANGED <<faults, doubtful>>

\* 400, 403 or 409: by the routes and the handler before the receipt is looked for, or
\* by the command, whose transaction is rolled back with its receipt.
TurnDown(i) ==
    /\ Answer(i, "refused")
    /\ UNCHANGED <<faults, receipts, executed, doubtful>>

\* 500 with everything rolled back, 401 from the middleware, or an answer the tab does not
\* know (429 from the middleware, 404 from a proxy).
Fail(i, reply) ==
    /\ Fault /\ Answer(i, reply)
    /\ UNCHANGED <<receipts, executed, doubtful>>

Serve(i) ==
    /\ status[i] = "sent"
    /\ \/ Replay(i) \/ Run(i) \/ TurnDown(i)
       \/ \E reply \in {"error", "unauthorized", "unknown"} : Fail(i, reply)
    /\ UNCHANGED <<client, tab, request, sends, issued, intent, owner, told>>

-----------------------------------------------------------------------------
\* The rest of the application, and the user's session.
Elsewhere ==
    /\ \/ OtherAnswer \/ OtherFailure \/ Cool
       \/ SignIn \/ SignOut
       \/ \E t \in live : QueryUnauthorized(t)
    /\ UNCHANGED <<tab, requests, issued, receipts, history>>

Next ==
    \/ \E c \in Contents : Send(c) \/ HoldBack(c) \/ Receive(c) \/ GiveUp(c)
    \/ Reload
    \/ \E i \in Requests : Serve(i)
    \/ Elsewhere

Spec == Init /\ [][Next]_vars

(***************************************************************************)
(* Liveness is a promise to an operator who signs in again and repeats what   *)
(* was not settled, on a server that answers (but for MaxFaults).            *)
(***************************************************************************)
Round(c) ==
    \/ Pending[c] # 0 /\ Send(c)
    \/ awaits[c] # 0 /\ Serve(awaits[c])
    \/ Receive(c)
Unlock == Cool /\ UNCHANGED <<tab, requests, issued, receipts, history>>
Return == SignIn /\ UNCHANGED <<tab, requests, issued, receipts, history>>
Leave == leaving /\ Reload

FairSpec ==
    /\ Spec
    /\ \A c \in Contents : WF_vars(Round(c))
    /\ WF_vars(Unlock) /\ WF_vars(Return) /\ WF_vars(Leave)

-----------------------------------------------------------------------------
RequestRecords == [key : Keys, session : Nat]

TypeOK ==
    /\ ClientTypeOK
    /\ storage \in BOOLEAN
    /\ memory \in [Contents -> 0 .. MaxKeys]
    /\ stored \in [Contents -> 0 .. MaxKeys]
    /\ awaits \in [Contents -> 0 .. MaxSends]
    /\ request \in [Requests -> RequestRecords \union {NoRequest}]
    /\ status \in [Requests -> Replies \union {"unsent", "sent", "over"}]
    /\ issued \in 0 .. MaxKeys /\ sends \in 0 .. MaxSends
    /\ receipts \subseteq Keys
    /\ intent \in [Contents -> 1 .. MaxKeys + 1]
    /\ owner \in [Keys -> Commands \union {NoCommand}]
    /\ executed \in [Commands -> Nat]
    /\ told \in [Commands -> {"open", "ok", "refused"}]
    /\ doubtful \subseteq Commands

\* A command has one key, however often it is repeated, held back, reloaded or
\* answered late: the server can tell a repetition from a new command.
OneKeyPerCommand ==
    \A k, l \in 1 .. issued : owner[k] = owner[l] => k = l

Once == INSTANCE CommandOnce WITH Commands <- Commands, executed <- executed, told <- told

\* The tab, its lost and late requests and the server's receipts together keep the
\* promise of CommandOnce.
AtMostOnce == Once!Spec

\* A command its operator was told is refused was not carried out and will not be: what
\* it had written is rolled back with its receipt.  Excepted are commands in doubt: a
\* request that the tab has given up may be carried out before or after the refusal of
\* another, and a gateway may answer 5xx for one that was.
RefusedMeansNotExecuted ==
    \A i \in Commands : told[i] = "refused" /\ executed[i] > 0 => i \in doubtful

\* A command that is repeated is settled in the end: neither the breaker, nor an
\* expired session, nor a kept key stands in its way.
CommandSettles ==
    \A c \in Contents : Pending[c] # 0 ~> Pending[c] = 0

=============================================================================
