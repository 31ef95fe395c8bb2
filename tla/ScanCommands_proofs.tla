-------------------------- MODULE ScanCommands_proofs --------------------------
(***************************************************************************)
(* Theorems about ScanCommands, for every value of its constants: its types,  *)
(* OneKeyPerCommand, and that it implements CommandOnce.                    *)
(*                                                                         *)
(* Two invariants carry them.  KeyInv is about the keys of the tab: while a   *)
(* command is open its key is the one the tab remembers, so a new key is      *)
(* drawn only for a command that has none.  FlowInv is about requests and     *)
(* receipts: every request carries a key that was drawn, the awaited one the  *)
(* key of the open command, and a receipt is there exactly for a command that *)
(* was executed.                                                            *)
(***************************************************************************)
EXTENDS ScanCommands, TLAPS

KeyTypes ==
    /\ storage \in BOOLEAN
    /\ memory \in [Contents -> 0 .. MaxKeys]
    /\ stored \in [Contents -> 0 .. MaxKeys]
    /\ issued \in 0 .. MaxKeys
    /\ owner \in [Keys -> Commands \union {NoCommand}]
    /\ intent \in [Contents -> 1 .. MaxKeys + 1]

\* What a reload leaves in memory is nothing, what it may use is what is stored.
StorageAgrees ==
    /\ storage => \A c \in Contents : memory[c] \in {0, stored[c]}
    /\ ~storage => \A c \in Contents : stored[c] = 0

\* A remembered key is that of the open command, and an open command that has a key
\* is remembered with it.
PendingOwned ==
    \A c \in Contents : Pending[c] # 0 =>
        /\ Pending[c] \in 1 .. issued
        /\ owner[Pending[c]] = <<c, intent[c]>>
        /\ intent[c] <= issued
KeyPending ==
    \A k \in 1 .. issued : \A c \in Contents :
        owner[k] = <<c, intent[c]>> => Pending[c] = k

OwnersMeant ==
    \A k \in 1 .. issued : \E c \in Contents, n \in Keys :
        owner[k] = <<c, n>> /\ n <= intent[c]

IntentBounded == \A c \in Contents : intent[c] <= issued + 1

KeyInv ==
    /\ KeyTypes /\ StorageAgrees /\ PendingOwned /\ KeyPending
    /\ OwnersMeant /\ IntentBounded /\ OneKeyPerCommand

keyVars == <<storage, memory, stored, issued, owner, intent>>

(* Requests, receipts and what was told.                                      *)

FlowTypes ==
    /\ awaits \in [Contents -> 0 .. MaxSends]
    /\ request \in [Requests -> RequestRecords \union {NoRequest}]
    /\ status \in [Requests -> Replies \union {"unsent", "sent", "over"}]
    /\ sends \in 0 .. MaxSends
    /\ receipts \subseteq 1 .. issued
    /\ executed \in [Commands -> {0, 1}]
    /\ told \in [Commands -> {"open", "ok", "refused"}]
    /\ doubtful \subseteq Commands

\* The requests sent carry a key that was drawn.
RequestsKeyed ==
    \A i \in Requests :
        IF i <= sends THEN request[i].key \in 1 .. issued ELSE status[i] = "unsent"

\* The request a content awaits carries the key in use.
AwaitedCurrent ==
    \A c \in Contents : awaits[c] # 0 =>
        /\ awaits[c] <= sends /\ status[awaits[c]] # "unsent"
        /\ Pending[c] # 0 /\ request[awaits[c]].key = Pending[c]

\* A receipt is there exactly for a command that was executed.
ReceiptsExecuted ==
    /\ \A k \in receipts : executed[owner[k]] = 1
    /\ \A i \in Commands : executed[i] = 1 => \E k \in receipts : owner[k] = i

\* Only a command with a receipt is answered for.
OkReceipted ==
    \A i \in Requests : status[i] = "ok" => request[i].key \in receipts
ToldExecuted ==
    \A i \in Commands : told[i] = "ok" => executed[i] = 1

\* Nothing was told yet of the open commands and those after them.
OpenUntold ==
    \A i \in Commands : i[2] >= intent[i[1]] => told[i] = "open"

\* A request under way that nobody awaits ended in doubt; a command with a receipt is
\* in doubt, acknowledged, or about to be.
StraysDoubtful ==
    \A i \in Requests : status[i] = "sent" =>
        \/ \E c \in Contents : awaits[c] = i
        \/ owner[request[i].key] \in doubtful
ReceiptsTold ==
    \A k \in receipts :
        \/ owner[k] \in doubtful
        \/ told[owner[k]] = "ok"
        \/ \E c \in Contents :
              awaits[c] # 0 /\ request[awaits[c]].key = k /\ status[awaits[c]] = "ok"

FlowInv ==
    /\ FlowTypes /\ RequestsKeyed /\ AwaitedCurrent /\ ReceiptsExecuted
    /\ OkReceipted /\ ToldExecuted /\ OpenUntold /\ StraysDoubtful /\ ReceiptsTold

IInv == ClientTypeOK /\ KeyInv /\ FlowInv

-----------------------------------------------------------------------------
(* Lemmas on the keys of the tab.                                            *)

\* The keys in use are keys, and without storage they are those in memory.
LEMMA PendingTyped ==
    ASSUME KeyTypes
    PROVE  Pending \in [Contents -> 0 .. MaxKeys]
BY DEF KeyTypes, Pending

\* What is kept is what is in use afterwards.
LEMMA KeepPending ==
    ASSUME KeyTypes, StorageAgrees, NEW keys \in [Contents -> 0 .. MaxKeys], Keep(keys),
           UNCHANGED storage
    PROVE  /\ Pending' = keys /\ StorageAgrees'
           /\ memory' \in [Contents -> 0 .. MaxKeys] /\ stored' \in [Contents -> 0 .. MaxKeys]
<1>1. CASE storage
  <2>1. memory' = keys /\ stored' = keys
    BY <1>1 DEF Keep
  <2>2. Pending' = keys
    BY <2>1 DEF Pending
  <2> QED  BY <1>1, <2>1, <2>2 DEF StorageAgrees
<1>2. CASE ~storage
  <2>1. memory' = keys /\ stored' = stored /\ \A c \in Contents : stored[c] = 0
    BY <1>2 DEF Keep, StorageAgrees
  <2>2. Pending' = keys
    BY <2>1 DEF Pending
  <2> QED  BY <1>2, <2>1, <2>2 DEF StorageAgrees, KeyTypes
<1> QED  BY <1>1, <1>2 DEF KeyTypes

\* Preparing a request draws a key only for a command that has none.
LEMMA PrepareKeeps ==
    ASSUME KeyInv, NEW c \in Contents, Prepare(c), UNCHANGED <<storage, intent>>
    PROVE  /\ KeyInv'
           /\ Pending' = [Pending EXCEPT ![c] = KeyFor(c)]
           /\ KeyFor(c) \in Keys /\ KeyFor(c) \in 1 .. issued' /\ issued <= issued'
           /\ \A k \in 1 .. issued : owner'[k] = owner[k]
<1> DEFINE key == KeyFor(c)
           keys == [Pending EXCEPT ![c] = key]
<1> USE DEF KeyInv
<1>1. Pending \in [Contents -> 0 .. MaxKeys] /\ key \in Keys
  BY PendingTyped DEF Prepare
<1>2. keys \in [Contents -> 0 .. MaxKeys]
  BY <1>1 DEF Keys
<1>3. Keep(keys)
  BY DEF Prepare
<1> HIDE DEF keys
<1>4. /\ Pending' = keys /\ StorageAgrees'
      /\ memory' \in [Contents -> 0 .. MaxKeys] /\ stored' \in [Contents -> 0 .. MaxKeys]
  BY <1>2, <1>3, KeepPending
<1> USE DEF keys
<1>5. CASE Pending[c] # 0
  <2>1. key = Pending[c] /\ UNCHANGED <<issued, owner>>
    BY <1>5 DEF KeyFor, Prepare
  <2>2. Pending' = Pending
    BY <1>1, <1>4, <2>1
  <2>3. KeyTypes'
    BY <1>4, <2>1 DEF KeyTypes
  <2>4. PendingOwned' /\ KeyPending' /\ OwnersMeant' /\ IntentBounded' /\ OneKeyPerCommand'
    BY <2>1, <2>2 DEF PendingOwned, KeyPending, OwnersMeant, IntentBounded, OneKeyPerCommand
  <2>5. key \in 1 .. issued
    BY <1>5, <2>1 DEF PendingOwned
  <2> QED  BY <1>1, <1>4, <2>1, <2>3, <2>4, <2>5 DEF KeyTypes
<1>6. CASE Pending[c] = 0
  <2>1. /\ key = issued + 1 /\ issued' = issued + 1
        /\ owner' = [owner EXCEPT ![issued + 1] = <<c, intent[c]>>]
    BY <1>6 DEF KeyFor, Prepare
  <2>2. issued + 1 \in Keys /\ issued \in Nat /\ intent[c] \in Keys
    BY <1>1, <2>1, ScanConstants DEF KeyTypes, IntentBounded, Keys
  <2>3. /\ owner'[issued + 1] = <<c, intent[c]>>
        /\ \A k \in 1 .. issued : owner'[k] = owner[k]
    BY <2>1, <2>2 DEF KeyTypes, Keys
  <2>4. \A k \in 1 .. issued' : k = issued + 1 \/ k \in 1 .. issued
    BY <2>1, <2>2
  <2>5. \A k \in 1 .. issued : owner[k] # <<c, intent[c]>>
    BY <1>6 DEF KeyPending
  <2>6. KeyTypes'
    BY <1>4, <2>1, <2>2 DEF KeyTypes, Commands, Keys
  <2>7. Pending'[c] = issued + 1 /\ \A d \in Contents \ {c} : Pending'[d] = Pending[d]
    BY <1>1, <1>4, <2>1
  <2>8. PendingOwned'
    <3>1. ASSUME NEW d \in Contents, d # c, Pending'[d] # 0
          PROVE  Pending'[d] \in 1 .. issued' /\ owner'[Pending'[d]] = <<d, intent'[d]>>
                 /\ intent'[d] <= issued'
      <4>1. /\ Pending[d] \in 1 .. issued /\ owner[Pending[d]] = <<d, intent[d]>>
            /\ intent[d] <= issued
        BY <2>7, <3>1 DEF PendingOwned
      <4> QED  BY <2>1, <2>2, <2>3, <2>7, <3>1, <4>1 DEF KeyTypes
    <3>2. intent'[c] <= issued'
      BY <2>1 DEF IntentBounded
    <3> QED  BY <2>1, <2>2, <2>3, <2>7, <3>1, <3>2 DEF PendingOwned
  <2>9. KeyPending'
    BY <2>2, <2>3, <2>4, <2>5, <2>7 DEF KeyPending
  <2>10. OwnersMeant'
    <3>1. \E d \in Contents, n \in Keys : owner'[issued + 1] = <<d, n>> /\ n <= intent'[d]
      BY <2>2, <2>3 DEF Keys
    <3> QED  BY <2>3, <2>4, <3>1 DEF OwnersMeant
  <2>11. OneKeyPerCommand'
    BY <2>3, <2>4, <2>5 DEF OneKeyPerCommand
  <2>12. IntentBounded'
    BY <2>1, <2>2 DEF IntentBounded, KeyTypes
  <2> QED  BY <1>1, <1>4, <2>1, <2>2, <2>3, <2>6, <2>8, <2>9, <2>10, <2>11, <2>12
<1> QED  BY <1>5, <1>6, <1>1

\* What says nothing of the keys keeps them.
LEMMA KeyFrame ==
    ASSUME KeyInv, UNCHANGED keyVars
    PROVE  KeyInv' /\ Pending' = Pending
<1>1. Pending' = Pending
  BY DEF keyVars, Pending
<1>2. KeyTypes' /\ StorageAgrees'
  BY DEF KeyInv, keyVars, KeyTypes, StorageAgrees
<1>3. PendingOwned' /\ KeyPending' /\ OwnersMeant' /\ IntentBounded' /\ OneKeyPerCommand'
  BY <1>1 DEF KeyInv, keyVars, PendingOwned, KeyPending, OwnersMeant, IntentBounded,
              OneKeyPerCommand
<1> QED  BY <1>1, <1>2, <1>3 DEF KeyInv

\* An answer that settles the open command drops its key, and opens the next one.
LEMMA ReleaseKeeps ==
    ASSUME KeyInv, NEW c \in Contents, Pending[c] # 0,
           Release(c, Pending[c]), intent' = [intent EXCEPT ![c] = @ + 1],
           UNCHANGED <<storage, issued, owner>>
    PROVE  KeyInv' /\ Pending' = [Pending EXCEPT ![c] = 0]
<1> DEFINE keys == [Pending EXCEPT ![c] = 0]
<1> USE DEF KeyInv
<1>1. Pending \in [Contents -> 0 .. MaxKeys]
  BY PendingTyped
<1>2. keys \in [Contents -> 0 .. MaxKeys]
  BY <1>1, ScanConstants
<1>3. Keep(keys)
  BY DEF Release
<1> HIDE DEF keys
<1>4. /\ Pending' = keys /\ StorageAgrees'
      /\ memory' \in [Contents -> 0 .. MaxKeys] /\ stored' \in [Contents -> 0 .. MaxKeys]
  BY <1>2, <1>3, KeepPending
<1> USE DEF keys
<1>5. /\ Pending'[c] = 0
      /\ \A d \in Contents \ {c} : Pending'[d] = Pending[d] /\ intent'[d] = intent[d]
  BY <1>1, <1>4 DEF KeyTypes
<1>6. intent[c] \in Nat /\ intent'[c] = intent[c] + 1 /\ intent[c] <= issued
      /\ issued \in Nat /\ issued <= MaxKeys
  BY DEF KeyTypes, PendingOwned
<1>7. KeyTypes'
  <2>1. intent' \in [Contents -> 1 .. MaxKeys + 1]
    BY <1>6, ScanConstants DEF KeyTypes
  <2> QED  BY <1>4, <2>1 DEF KeyTypes
<1>8. PendingOwned'
  BY <1>5 DEF PendingOwned
<1>9. KeyPending'
  <2>1. ASSUME NEW k \in 1 .. issued, owner[k] = <<c, intent[c] + 1>>  PROVE FALSE
    <3>1. PICK d \in Contents, n \in Keys : owner[k] = <<d, n>> /\ n <= intent[d]
      BY DEF OwnersMeant
    <3>2. d = c /\ n = intent[c] + 1
      BY <2>1, <3>1
    <3> QED  BY <1>6, <3>1, <3>2
  <2> QED  BY <1>5, <1>6, <2>1 DEF KeyPending
<1>10. OwnersMeant'
  <2>1. \A d \in Contents, n \in Keys : n <= intent[d] => n <= intent'[d]
    BY <1>5, <1>6 DEF Keys, KeyTypes
  <2> QED  BY <2>1 DEF OwnersMeant
<1>11. IntentBounded' /\ OneKeyPerCommand'
  BY <1>5, <1>6 DEF IntentBounded, OneKeyPerCommand
<1> QED  BY <1>4, <1>7, <1>8, <1>9, <1>10, <1>11

\* A reload keeps the keys that are stored.  Those that are lost belonged to commands
\* that are not open any more.
LEMMA ReloadKeeps ==
    ASSUME KeyInv, Reload
    PROVE  /\ KeyInv'
           /\ \A c \in Contents : intent[c] <= intent'[c]
<1> USE DEF KeyInv
<1>1. UNCHANGED <<storage, stored, issued, owner>> /\ memory' = NoKeys
  BY DEF Reload
<1>2. CASE storage
  <2>1. intent' = intent
    BY <1>2 DEF Reload, KeyTypes
  <2>2. Pending' = Pending
    BY <1>1, <1>2 DEF Pending, StorageAgrees, NoKeys
  <2>3. KeyTypes' /\ StorageAgrees'
    BY <1>1, <1>2, <2>1, ScanConstants DEF KeyTypes, StorageAgrees, NoKeys
  <2>4. PendingOwned' /\ KeyPending' /\ OwnersMeant' /\ IntentBounded' /\ OneKeyPerCommand'
    BY <1>1, <2>1, <2>2 DEF PendingOwned, KeyPending, OwnersMeant, IntentBounded,
                            OneKeyPerCommand
  <2> QED  BY <2>1, <2>3, <2>4 DEF KeyTypes
<1>3. CASE ~storage
  <2>1. \A c \in Contents : Pending[c] = memory[c] /\ Pending'[c] = 0
    BY <1>1, <1>3 DEF Pending, StorageAgrees, NoKeys
  <2>2. \A c \in Contents :
            intent'[c] = IF Pending[c] # 0 THEN intent[c] + 1 ELSE intent[c]
    BY <1>3, <2>1 DEF Reload
  <2>3. \A c \in Contents :
            /\ intent'[c] \in 1 .. MaxKeys + 1
            /\ intent[c] <= intent'[c] /\ intent'[c] <= issued + 1
    BY <2>2, ScanConstants DEF KeyTypes, PendingOwned, IntentBounded
  <2>4. KeyTypes' /\ StorageAgrees'
    <3>1. intent' \in [Contents -> 1 .. MaxKeys + 1]
      BY <2>3 DEF Reload
    <3> QED  BY <1>1, <1>3, <3>1, ScanConstants DEF KeyTypes, StorageAgrees, NoKeys
  <2>5. PendingOwned'
    BY <2>1 DEF PendingOwned
  <2>6. KeyPending'
    <3>1. ASSUME NEW k \in 1 .. issued, NEW c \in Contents, owner[k] = <<c, intent'[c]>>
          PROVE  FALSE
      <4>1. PICK d \in Contents, n \in Keys : owner[k] = <<d, n>> /\ n <= intent[d]
        BY DEF OwnersMeant
      <4>2. d = c /\ n = intent'[c]
        BY <3>1, <4>1
      <4>3. Pending[c] = 0 /\ intent'[c] = intent[c]
        BY <2>2, <4>1, <4>2 DEF KeyTypes
      <4>4. Pending[c] = k
        BY <3>1, <4>3 DEF KeyPending
      <4> QED  BY <4>3, <4>4
    <3> QED  BY <1>1, <3>1 DEF KeyPending
  <2>7. OwnersMeant'
    <3>1. \A d \in Contents, n \in Keys : n <= intent[d] => n <= intent'[d]
      BY <2>3 DEF Keys, KeyTypes
    <3> QED  BY <1>1, <3>1 DEF OwnersMeant
  <2>8. IntentBounded' /\ OneKeyPerCommand'
    BY <1>1, <2>3 DEF IntentBounded, OneKeyPerCommand
  <2> QED  BY <2>3, <2>4, <2>5, <2>6, <2>7, <2>8
<1> QED  BY <1>2, <1>3 DEF KeyTypes

-----------------------------------------------------------------------------
(* Lemmas on the client and on what the requests refer to.                    *)

\* The bound on the requests is a number.
LEMMA SendsBound == MaxSends \in Nat
<1>1. MaxFaults + 1 \in Nat /\ MaxKeys \in Nat
  BY ClientConstants, ScanConstants
<1> QED  BY <1>1 DEF MaxSends

\* What requests and time do to the breaker keeps its types.
LEMMA BreakerKeeps ==
    ASSUME ClientTypeOK,
           CountFailure \/ ResetBreaker \/ PassBreaker \/ Cool \/ UNCHANGED breaker
    PROVE  failures' \in Nat /\ tripped' \in BOOLEAN /\ cooled' \in BOOLEAN
<1>1. failures' = failures + 1 \/ failures' = 0 \/ failures' = failures
  BY DEF CountFailure, ResetBreaker, PassBreaker, Cool, breaker
<1>2. /\ tripped' \in {TRUE, FALSE, tripped}
      /\ cooled' \in {TRUE, FALSE, cooled}
  BY Zenon DEF CountFailure, ResetBreaker, PassBreaker, Cool, breaker
<1>3. failures' \in Nat
  BY <1>1 DEF ClientTypeOK
<1>4. tripped' \in BOOLEAN /\ cooled' \in BOOLEAN
  BY <1>2, Zenon DEF ClientTypeOK
<1> QED  BY <1>3, <1>4

\* Faults stay within their bound.
LEMMA FaultsKeep ==
    ASSUME ClientTypeOK, Fault \/ UNCHANGED faults
    PROVE  faults' \in 0 .. MaxFaults
BY ClientConstants DEF ClientTypeOK, Fault

SessionOK ==
    /\ sessions \in Nat /\ token \in 0 .. sessions
    /\ endedBy \in 0 .. sessions
    /\ leaving \in BOOLEAN /\ live \subseteq 1 .. sessions

\* An answer of 401, of whichever session, keeps the types of the session.
LEMMA UnauthorizedKeeps ==
    ASSUME ClientTypeOK, NEW t, HandleUnauthorized(t)
    PROVE  SessionOK'
<1>1. CASE token = t /\ ~leaving
  <2>1. token' = 0 /\ leaving' \in BOOLEAN /\ endedBy' = token /\ UNCHANGED <<sessions, live>>
    BY <1>1 DEF HandleUnauthorized
  <2> QED  BY <2>1 DEF ClientTypeOK, SessionOK
<1>2. CASE ~(token = t /\ ~leaving)
  <2>1. UNCHANGED session
    BY <1>2 DEF HandleUnauthorized
  <2> QED  BY <2>1 DEF ClientTypeOK, SessionOK, session
<1> QED  BY <1>1, <1>2

\* Every step of the client keeps its types.
LEMMA ClientKeeps ==
    ASSUME ClientTypeOK, [Next]_vars
    PROVE  ClientTypeOK'
<1>1. /\ CountFailure \/ ResetBreaker \/ PassBreaker \/ Cool \/ UNCHANGED breaker
      /\ Fault \/ UNCHANGED faults
      /\ SessionOK'
  <2> USE DEF breaker
  <2>s. UNCHANGED session => SessionOK'
    BY DEF session, ClientTypeOK, SessionOK
  <2>1. CASE \E c \in Contents : Send(c) \/ HoldBack(c)
    BY <2>1, <2>s DEF Send, HoldBack, BlockAtBreaker
  <2>2. ASSUME NEW c \in Contents, Receive(c)
        PROVE  (CountFailure \/ ResetBreaker) /\ UNCHANGED faults /\ SessionOK'
    <3>1. (\E t \in {request[awaits[c]].session} : HandleUnauthorized(t)) \/ UNCHANGED session
      BY <2>2 DEF Receive
    <3>2. (CountFailure \/ ResetBreaker) /\ UNCHANGED faults
      BY <2>2 DEF Receive
    <3> QED  BY <2>s, <3>1, <3>2, UnauthorizedKeeps
  <2>3. CASE \E c \in Contents : GiveUp(c)
    BY <2>3, <2>s DEF GiveUp
  <2>4. CASE Reload
    <3>1. ResetBreaker /\ (Fault \/ UNCHANGED faults)
      BY <2>4 DEF Reload, LoadClient, ResetBreaker
    <3>2. /\ UNCHANGED <<token, sessions, endedBy>>
          /\ leaving' = FALSE /\ live' = {token} \ {0}
      BY <2>4 DEF Reload, LoadClient
    <3>3. {token} \ {0} \subseteq 1 .. sessions
      BY DEF ClientTypeOK
    <3> QED  BY <3>1, <3>2, <3>3 DEF ClientTypeOK, SessionOK
  <2>5. CASE \E i \in Requests : Serve(i)
    BY <2>5, <2>s DEF Serve, Replay, Run, TurnDown, Fail, client
  <2>6. CASE Elsewhere
    <3>1. CASE OtherAnswer \/ OtherFailure \/ Cool
      BY <2>s, <3>1 DEF OtherAnswer, OtherFailure, Cool
    <3>2. CASE SignIn
      <4>1. /\ token' = sessions + 1 /\ sessions' = sessions + 1
            /\ live' = live \union {sessions + 1} /\ UNCHANGED <<leaving, endedBy>>
        BY <3>2 DEF SignIn
      <4>2. \A t \in live : t \in 1 .. sessions + 1
        BY DEF ClientTypeOK
      <4>3. live' \subseteq 1 .. sessions'
        BY <4>1, <4>2 DEF ClientTypeOK
      <4>4. SessionOK'
        BY <4>1, <4>3 DEF ClientTypeOK, SessionOK
      <4> QED  BY <3>2, <4>4 DEF SignIn
    <3>3. CASE SignOut
      <4>1. SessionOK'
        BY <3>3 DEF SignOut, ClientTypeOK, SessionOK
      <4> QED  BY <3>3, <4>1 DEF SignOut
    <3>4. ASSUME NEW t \in live, QueryUnauthorized(t)
          PROVE  ResetBreaker /\ Fault /\ SessionOK'
      <4>1. t \in 1 .. sessions
        BY DEF ClientTypeOK
      <4>2. token' = 0 /\ endedBy' \in {t, endedBy} /\ leaving' \in BOOLEAN
            /\ UNCHANGED <<sessions, live>>
        BY <3>4 DEF QueryUnauthorized, ClientTypeOK
      <4>3. SessionOK'
        BY <4>1, <4>2 DEF ClientTypeOK, SessionOK
      <4> QED  BY <3>4, <4>3 DEF QueryUnauthorized
    <3> QED  BY <2>6, <3>1, <3>2, <3>3, <3>4 DEF Elsewhere
  <2>7. CASE UNCHANGED vars
    BY <2>7, <2>s DEF vars, client
  <2> QED  BY <2>1, <2>2, <2>3, <2>4, <2>5, <2>6, <2>7 DEF Next
<1> QED  BY <1>1, BreakerKeeps, FaultsKeep DEF ClientTypeOK, SessionOK

\* Every key that was drawn belongs to a command.
LEMMA OwnerIsCommand ==
    ASSUME KeyInv, NEW k \in 1 .. issued
    PROVE  owner[k] \in Commands
BY DEF KeyInv, OwnersMeant, Commands

\* A request under way carries the key of a command.
LEMMA SentIsKeyed ==
    ASSUME KeyInv, FlowInv, NEW i \in Requests, status[i] # "unsent"
    PROVE  request[i].key \in 1 .. issued /\ owner[request[i].key] \in Commands
<1>1. request[i].key \in 1 .. issued
  BY DEF FlowInv, RequestsKeyed
<1> QED  BY <1>1, OwnerIsCommand

\* An awaited request carries the key of the open command of its content, and no other
\* content awaits it.
LEMMA AwaitedIsOpen ==
    ASSUME KeyInv, FlowInv, NEW c \in Contents, awaits[c] # 0
    PROVE  /\ awaits[c] \in Requests /\ awaits[c] \in Nat /\ awaits[c] <= sends
           /\ Pending[c] # 0 /\ request[awaits[c]].key = Pending[c]
           /\ Pending[c] \in 1 .. issued
           /\ owner[Pending[c]] = <<c, intent[c]>>
           /\ <<c, intent[c]>> \in Commands /\ told[<<c, intent[c]>>] = "open"
           /\ \A d \in Contents : awaits[d] = awaits[c] => d = c
<1>1. awaits[c] \in Requests /\ awaits[c] \in Nat /\ awaits[c] <= sends
  BY SendsBound DEF FlowInv, FlowTypes, AwaitedCurrent, Requests
<1>2. \A d \in Contents : awaits[d] # 0 =>
          /\ Pending[d] # 0 /\ request[awaits[d]].key = Pending[d]
          /\ Pending[d] \in 1 .. issued /\ owner[Pending[d]] = <<d, intent[d]>>
  BY DEF FlowInv, AwaitedCurrent, KeyInv, PendingOwned
<1>3. <<c, intent[c]>> \in Commands
  BY <1>2, OwnerIsCommand
<1>4. told[<<c, intent[c]>>] = "open"
  BY <1>3 DEF FlowInv, OpenUntold, KeyInv, KeyTypes
<1>5. ASSUME NEW d \in Contents, awaits[d] = awaits[c]  PROVE d = c
  <2>1. <<d, intent[d]>> = <<c, intent[c]>>
    BY <1>2, <1>5
  <2> QED  BY <2>1
<1> QED  BY <1>1, <1>2, <1>3, <1>4, <1>5

-----------------------------------------------------------------------------
(* Lemmas on requests and receipts, one for each action.                      *)

flowVars == <<awaits, request, status, sends, receipts, executed, told, doubtful>>

\* What says nothing of requests and receipts keeps FlowInv, and so does holding a
\* request back, which may draw a key.
LEMMA FlowFrame ==
    ASSUME KeyInv, FlowInv, UNCHANGED flowVars, UNCHANGED intent,
           issued \in Nat, issued' \in Nat, issued <= issued',
           \A k \in 1 .. issued : owner'[k] = owner[k],
           \A c \in Contents : awaits[c] # 0 => Pending'[c] = Pending[c]
    PROVE  FlowInv'
<1> USE DEF FlowInv, flowVars
<1>1. 1 .. issued \subseteq 1 .. issued'
  OBVIOUS
<1>2. FlowTypes' /\ RequestsKeyed' /\ OkReceipted' /\ ToldExecuted' /\ OpenUntold'
  BY <1>1 DEF FlowTypes, RequestsKeyed, OkReceipted, ToldExecuted, OpenUntold
<1>3. AwaitedCurrent'
  BY DEF AwaitedCurrent
<1>4. \A k \in receipts : owner'[k] = owner[k]
  BY DEF FlowTypes
<1>5. ReceiptsExecuted' /\ ReceiptsTold'
  BY <1>4 DEF ReceiptsExecuted, ReceiptsTold
<1>6. StraysDoubtful'
  <2>1. \A i \in Requests : status[i] = "sent" => request[i].key \in 1 .. issued
    BY SentIsKeyed
  <2> QED  BY <2>1 DEF StraysDoubtful
<1> QED  BY <1>2, <1>3, <1>5, <1>6

\* A new request carries the key of the open command.
LEMMA SendKeeps ==
    ASSUME KeyInv, ClientTypeOK, FlowInv, NEW c \in Contents, Send(c)
    PROVE  FlowInv'
<1> DEFINE key == KeyFor(c)
           i == sends + 1
<1>1. Prepare(c) /\ UNCHANGED <<storage, intent>>
  BY DEF Send
<1>2. /\ Pending' = [Pending EXCEPT ![c] = key]
      /\ key \in Keys /\ key \in 1 .. issued' /\ issued <= issued'
      /\ \A k \in 1 .. issued : owner'[k] = owner[k]
      /\ issued \in Nat /\ issued' \in Nat
  BY <1>1, PrepareKeeps DEF KeyInv, KeyTypes
<1>3. /\ awaits[c] = 0 /\ i \in Requests /\ i \in 1 .. MaxSends /\ sends' = i
      /\ UNCHANGED <<receipts, intent, executed, told, doubtful>>
  BY SendsBound DEF Send, Requests, FlowInv, FlowTypes
<1>4. /\ request' = [request EXCEPT ![i] = [key |-> key, session |-> token]]
      /\ status' = [status EXCEPT ![i] = "sent"]
      /\ awaits' = [awaits EXCEPT ![c] = i]
  BY DEF Send
<1> HIDE DEF key, i
<1>5. 1 .. issued \subseteq 1 .. issued'
  BY <1>2
<1>6. FlowTypes'
  <2>1. [key |-> key, session |-> token] \in RequestRecords
    BY <1>2 DEF RequestRecords, ClientTypeOK
  <2> QED  BY <1>3, <1>4, <1>5, <2>1, SendsBound DEF FlowInv, FlowTypes
<1>7. /\ request'[i].key = key /\ status'[i] = "sent" /\ awaits'[c] = i
      /\ \A j \in Requests \ {i} : request'[j] = request[j] /\ status'[j] = status[j]
      /\ \A d \in Contents \ {c} : awaits'[d] = awaits[d] /\ Pending'[d] = Pending[d]
      /\ Pending'[c] = key /\ key # 0
  BY <1>2, <1>3, <1>4, PendingTyped DEF FlowInv, FlowTypes, KeyInv
<1>8. \A d \in Contents \ {c} : awaits[d] # 0 =>
          /\ awaits[d] \in Requests \ {i} /\ awaits[d] <= sends
          /\ Pending[d] # 0 /\ request[awaits[d]].key = Pending[d]
          /\ status[awaits[d]] # "unsent"
  <2>1. sends \in Nat /\ i = sends + 1
    BY DEF i, FlowInv, FlowTypes
  <2>2. ASSUME NEW d \in Contents \ {c}, awaits[d] # 0
        PROVE  awaits[d] \in Requests /\ awaits[d] <= sends /\ awaits[d] \in Nat
    <3>1. d \in Contents
      OBVIOUS
    <3> QED  BY <2>2, <3>1, AwaitedIsOpen
  <2> QED  BY <2>1, <2>2 DEF FlowInv, AwaitedCurrent
<1>9. RequestsKeyed'
  <2>1. sends \in Nat /\ i = sends + 1
    BY DEF i, FlowInv, FlowTypes
  <2>2. \A j \in Requests : j <= sends' <=> j <= sends \/ j = i
    BY <1>3, <2>1, SendsBound DEF Requests
  <2>3. ~(i <= sends)
    BY <2>1
  <2> QED  BY <1>2, <1>5, <1>7, <2>2, <2>3 DEF FlowInv, RequestsKeyed
<1>10. AwaitedCurrent'
  <2>1. sends \in Nat /\ i = sends + 1
    BY DEF i, FlowInv, FlowTypes
  <2>2. ASSUME NEW d \in Contents \ {c}, awaits'[d] # 0
        PROVE  /\ awaits'[d] <= sends' /\ status'[awaits'[d]] # "unsent"
               /\ Pending'[d] # 0 /\ request'[awaits'[d]].key = Pending'[d]
    <3>1. awaits[d] \in Nat /\ awaits[d] <= sends
      BY <1>7, <1>8, <2>2, SendsBound DEF Requests
    <3> QED  BY <1>3, <1>7, <1>8, <2>1, <2>2, <3>1
  <2> QED  BY <1>3, <1>7, <2>1, <2>2 DEF AwaitedCurrent
<1>11. \A k \in receipts : owner'[k] = owner[k]
  BY <1>2 DEF FlowInv, FlowTypes
<1>12. ReceiptsExecuted' /\ ToldExecuted' /\ OpenUntold'
  BY <1>3, <1>11 DEF FlowInv, ReceiptsExecuted, ToldExecuted, OpenUntold
<1>13. OkReceipted'
  BY <1>3, <1>7 DEF FlowInv, OkReceipted
<1>14. StraysDoubtful'
  <2>1. ASSUME NEW j \in Requests, j # i, status[j] = "sent"
        PROVE  \/ \E d \in Contents : awaits'[d] = j
               \/ owner'[request'[j].key] \in doubtful'
    <3>1. request[j].key \in 1 .. issued
      BY <2>1, SentIsKeyed
    <3>2. CASE owner[request[j].key] \in doubtful
      BY <1>2, <1>3, <1>7, <2>1, <3>1, <3>2
    <3>3. ASSUME NEW d \in Contents, awaits[d] = j  PROVE awaits'[d] = j
      <4>1. j # 0
        BY SendsBound DEF Requests
      <4> QED  BY <1>3, <1>7, <3>3, <4>1
    <3> QED  BY <2>1, <3>2, <3>3 DEF FlowInv, StraysDoubtful
  <2> QED  BY <1>7, <2>1 DEF StraysDoubtful
<1>15. ReceiptsTold'
  <2>1. \A d \in Contents : awaits[d] # 0 =>
            /\ awaits'[d] = awaits[d] /\ request'[awaits[d]] = request[awaits[d]]
            /\ status'[awaits[d]] = status[awaits[d]]
    BY <1>3, <1>7, <1>8
  <2> QED  BY <1>3, <1>11, <2>1 DEF FlowInv, ReceiptsTold
<1> QED  BY <1>6, <1>9, <1>10, <1>12, <1>13, <1>14, <1>15 DEF FlowInv

\* A request that is held back changes a key only where nothing is awaited.
LEMMA HoldBackKeeps ==
    ASSUME KeyInv, FlowInv, NEW c \in Contents, HoldBack(c)
    PROVE  FlowInv'
<1>1. Prepare(c) /\ UNCHANGED <<storage, intent>>
  BY DEF HoldBack
<1>2. /\ Pending' = [Pending EXCEPT ![c] = KeyFor(c)]
      /\ issued <= issued' /\ issued \in Nat /\ issued' \in Nat
      /\ \A k \in 1 .. issued : owner'[k] = owner[k]
  BY <1>1, PrepareKeeps DEF KeyInv, KeyTypes
<1>3. \A d \in Contents : awaits[d] # 0 => Pending'[d] = Pending[d]
  BY <1>2, PendingTyped DEF HoldBack, KeyInv
<1>4. UNCHANGED flowVars /\ UNCHANGED intent
  BY DEF HoldBack, flowVars, requests
<1> QED  BY <1>2, <1>3, <1>4, FlowFrame

\* An answer is the end of its request, and tells at most of the open command.
LEMMA ReceiveKeeps ==
    ASSUME KeyInv, FlowInv, NEW c \in Contents, Receive(c)
    PROVE  KeyInv' /\ FlowInv'
<1> DEFINE i == awaits[c]
           key == Pending[c]
           command == <<c, intent[c]>>
<1>1. awaits[c] # 0
  BY DEF Receive
<1>2. /\ i \in Requests /\ i <= sends /\ key # 0 /\ request[i].key = key
      /\ key \in 1 .. issued /\ owner[key] = command
      /\ command \in Commands /\ told[command] = "open"
      /\ \A d \in Contents : awaits[d] = i => d = c
  BY <1>1, AwaitedIsOpen
<1>3. /\ status[i] \in Replies
      /\ status' = [status EXCEPT ![i] = "over"]
      /\ awaits' = [awaits EXCEPT ![c] = 0]
      /\ UNCHANGED <<storage, request, sends, issued, receipts, owner, executed, doubtful>>
  BY DEF Receive
<1>4. IF Settles(status[i])
      THEN /\ Release(c, key)
           /\ told' = [told EXCEPT ![command] = status[i]]
           /\ intent' = [intent EXCEPT ![c] = @ + 1]
      ELSE UNCHANGED <<memory, stored, told, intent>>
  BY <1>2 DEF Receive
<1> HIDE DEF i, key, command
<1>5. /\ KeyInv'
      /\ \A d \in Contents \ {c} : Pending'[d] = Pending[d]
      /\ \A d \in Contents : intent'[d] \in Nat /\ intent[d] \in Nat /\ intent[d] <= intent'[d]
  <2>1. CASE Settles(status[i])
    <3>1. /\ Release(c, Pending[c]) /\ Pending[c] # 0
          /\ intent' = [intent EXCEPT ![c] = @ + 1]
      BY <1>2, <1>4, <2>1 DEF key
    <3>2. KeyInv' /\ Pending' = [Pending EXCEPT ![c] = 0]
      BY <1>3, <3>1, ReleaseKeeps
    <3> QED  BY <3>1, <3>2, PendingTyped DEF KeyInv, KeyTypes
  <2>2. CASE ~Settles(status[i])
    <3>1. UNCHANGED keyVars
      BY <1>3, <1>4, <2>2 DEF keyVars
    <3> QED  BY <3>1, KeyFrame DEF keyVars, KeyInv, KeyTypes
  <2> QED  BY <2>1, <2>2
<1>6. /\ status'[i] = "over" /\ awaits'[c] = 0
      /\ \A j \in Requests \ {i} : status'[j] = status[j]
      /\ \A d \in Contents \ {c} : awaits'[d] = awaits[d]
  BY <1>2, <1>3 DEF FlowInv, FlowTypes
<1>7. FlowTypes'
  <2>1. told' \in [Commands -> {"open", "ok", "refused"}]
    BY <1>4 DEF FlowInv, FlowTypes, Settles
  <2>2. awaits' \in [Contents -> 0 .. MaxSends]
    BY <1>3, SendsBound DEF FlowInv, FlowTypes
  <2>3. status' \in [Requests -> Replies \union {"unsent", "sent", "over"}]
    BY <1>3 DEF FlowInv, FlowTypes
  <2> QED  BY <1>3, <2>1, <2>2, <2>3 DEF FlowInv, FlowTypes
<1>8. RequestsKeyed'
  BY <1>2, <1>3, <1>6 DEF FlowInv, RequestsKeyed
<1>9. AwaitedCurrent'
  <2>1. ASSUME NEW d \in Contents \ {c}, awaits[d] # 0
        PROVE  awaits[d] \in Requests \ {i} /\ awaits[d] <= sends
    <3>1. d \in Contents
      OBVIOUS
    <3>2. awaits[d] \in Requests /\ awaits[d] <= sends
      BY <2>1, <3>1, AwaitedIsOpen
    <3> QED  BY <1>2, <3>2
  <2> QED  BY <1>3, <1>5, <1>6, <2>1 DEF FlowInv, AwaitedCurrent
<1>10. ReceiptsExecuted'
  BY <1>3 DEF FlowInv, ReceiptsExecuted
<1>11. OkReceipted'
  BY <1>3, <1>6 DEF FlowInv, OkReceipted
<1>12. \A j \in Commands \ {command} : told'[j] = told[j]
  BY <1>4 DEF FlowInv, FlowTypes
<1>13. ToldExecuted'
  <2>1. told'[command] = "ok" => executed[command] = 1
    <3>1. CASE Settles(status[i])
      <4>1. told'[command] = "ok" => key \in receipts
        BY <1>2, <1>4, <3>1 DEF FlowInv, FlowTypes, OkReceipted
      <4> QED  BY <1>2, <4>1 DEF FlowInv, ReceiptsExecuted
    <3>2. CASE ~Settles(status[i])
      BY <1>2, <1>4, <3>2
    <3> QED  BY <3>1, <3>2
  <2> QED  BY <1>3, <1>12, <2>1 DEF FlowInv, ToldExecuted
<1>14. OpenUntold'
  <2>1. ASSUME NEW j \in Commands, j[2] >= intent'[j[1]]  PROVE told'[j] = "open"
    <3>1. j[1] \in Contents /\ j[2] \in Nat /\ j = <<j[1], j[2]>>
      BY DEF Commands, Keys
    <3>2. told[j] = "open"
      BY <1>5, <2>1, <3>1 DEF FlowInv, OpenUntold
    <3>3. CASE j = command
      <4>1. j[1] = c /\ j[2] = intent[c]
        BY <3>3 DEF command
      <4>2. intent'[c] = intent[c]
        BY <1>5, <2>1, <4>1
      <4>3. ~Settles(status[i])
        BY <1>4, <1>5, <4>2 DEF KeyInv, KeyTypes
      <4> QED  BY <1>4, <3>2, <4>3
    <3> QED  BY <1>12, <3>2, <3>3
  <2> QED  BY <2>1 DEF OpenUntold
<1>15. StraysDoubtful'
  <2>1. ASSUME NEW j \in Requests, j # i, status[j] = "sent"
        PROVE  \/ \E d \in Contents : awaits'[d] = j
               \/ owner[request[j].key] \in doubtful
    BY <1>6, <2>1 DEF FlowInv, StraysDoubtful, i
  <2> QED  BY <1>3, <1>6, <2>1 DEF StraysDoubtful
<1>16. ReceiptsTold'
  <2>1. ASSUME NEW k \in receipts
        PROVE  \/ owner[k] \in doubtful
               \/ told'[owner[k]] = "ok"
               \/ \E d \in Contents : /\ awaits'[d] # 0 /\ request[awaits'[d]].key = k
                                      /\ status'[awaits'[d]] = "ok"
    <3>1. owner[k] \in Commands
      BY OwnerIsCommand DEF FlowInv, FlowTypes
    <3>2. CASE told[owner[k]] = "ok"
      BY <1>2, <1>12, <3>1, <3>2
    <3>3. ASSUME NEW d \in Contents, awaits[d] # 0, request[awaits[d]].key = k,
                 status[awaits[d]] = "ok"
          PROVE  \/ told'[owner[k]] = "ok"
                 \/ /\ awaits'[d] # 0 /\ request[awaits'[d]].key = k
                    /\ status'[awaits'[d]] = "ok"
      <4>1. CASE d = c
        <5>1. k = key /\ status[i] = "ok"
          BY <1>2, <3>3, <4>1 DEF i
        <5> QED  BY <1>2, <1>4, <5>1 DEF FlowInv, FlowTypes, Settles
      <4>2. CASE d # c
        <5>1. awaits[d] \in Requests \ {i}
          BY <1>2, <3>3, <4>2, AwaitedIsOpen
        <5> QED  BY <1>6, <3>3, <4>2, <5>1
      <4> QED  BY <4>1, <4>2
    <3> QED  BY <3>2, <3>3 DEF FlowInv, ReceiptsTold
  <2> QED  BY <1>3, <2>1 DEF ReceiptsTold
<1> QED  BY <1>5, <1>7, <1>8, <1>9, <1>10, <1>11, <1>13, <1>14, <1>15, <1>16 DEF FlowInv

\* A request that is given up leaves its command in doubt.
LEMMA GiveUpKeeps ==
    ASSUME KeyInv, FlowInv, NEW c \in Contents, GiveUp(c)
    PROVE  KeyInv' /\ FlowInv'
<1> DEFINE i == awaits[c]
           command == <<c, intent[c]>>
<1>1. awaits[c] # 0
  BY DEF GiveUp
<1>2. /\ i \in Requests /\ i <= sends /\ request[i].key = Pending[c]
      /\ owner[Pending[c]] = command
      /\ command \in Commands
      /\ \A d \in Contents : awaits[d] = i => d = c
  BY <1>1, AwaitedIsOpen
<1>3. /\ doubtful' = doubtful \union {command}
      /\ status' = [status EXCEPT ![i] = IF @ = "sent" THEN "sent" ELSE "over"]
      /\ awaits' = [awaits EXCEPT ![c] = 0]
      /\ UNCHANGED <<request, sends, receipts, executed, told>>
  BY <1>2 DEF GiveUp
<1>4. UNCHANGED keyVars
  BY DEF GiveUp, keyVars
<1>5. KeyInv' /\ Pending' = Pending
  BY <1>4, KeyFrame
<1> HIDE DEF i, command
<1>6. /\ status'[i] = (IF status[i] = "sent" THEN "sent" ELSE "over") /\ awaits'[c] = 0
      /\ \A j \in Requests \ {i} : status'[j] = status[j]
      /\ \A d \in Contents \ {c} : awaits'[d] = awaits[d]
  BY <1>2, <1>3 DEF FlowInv, FlowTypes
<1>7. ASSUME NEW d \in Contents \ {c}, awaits[d] # 0
      PROVE  awaits[d] \in Requests \ {i}
  <2>1. d \in Contents
    OBVIOUS
  <2> QED  BY <1>2, <1>7, <2>1, AwaitedIsOpen
<1>8. FlowTypes'
  <2>1. awaits' \in [Contents -> 0 .. MaxSends]
    BY <1>3, SendsBound DEF FlowInv, FlowTypes
  <2>2. status' \in [Requests -> Replies \union {"unsent", "sent", "over"}]
    BY <1>3 DEF FlowInv, FlowTypes
  <2> QED  BY <1>2, <1>3, <1>4, <2>1, <2>2 DEF FlowInv, FlowTypes, keyVars
<1>9. RequestsKeyed'
  BY <1>2, <1>3, <1>4, <1>6 DEF FlowInv, RequestsKeyed, keyVars
<1>10. AwaitedCurrent'
  BY <1>3, <1>5, <1>6, <1>7 DEF FlowInv, AwaitedCurrent
<1>11. ReceiptsExecuted' /\ ToldExecuted' /\ OpenUntold'
  BY <1>3, <1>4 DEF FlowInv, ReceiptsExecuted, ToldExecuted, OpenUntold, keyVars
<1>12. OkReceipted'
  BY <1>3, <1>6 DEF FlowInv, OkReceipted
<1>13. StraysDoubtful'
  <2>1. ASSUME NEW j \in Requests, j # i, status[j] = "sent"
        PROVE  \/ \E d \in Contents : awaits'[d] = j
               \/ owner[request[j].key] \in doubtful
    BY <1>6, <2>1 DEF FlowInv, StraysDoubtful, i
  <2> QED  BY <1>2, <1>3, <1>4, <1>6, <2>1 DEF StraysDoubtful, keyVars
<1>14. ReceiptsTold'
  <2>1. ASSUME NEW k \in receipts, NEW d \in Contents, awaits[d] # 0,
               request[awaits[d]].key = k, status[awaits[d]] = "ok"
        PROVE  \/ owner[k] = command
               \/ /\ awaits'[d] # 0 /\ request[awaits'[d]].key = k
                  /\ status'[awaits'[d]] = "ok"
    <3>1. CASE d = c
      BY <1>2, <2>1, <3>1 DEF i
    <3>2. CASE d # c
      BY <1>6, <1>7, <2>1, <3>2
    <3> QED  BY <3>1, <3>2
  <2> QED  BY <1>3, <1>4, <2>1 DEF FlowInv, ReceiptsTold, keyVars
<1> QED  BY <1>5, <1>8, <1>9, <1>10, <1>11, <1>12, <1>13, <1>14 DEF FlowInv

\* So does a reload, for every request that was awaited.
LEMMA ReloadFlow ==
    ASSUME KeyInv, FlowInv, Reload
    PROVE  FlowInv'
<1>1. /\ awaits' = NoKeys
      /\ status' = [i \in Requests |-> IF status[i] \in Replies THEN "over" ELSE status[i]]
      /\ doubtful' = doubtful \union
            {owner[request[awaits[c]].key] : c \in {d \in Contents : awaits[d] # 0}}
      /\ UNCHANGED <<request, sends, issued, receipts, owner, executed, told>>
  BY DEF Reload
<1>2. \A c \in Contents : intent[c] \in Nat /\ intent'[c] \in Nat /\ intent[c] <= intent'[c]
  BY ReloadKeeps DEF KeyInv, KeyTypes
<1>3. /\ doubtful \subseteq doubtful'
      /\ \A c \in Contents : awaits[c] # 0 =>
            /\ owner[request[awaits[c]].key] \in doubtful'
            /\ owner[request[awaits[c]].key] \in Commands
  BY <1>1, AwaitedIsOpen
<1>4. FlowTypes'
  <2>1. awaits' \in [Contents -> 0 .. MaxSends]
    BY <1>1, SendsBound DEF NoKeys
  <2>2. status' \in [Requests -> Replies \union {"unsent", "sent", "over"}]
    BY <1>1 DEF FlowInv, FlowTypes
  <2>3. doubtful' \subseteq Commands
    BY <1>1, <1>3 DEF FlowInv, FlowTypes
  <2> QED  BY <1>1, <2>1, <2>2, <2>3 DEF FlowInv, FlowTypes
<1>5. RequestsKeyed' /\ AwaitedCurrent'
  BY <1>1 DEF FlowInv, RequestsKeyed, AwaitedCurrent, NoKeys, Replies
<1>6. ReceiptsExecuted' /\ ToldExecuted'
  BY <1>1 DEF FlowInv, ReceiptsExecuted, ToldExecuted
<1>7. OkReceipted'
  BY <1>1 DEF OkReceipted, Replies
<1>8. OpenUntold'
  <2>1. ASSUME NEW j \in Commands, j[2] >= intent'[j[1]]  PROVE j[2] >= intent[j[1]]
    <3>1. j[1] \in Contents /\ j[2] \in Nat
      BY DEF Commands, Keys
    <3> QED  BY <1>2, <2>1, <3>1
  <2> QED  BY <1>1, <2>1 DEF FlowInv, OpenUntold
<1>9. StraysDoubtful'
  <2>1. ASSUME NEW i \in Requests, status[i] = "sent"
        PROVE  owner[request[i].key] \in doubtful'
    <3>1. i # 0
      BY SendsBound DEF Requests
    <3> QED  BY <1>3, <2>1, <3>1 DEF FlowInv, StraysDoubtful
  <2> QED  BY <1>1, <2>1 DEF StraysDoubtful, Replies
<1>10. ReceiptsTold'
  BY <1>1, <1>3 DEF FlowInv, ReceiptsTold
<1> QED  BY <1>4, <1>5, <1>6, <1>7, <1>8, <1>9, <1>10 DEF FlowInv

\* What the server does to a request that it leaves without a receipt, or that has one.
LEMMA AnswerKeeps ==
    ASSUME KeyInv, FlowInv, NEW i \in Requests, status[i] = "sent",
           NEW reply \in Replies, Answer(i, reply),
           reply = "ok" => request[i].key \in receipts,
           UNCHANGED <<keyVars, awaits, request, sends, receipts, executed, told, doubtful>>
    PROVE  FlowInv'
<1>1. Pending' = Pending /\ UNCHANGED <<issued, owner, intent>>
  BY KeyFrame DEF keyVars
<1>2. PICK new \in Replies \union {"over"} :
          status' = [status EXCEPT ![i] = new] /\ (new = "ok" => reply = "ok")
  BY DEF Answer
<1>3. status'[i] = new /\ \A j \in Requests \ {i} : status'[j] = status[j]
  BY <1>2 DEF FlowInv, FlowTypes
<1>4. FlowTypes' /\ OkReceipted'
  BY <1>1, <1>2, <1>3 DEF FlowInv, FlowTypes, OkReceipted
<1>5. RequestsKeyed'
  BY <1>1, <1>3 DEF FlowInv, RequestsKeyed
<1>6. AwaitedCurrent'
  BY <1>1, <1>2, <1>3, AwaitedIsOpen DEF FlowInv, AwaitedCurrent, Replies
<1>7. ReceiptsExecuted' /\ ToldExecuted' /\ OpenUntold'
  BY <1>1 DEF FlowInv, ReceiptsExecuted, ToldExecuted, OpenUntold
<1>8. StraysDoubtful'
  BY <1>1, <1>2, <1>3 DEF FlowInv, StraysDoubtful, Replies
<1>9. ReceiptsTold'
  <2>1. \A c \in Contents : awaits[c] # 0 /\ status[awaits[c]] = "ok" =>
            status'[awaits[c]] = "ok"
    BY <1>3, AwaitedIsOpen
  <2> QED  BY <1>1, <2>1 DEF FlowInv, ReceiptsTold
<1> QED  BY <1>4, <1>5, <1>6, <1>7, <1>8, <1>9 DEF FlowInv

\* A command and its receipt are committed together, and a command that has no receipt
\* was not executed.
LEMMA RunKeeps ==
    ASSUME KeyInv, FlowInv, NEW i \in Requests, status[i] = "sent", Run(i),
           UNCHANGED <<keyVars, awaits, request, sends, told>>
    PROVE  /\ FlowInv'
           /\ owner[request[i].key] \in Commands /\ executed[owner[request[i].key]] = 0
           /\ told[owner[request[i].key]] # "ok"
<1> DEFINE key == request[i].key
           command == owner[key]
<1>1. Pending' = Pending /\ UNCHANGED <<issued, owner, intent>>
  BY KeyFrame DEF keyVars
<1>2. key \in 1 .. issued /\ command \in Commands
  BY SentIsKeyed
<1>3. /\ key \notin receipts /\ receipts' = receipts \union {key}
      /\ executed' = [executed EXCEPT ![command] = @ + 1]
      /\ \/ Answer(i, "ok") /\ UNCHANGED doubtful
         \/ Answer(i, "error") /\ doubtful' = doubtful \union {command}
  BY DEF Run, Receipted
<1> HIDE DEF key, command
<1>4. executed[command] = 0 /\ told[command] # "ok"
  <2>1. ASSUME executed[command] = 1  PROVE FALSE
    <3>1. PICK k \in receipts : owner[k] = command
      BY <1>2, <2>1 DEF FlowInv, ReceiptsExecuted
    <3>2. k = key
      BY <1>2, <3>1 DEF command, FlowInv, FlowTypes, KeyInv, OneKeyPerCommand
    <3> QED  BY <1>3, <3>1, <3>2
  <2> QED  BY <1>2, <2>1 DEF FlowInv, FlowTypes, ToldExecuted
<1>5. /\ executed'[command] = 1
      /\ \A j \in Commands \ {command} : executed'[j] = executed[j]
      /\ executed' \in [Commands -> {0, 1}]
  BY <1>2, <1>3, <1>4 DEF FlowInv, FlowTypes
<1>6. PICK new \in {"ok", "error", "over"} :
          /\ status' = [status EXCEPT ![i] = new]
          /\ new = "over" => \A c \in Contents : awaits[c] # i
          /\ new = "ok" \/ command \in doubtful' \/ \A c \in Contents : awaits[c] # i
  BY <1>3 DEF Answer
<1>7. status'[i] = new /\ \A j \in Requests \ {i} : status'[j] = status[j]
  BY <1>6 DEF FlowInv, FlowTypes
<1>8. doubtful \subseteq doubtful' /\ doubtful' \subseteq Commands
  BY <1>2, <1>3 DEF FlowInv, FlowTypes
<1>9. FlowTypes'
  <2>1. status' \in [Requests -> Replies \union {"unsent", "sent", "over"}]
    BY <1>6 DEF FlowInv, FlowTypes, Replies
  <2> QED  BY <1>1, <1>2, <1>3, <1>5, <1>8, <2>1 DEF FlowInv, FlowTypes
<1>10. RequestsKeyed'
  BY <1>1, <1>7 DEF FlowInv, RequestsKeyed
<1>11. AwaitedCurrent'
  BY <1>1, <1>6, <1>7, AwaitedIsOpen DEF FlowInv, AwaitedCurrent
<1>12. ReceiptsExecuted'
  BY <1>1, <1>2, <1>3, <1>5, OwnerIsCommand
     DEF FlowInv, FlowTypes, ReceiptsExecuted, command
<1>13. OkReceipted'
  BY <1>3, <1>7 DEF FlowInv, OkReceipted, key
<1>14. ToldExecuted' /\ OpenUntold'
  BY <1>1, <1>5 DEF FlowInv, ToldExecuted, OpenUntold
<1>15. StraysDoubtful'
  BY <1>1, <1>6, <1>7, <1>8 DEF FlowInv, StraysDoubtful
<1>16. ReceiptsTold'
  <2>1. \A c \in Contents : awaits[c] # 0 /\ status[awaits[c]] = "ok" =>
            status'[awaits[c]] = "ok"
    BY <1>7, AwaitedIsOpen
  <2>2. \/ command \in doubtful'
        \/ \E c \in Contents :
              awaits[c] # 0 /\ request[awaits[c]].key = key /\ status'[awaits[c]] = "ok"
    <3>1. CASE \A c \in Contents : awaits[c] # i
      BY <1>8, <3>1 DEF FlowInv, StraysDoubtful, command, key
    <3>2. ASSUME NEW c \in Contents, awaits[c] = i, command \notin doubtful'
          PROVE  awaits[c] # 0 /\ request[awaits[c]].key = key /\ status'[awaits[c]] = "ok"
      <4>1. i # 0
        BY SendsBound DEF Requests
      <4> QED  BY <1>6, <1>7, <3>2, <4>1 DEF key
    <3> QED  BY <3>1, <3>2
  <2> QED  BY <1>1, <1>3, <1>8, <2>1, <2>2 DEF FlowInv, ReceiptsTold, command
<1> QED  BY <1>2, <1>4, <1>9, <1>10, <1>11, <1>12, <1>13, <1>14, <1>15, <1>16
         DEF FlowInv, command, key

\* So whatever the server answers keeps FlowInv.
LEMMA ServeKeeps ==
    ASSUME KeyInv, FlowInv, NEW i \in Requests, Serve(i)
    PROVE  KeyInv' /\ FlowInv'
<1>1. status[i] = "sent" /\ UNCHANGED <<keyVars, awaits, request, sends, told>>
  BY DEF Serve, tab, keyVars
<1>2. KeyInv'
  BY <1>1, KeyFrame
<1>3. ASSUME NEW reply \in Replies, Answer(i, reply),
             reply = "ok" => request[i].key \in receipts,
             UNCHANGED <<receipts, executed, doubtful>>
      PROVE  FlowInv'
  <2>1. UNCHANGED <<keyVars, awaits, request, sends, receipts, executed, told, doubtful>>
    BY <1>1, <1>3
  <2> QED  BY <1>1, <1>3, <2>1, AnswerKeeps
<1>4. Replay(i) => FlowInv'
  BY <1>3 DEF Replay, Receipted, Replies
<1>5. Run(i) => FlowInv'
  BY <1>1, RunKeeps
<1>6. TurnDown(i) => FlowInv'
  BY <1>3 DEF TurnDown, Replies
<1>7. ASSUME NEW reply \in {"error", "unauthorized", "unknown"}, Fail(i, reply)
      PROVE  FlowInv'
  BY <1>3, <1>7 DEF Fail, Replies
<1> QED  BY <1>2, <1>4, <1>5, <1>6, <1>7 DEF Serve

-----------------------------------------------------------------------------
(* The theorems.                                                             *)

\* The invariant the theorems rest on holds in every reachable state.
THEOREM Inductive == Spec => []IInv
<1>1. Init => IInv
  <2> SUFFICES ASSUME Init  PROVE IInv
    OBVIOUS
  <2> USE DEF Init
  <2>1. ClientTypeOK
    <3>1. /\ failures = 0 /\ token = 1 /\ sessions = 1 /\ live = {1} /\ endedBy = 0
          /\ faults = 0 /\ MaxFaults \in Nat
      BY ClientConstants DEF ClientInit
    <3>2. tripped \in BOOLEAN /\ cooled \in BOOLEAN /\ leaving \in BOOLEAN
      BY Zenon DEF ClientInit
    <3> QED  BY <3>1, <3>2 DEF ClientTypeOK
  <2>2. issued = 0 /\ 1 .. issued = {} /\ \A c \in Contents : Pending[c] = 0
    BY DEF Pending, NoKeys
  <2>3. KeyTypes /\ StorageAgrees
    BY ScanConstants DEF KeyTypes, StorageAgrees, NoKeys
  <2>4. PendingOwned /\ KeyPending /\ OwnersMeant /\ IntentBounded /\ OneKeyPerCommand
    BY <2>2 DEF PendingOwned, KeyPending, OwnersMeant, IntentBounded, OneKeyPerCommand
  <2>5. FlowTypes
    BY SendsBound DEF FlowTypes, NoKeys
  <2>6. RequestsKeyed
    <3>1. \A i \in Requests : ~(i <= sends)
      BY SendsBound DEF Requests
    <3> QED  BY <3>1 DEF RequestsKeyed
  <2>7. AwaitedCurrent /\ ReceiptsExecuted /\ OkReceipted /\ ToldExecuted /\ OpenUntold
    BY DEF AwaitedCurrent, NoKeys, ReceiptsExecuted, OkReceipted, ToldExecuted, OpenUntold
  <2>8. StraysDoubtful /\ ReceiptsTold
    BY DEF StraysDoubtful, ReceiptsTold
  <2> QED  BY <2>1, <2>3, <2>4, <2>5, <2>6, <2>7, <2>8 DEF IInv, KeyInv, FlowInv
<1>2. IInv /\ [Next]_vars => IInv'
  <2> SUFFICES ASSUME IInv, [Next]_vars  PROVE IInv'
    OBVIOUS
  <2> USE DEF IInv
  <2>1. ClientTypeOK'
    BY ClientKeeps
  <2>2. ASSUME NEW c \in Contents, Send(c)  PROVE KeyInv' /\ FlowInv'
    <3>1. Prepare(c) /\ UNCHANGED <<storage, intent>>
      BY <2>2 DEF Send
    <3> QED  BY <2>2, <3>1, PrepareKeeps, SendKeeps
  <2>3. ASSUME NEW c \in Contents, HoldBack(c)  PROVE KeyInv' /\ FlowInv'
    <3>1. Prepare(c) /\ UNCHANGED <<storage, intent>>
      BY <2>3 DEF HoldBack
    <3> QED  BY <2>3, <3>1, PrepareKeeps, HoldBackKeeps
  <2>4. ASSUME NEW c \in Contents, Receive(c) \/ GiveUp(c)  PROVE KeyInv' /\ FlowInv'
    BY <2>4, ReceiveKeeps, GiveUpKeeps
  <2>5. Reload => KeyInv' /\ FlowInv'
    BY ReloadKeeps, ReloadFlow
  <2>6. ASSUME NEW i \in Requests, Serve(i)  PROVE KeyInv' /\ FlowInv'
    BY <2>6, ServeKeeps
  <2>7. ASSUME Elsewhere \/ UNCHANGED vars  PROVE KeyInv' /\ FlowInv'
    <3>1. UNCHANGED keyVars /\ UNCHANGED flowVars
      BY <2>7 DEF Elsewhere, vars, keyVars, flowVars, tab, requests, history
    <3>2. KeyInv' /\ Pending' = Pending
      BY <3>1, KeyFrame
    <3>3. FlowInv'
      BY <3>1, <3>2, FlowFrame DEF keyVars, KeyInv, KeyTypes
    <3> QED  BY <3>2, <3>3
  <2> QED  BY <2>1, <2>2, <2>3, <2>4, <2>5, <2>6, <2>7 DEF Next
<1> QED  BY <1>1, <1>2, PTL DEF Spec

\* Every variable keeps to its type, the bounds on keys, requests and faults included.
THEOREM TypesCorrect == Spec => []TypeOK
<1>1. IInv => TypeOK
  <2> SUFFICES ASSUME IInv  PROVE TypeOK
    OBVIOUS
  <2>1. receipts \subseteq Keys
    BY ScanConstants DEF IInv, KeyInv, KeyTypes, FlowInv, FlowTypes, Keys
  <2>2. executed \in [Commands -> Nat]
    BY DEF IInv, FlowInv, FlowTypes
  <2> QED  BY <2>1, <2>2 DEF IInv, KeyInv, KeyTypes, FlowInv, FlowTypes, TypeOK
<1> QED  BY <1>1, Inductive, PTL

\* A command has one key, through every repetition, reload and sign-in: a new one is
\* drawn only when the tab remembers none for the open command of its content.
THEOREM OneKey == Spec => []OneKeyPerCommand
<1>1. IInv => OneKeyPerCommand
  BY DEF IInv, KeyInv
<1> QED  BY <1>1, Inductive, PTL

\* A command that was reported as refused was not executed, unless it is in doubt: one of
\* its requests was given up, or answered with an error though it was carried out.
THEOREM RefusedNotExecuted == Spec => []RefusedMeansNotExecuted
<1>1. IInv => RefusedMeansNotExecuted
  <2> SUFFICES ASSUME IInv, NEW i \in Commands, told[i] = "refused", executed[i] > 0
               PROVE  i \in doubtful
    BY DEF RefusedMeansNotExecuted
  <2>1. executed[i] = 1
    BY DEF IInv, FlowInv, FlowTypes
  <2>2. PICK k \in receipts : owner[k] = i
    BY <2>1 DEF IInv, FlowInv, ReceiptsExecuted
  <2>3. ASSUME NEW c \in Contents, awaits[c] # 0, request[awaits[c]].key = k  PROVE FALSE
    <3>1. Pending[c] = k /\ owner[k] = <<c, intent[c]>> /\ told[<<c, intent[c]>>] = "open"
      BY <2>3, AwaitedIsOpen DEF IInv
    <3> QED  BY <2>2, <3>1
  <2> QED  BY <2>2, <2>3 DEF IInv, FlowInv, ReceiptsTold
<1> QED  BY <1>1, Inductive, PTL

\* The tab and the server implement CommandOnce: a command is executed at most once,
\* and acknowledged only after it was.
THEOREM ImplementsOnce == Spec => AtMostOnce
<1>1. Init => Once!Init
  BY DEF Init, Once!Init
<1>2. IInv /\ [Next]_vars => [Once!Next]_(Once!vars)
  <2> SUFFICES ASSUME IInv, [Next]_vars  PROVE [Once!Next]_(Once!vars)
    OBVIOUS
  <2>1. UNCHANGED <<executed, told>> => UNCHANGED Once!vars
    BY DEF Once!vars
  <2>2. ASSUME NEW c \in Contents, Send(c) \/ HoldBack(c) \/ GiveUp(c)
        PROVE  UNCHANGED <<executed, told>>
    BY <2>2 DEF Send, HoldBack, GiveUp
  <2>3. ASSUME NEW c \in Contents, Receive(c)
        PROVE  Once!Next \/ UNCHANGED <<executed, told>>
    <3> DEFINE command == <<c, intent[c]>>
    <3>1. /\ awaits[c] \in Requests /\ request[awaits[c]].key = Pending[c]
          /\ owner[Pending[c]] = command
          /\ command \in Commands /\ told[command] = "open"
      BY <2>3, AwaitedIsOpen DEF IInv, Receive
    <3>2. UNCHANGED executed
      BY <2>3 DEF Receive
    <3>3. CASE ~Settles(status[awaits[c]])
      BY <2>3, <3>3 DEF Receive
    <3>4. CASE Settles(status[awaits[c]])
      <4>1. told' = [told EXCEPT ![command] = status[awaits[c]]]
        BY <2>3, <3>1, <3>4 DEF Receive
      <4>2. CASE status[awaits[c]] = "refused"
        BY <3>1, <3>2, <4>1, <4>2 DEF Once!Next, Once!Refuse
      <4>3. CASE status[awaits[c]] = "ok"
        <5>1. executed[command] = 1
          BY <3>1, <4>3 DEF IInv, FlowInv, OkReceipted, ReceiptsExecuted
        <5> QED  BY <3>1, <3>2, <4>1, <4>3, <5>1 DEF Once!Next, Once!Acknowledge
      <4> QED  BY <3>4, <4>2, <4>3 DEF Settles
    <3> QED  BY <3>3, <3>4
  <2>4. Reload \/ Elsewhere \/ UNCHANGED vars => UNCHANGED <<executed, told>>
    BY DEF Reload, Elsewhere, vars, history
  <2>5. ASSUME NEW i \in Requests, Serve(i)
        PROVE  Once!Next \/ UNCHANGED <<executed, told>>
    <3> DEFINE command == owner[request[i].key]
    <3>1. status[i] = "sent" /\ UNCHANGED <<keyVars, awaits, request, sends, told>>
      BY <2>5 DEF Serve, tab, keyVars
    <3>2. CASE Run(i)
      <4>1. command \in Commands /\ executed[command] = 0 /\ told[command] # "ok"
        BY <3>1, <3>2, RunKeeps DEF IInv
      <4>2. executed' = [executed EXCEPT ![command] = 1]
        BY <3>2, <4>1 DEF Run
      <4> QED  BY <3>1, <4>1, <4>2 DEF Once!Next, Once!Execute
    <3>3. CASE ~Run(i)
      BY <2>5, <3>1, <3>3 DEF Serve, Replay, TurnDown, Fail
    <3> QED  BY <3>2, <3>3
  <2> QED  BY <2>1, <2>2, <2>3, <2>4, <2>5 DEF Next
<1> QED  BY <1>1, <1>2, Inductive, PTL DEF Spec, AtMostOnce, Once!Spec

=============================================================================
