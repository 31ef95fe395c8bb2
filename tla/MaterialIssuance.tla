--------------------------- MODULE MaterialIssuance ---------------------------
(***************************************************************************)
(* Production material issuance: the documents that release frozen         *)
(* material requirements of sales-order lines to the warehouse, the        *)
(* warehouse's ISSUE / SUPPLEMENT / RETURN confirmations against them, the  *)
(* inventory custody they move, and the order edits they must hold off.    *)
(*                                                                         *)
(* Every document command is one SERIALIZABLE transaction (a conflict is   *)
(* rolled back and reported as ErrBasisChanged) and every order command    *)
(* runs under the order's row lock, so each is one action here.  A request  *)
(* the code rejects rolls back and is a stuttering step: the guard is the  *)
(* conjunction of its checks.  Clients may send any request at any time,   *)
(* more than once, and may lose any answer.                                *)
(***************************************************************************)
EXTENDS Naturals, Sequences, FiniteSets, FiniteSetsExt

CONSTANTS
    Orders, Lines, OrderOf,       \* sales orders, their line ids, owner of a line
    Customers, Specs,             \* who buys; (product, quantity, unit) of a line
    Materials, Batches, MaterialOf,
    Recipes,                      \* possible expansions of a spec: its materials -> quantity
    Docs, Commands,               \* document ids; (actor, commandId) pairs
    Reserved,                     \* RESERVED reservations per category and batch (nobody writes them)
    Receipts,                     \* possible inbound records [qty, value]
    None,
    MaxOrderVersion,              \* bound: edits of one order
    MaxAllocQty, MaxAllocs,       \* bound: quantity of, and number of, allocations
    MaxReceived                   \* bound: total quantity received per batch

ASSUME ConstantsAssumption ==
    /\ OrderOf \in [Lines -> Orders]
    /\ MaterialOf \in [Batches -> Materials]
    /\ \A r \in Recipes : \E S \in SUBSET Materials : r \in [S -> Nat]
    /\ Reserved \in [{"stock", "pending"} -> [Batches -> Nat]]
    /\ Receipts \subseteq [qty : Nat, value : Nat]
    /\ Customers # {} /\ Specs # {}
    /\ None \notin Docs /\ IsFiniteSet(Docs)
    /\ MaxOrderVersion \in Nat /\ MaxAllocQty \in Nat
    /\ MaxAllocs \in Nat /\ MaxReceived \in Nat

VARIABLES
    order,     \* order header: version, status, customer
    line,      \* order line: attached to its order or not, and its spec
    recipe,    \* current released MBOM expansion of each spec
    reviewed,  \* the basis of a line a client last reviewed (or None)
    doc,       \* document header and its frozen source snapshots
    cover,     \* active coverage: sales-order line -> document (or None)
    moves,     \* confirmed warehouse movements of each document, by version
    receipt,   \* command receipts: (actor, commandId) -> what it did (or None)
    answer,    \* last answer the client of a command has seen (or None)
    stock,     \* balance in category MATERIAL, per batch
    pending,   \* balance in PRODUCTION_MATERIAL_PENDING_CONSUMPTION, per batch
    received   \* history: inbound minus shipped, per batch

orderVars == <<order, line, recipe>>
clientVars == <<reviewed, answer>>
docVars   == <<doc, cover, moves>>
stockVars == <<stock, pending, received>>
vars      == <<order, line, recipe, reviewed, doc, cover, moves, receipt, answer,
               stock, pending, received>>

-----------------------------------------------------------------------------
(* Data.                                                                    *)

OrderStatus == {"Draft", "Pending", "InProgress", "Done", "Canceled", "Deleted"}
DispatchableStatus == {"Pending", "InProgress"}      \* Pending stands for Scheduling too
CoverableStatus == DispatchableStatus \union {"Done"}
MovementKinds == {"ISSUE", "SUPPLEMENT", "RETURN"}

Balance == [qty : Nat, value : Nat]
Basis == [version : Nat, customer : Customers, spec : Specs, required : Recipes]

\* An allocation of a movement.  origin = 0 for outgoing material; for a RETURN
\* it is the position of the movement whose allocation (same line, same batch)
\* the material came from: the code's OriginalAllocationID.
AllocKey == [line : Lines, batch : Batches, origin : Nat]

LinesOf(o) == {l \in Lines : OrderOf[l] = o}
CoveredLines(o) == {l \in LinesOf(o) : cover[l] # None}

CurrentBasis(l) ==
    [version |-> order[OrderOf[l]].version, customer |-> order[OrderOf[l]].customer,
     spec |-> line[l].spec, required |-> recipe[line[l].spec]]

NewOrder == [version |-> 1, status |-> "Draft", customer |-> CHOOSE c \in Customers : TRUE]
NewLine == [state |-> "attached", spec |-> CHOOSE s \in Specs : TRUE]
NoDoc == [status |-> "none", version |-> 0, executed |-> FALSE,
          frozen |-> [l \in {} |-> None], cmd |-> None]

Init ==
    /\ order = [o \in Orders |-> NewOrder]
    /\ line = [l \in Lines |-> NewLine]
    /\ recipe \in [Specs -> Recipes]
    /\ reviewed = [l \in Lines |-> None]
    /\ doc = [d \in Docs |-> NoDoc]
    /\ cover = [l \in Lines |-> None]
    /\ moves = [d \in Docs |-> <<>>]
    /\ receipt = [c \in Commands |-> None]
    /\ answer = [c \in Commands |-> None]
    /\ stock = [b \in Batches |-> [qty |-> 0, value |-> 0]]
    /\ pending = [b \in Batches |-> [qty |-> 0, value |-> 0]]
    /\ received = [b \in Batches |-> [qty |-> 0, value |-> 0]]

-----------------------------------------------------------------------------
(* Sales orders: the writes that may disturb a frozen source.  Each runs     *)
(* under the order's row lock with the client's expected version.            *)

\* validateSalesOrderMutationAgainstActiveProductionMaterialCoverageTx: what an
\* order may become (header h, lines ls) while some of its lines are covered.
CoverageAllows(o, h, ls) ==
    CoveredLines(o) # {} =>
        /\ h.status \in CoverableStatus
        /\ \A l \in CoveredLines(o) :
              LET basis == doc[cover[l]].frozen[l] IN
              /\ ls[l].state = "attached"
              /\ h.customer = basis.customer
              /\ ls[l].spec = basis.spec

\* recalculateSalesOrderStatus: the status derived from deliveries, which are
\* outside this module (any of its lines may have been shipped or not).
Recalculated(s) ==
    IF s \in {"Canceled", "Deleted"} THEN {s}
    ELSE {IF s = "Done" THEN "Pending" ELSE s, "InProgress", "Done"}

\* Every accepted order command raises the version by one; it writes header h and
\* lines ls, which coverage must allow, and leaves the order in status s.
WriteOrder(o, h, ls, s) ==
    /\ order[o].status # "Deleted"
    /\ order[o].version < MaxOrderVersion
    /\ CoverageAllows(o, h, ls)
    /\ order' = [order EXCEPT ![o] = [h EXCEPT !.version = order[o].version + 1, !.status = s]]
    /\ line' = ls
    /\ UNCHANGED <<recipe, clientVars, docVars, receipt, stockVars>>

ConfirmOrder(o) ==
    /\ order[o].status = "Draft"
    /\ \E s \in Recalculated("Pending") : WriteOrder(o, [order[o] EXCEPT !.status = "Pending"], line, s)

ChangeCustomer(o) == \E c \in Customers \ {order[o].customer} :
    WriteOrder(o, [order[o] EXCEPT !.customer = c], line, order[o].status)

\* A save replaces the whole line list: kept lines may change spec, missing ones
\* are detached, and a detached line id can never be attached again.  The order's
\* status is then derived anew.
SaveLines(o) == \E next \in [LinesOf(o) -> [state : {"attached", "detached"}, spec : Specs]] :
    /\ \A l \in LinesOf(o) :
          line[l].state = "detached" \/ next[l].state = "detached" => next[l] = [line[l] EXCEPT !.state = "detached"]
    /\ \E l \in LinesOf(o) : next[l] # line[l]
    /\ \E s \in Recalculated(order[o].status) :
          WriteOrder(o, order[o], [l \in Lines |-> IF OrderOf[l] = o THEN next[l] ELSE line[l]], s)

\* Cancellation is open to Draft, Pending and Scheduling orders without active
\* production plans (plans are outside this module: any Pending order may have none).
CancelOrder(o) ==
    /\ order[o].status \in {"Draft", "Pending"}
    /\ CoveredLines(o) = {}
    /\ WriteOrder(o, [order[o] EXCEPT !.status = "Canceled"], line, "Canceled")

DeleteOrder(o) ==
    /\ order[o].status = "Canceled"
    /\ CoveredLines(o) = {}
    /\ WriteOrder(o, [order[o] EXCEPT !.status = "Deleted"], line, "Deleted")

\* Production and delivery facts move the derived status, with or without a new
\* version; they never look at coverage.
ProgressOrder(o) ==
    /\ \E s \in Recalculated(order[o].status) \ {order[o].status}, bump \in {0, 1} :
          /\ order[o].version + bump <= MaxOrderVersion
          /\ order' = [order EXCEPT ![o].status = s, ![o].version = @ + bump]
    /\ UNCHANGED <<line, recipe, clientVars, docVars, receipt, stockVars>>

\* A new released recipe of a spec; coverage does not protect against it.
ReviseRecipe(s) == \E r \in Recipes \ {recipe[s]} :
    /\ recipe' = [recipe EXCEPT ![s] = r]
    /\ UNCHANGED <<order, line, clientVars, docVars, receipt, stockVars>>

-----------------------------------------------------------------------------
(* Document commands.                                                        *)

\* Mutant: the review forgets rejectAlreadyCoveredProductionMaterialIssuanceSourcesTx.
ReviewableIgnoringCoverage(l) ==
    /\ order[OrderOf[l]].status \in DispatchableStatus
    /\ line[l].state = "attached"

\* What reviewProductionMaterialIssuanceSourcesWithinTransaction accepts.
Reviewable(l) ==
    /\ order[OrderOf[l]].status \in DispatchableStatus
    /\ line[l].state = "attached"
    /\ cover[l] = None

ReviewSource(l) ==
    /\ Reviewable(l)
    /\ reviewed' = [reviewed EXCEPT ![l] = CurrentBasis(l)]
    /\ UNCHANGED <<orderVars, answer, docVars, receipt, stockVars>>

\* Mutant: the receipt is written without claiming (actor, command) first.
CompleteWithoutClaim(c, request, d, movement) ==
    LET result == [request |-> request, doc |-> d, movement |-> movement] IN
    /\ receipt' = [receipt EXCEPT ![c] = result]
    /\ answer' \in {answer, [answer EXCEPT ![c] = result]}

\* The receipt a command writes when it takes effect; its client may or may not
\* see the answer.
Complete(c, request, d, movement) ==
    LET result == [request |-> request, doc |-> d, movement |-> movement] IN
    /\ receipt[c] = None
    /\ receipt' = [receipt EXCEPT ![c] = result]
    /\ answer' \in {answer, [answer EXCEPT ![c] = result]}

\* Mutant: a replay does not compare request fingerprints.
AnyRequest(c, request) == TRUE

\* claimProductionMaterialIssuanceCommandReceiptTx finds the command done: the
\* same request is answered from its receipt, another one is refused.
SameRequest(c, request) == receipt[c].request = request

Replay(c) ==
    /\ receipt[c] # None
    /\ \E other \in Commands :
          /\ receipt[other] # None
          /\ SameRequest(c, receipt[other].request)
          /\ answer' = [answer EXCEPT ![c] =
                [receipt[c] EXCEPT !.request = receipt[other].request]]
    /\ UNCHANGED <<orderVars, reviewed, docVars, receipt, stockVars>>

\* Mutant: the dispatch trusts the reviewed basis.
BasisTrusted(l) == TRUE

\* The dispatch re-reviews its sources under locks and compares them with the
\* basis the client reviewed.
BasisUnchanged(l) == reviewed[l] = CurrentBasis(l)

Dispatch(c, d) == \E S \in (SUBSET Lines) \ {{}} :
    /\ doc[d].status = "none"
    /\ \A l \in S : /\ reviewed[l] # None
                    /\ Reviewable(l)
                    /\ BasisUnchanged(l)
    /\ LET frozen == [l \in S |-> reviewed[l]] IN
       /\ doc' = [doc EXCEPT ![d] = [status |-> "DISPATCHED", version |-> 1,
                     executed |-> FALSE, frozen |-> frozen, cmd |-> c]]
       /\ Complete(c, [intent |-> "DISPATCH", basis |-> frozen], d, 0)
    /\ cover' = [l \in Lines |-> IF l \in S THEN d ELSE cover[l]]
    /\ UNCHANGED <<orderVars, reviewed, moves, stockVars>>

\* Every document command raises the document version by one.
NextVersion(d) == doc[d].version + 1

\* Mutant: the withdrawal forgets to look for warehouse execution.
WithdrawableAfterExecution(d) == doc[d].status = "DISPATCHED"

\* A document can be withdrawn until the warehouse has executed any of it.
Withdrawable(d) ==
    /\ doc[d].status = "DISPATCHED"
    /\ ~doc[d].executed
    /\ moves[d] = <<>>

Withdraw(c, d) ==
    /\ Withdrawable(d)
    /\ {l \in Lines : cover[l] = d} = DOMAIN doc[d].frozen
    /\ cover' = [l \in Lines |-> IF cover[l] = d THEN None ELSE cover[l]]
    /\ doc' = [doc EXCEPT ![d].status = "WITHDRAWN", ![d].version = NextVersion(d)]
    /\ Complete(c, [intent |-> "WITHDRAW", doc |-> d, version |-> doc[d].version], d, 0)
    /\ UNCHANGED <<orderVars, reviewed, moves, stockVars>>

-----------------------------------------------------------------------------
(* Warehouse confirmations.  Progress is never stored: it is recomputed from  *)
(* the confirmed movements, as the code does before and after every command.  *)

\* Quantity of the allocations that pass Test, over movements of the kinds in K.
AllocTotal(d, K, Test(_)) ==
    MapThenSumSet(
        LAMBDA i : MapThenSumSet(LAMBDA k : moves[d][i].alloc[k],
                                 {k \in DOMAIN moves[d][i].alloc : Test(k)}),
        {i \in DOMAIN moves[d] : moves[d][i].kind \in K})

RowTotal(d, K, l, m) ==
    AllocTotal(d, K, LAMBDA k : k.line = l /\ MaterialOf[k.batch] = m)

Net(d, l, m) == RowTotal(d, {"ISSUE", "SUPPLEMENT"}, l, m) - RowTotal(d, {"RETURN"}, l, m)

RequiredOf(required, m) == IF m \in DOMAIN required THEN required[m] ELSE 0
Standard(d, l, m) == RequiredOf(doc[d].frozen[l].required, m)

\* Outgoing allocations of d that can be returned: <<movement, key>>.
Originals(d) ==
    UNION {{i} \X DOMAIN moves[d][i].alloc :
              i \in {j \in DOMAIN moves[d] : moves[d][j].kind # "RETURN"}}

ReturnedOf(d, i, k) ==
    AllocTotal(d, {"RETURN"}, LAMBDA r : r.line = k.line /\ r.batch = k.batch /\ r.origin = i)

Outstanding(d, i, k) == moves[d][i].alloc[k] - ReturnedOf(d, i, k)

BatchTotal(alloc, b) == MapThenSumSet(LAMBDA k : alloc[k], {k \in DOMAIN alloc : k.batch = b})

\* The order lines and materials a document may move: the rows of its frozen basis, those
\* of no quantity included.
HasRow(d, l, b) == l \in DOMAIN doc[d].frozen /\ MaterialOf[b] \in DOMAIN doc[d].frozen[l].required

\* Mutant: earlier returns of the same allocation are not counted.
ReturnsOriginalOnce(d, alloc) == \A k \in DOMAIN alloc :
    LET origin == [k EXCEPT !.origin = 0] IN
    /\ <<k.origin, origin>> \in Originals(d)
    /\ alloc[k] <= moves[d][k.origin].alloc[origin]

\* A return goes back along an allocation of this document, same line and batch,
\* and no further than what is left of it.
ReturnsOriginal(d, alloc) == \A k \in DOMAIN alloc :
    LET origin == [k EXCEPT !.origin = 0] IN
    /\ <<k.origin, origin>> \in Originals(d)
    /\ alloc[k] <= Outstanding(d, k.origin, origin)

\* An ordinary issue stays within the frozen requirement of its row.
WithinStandard(d, alloc) == \A l \in {k.line : k \in DOMAIN alloc}, m \in Materials :
    Net(d, l, m) + MapThenSumSet(LAMBDA k : alloc[k],
                      {k \in DOMAIN alloc : k.line = l /\ MaterialOf[k.batch] = m})
        <= Standard(d, l, m)

AllocationAccepted(d, kind, alloc) ==
    /\ \A k \in DOMAIN alloc : HasRow(d, k.line, k.batch)
    /\ kind = "RETURN" => ReturnsOriginal(d, alloc)
    /\ kind # "RETURN" => \A k \in DOMAIN alloc : k.origin = 0
    /\ kind = "ISSUE" => WithinStandard(d, alloc)

\* Value moved for a batch: a return carries the unit cost of its originals,
\* outgoing material the source's average cost.  Costs are kept as integers:
\* Exact is the bound that no division below leaves a remainder.
OriginalCost(d, i, b) == moves[d][i].value[b] \div moves[d][i].total[b]
\* Mutant of MovedValue: returns are valued at the average of what is pending.
MovedAverageValue(d, kind, alloc, source, total) == [b \in Batches |->
    IF total[b] = 0 THEN 0 ELSE (total[b] * source[b].value) \div source[b].qty]
MovedValue(d, kind, alloc, source, total) == [b \in Batches |->
    IF total[b] = 0 THEN 0
    ELSE IF kind = "RETURN"
    THEN MapThenSumSet(LAMBDA k : alloc[k] * OriginalCost(d, k.origin, b),
                       {k \in DOMAIN alloc : k.batch = b})
    ELSE (total[b] * source[b].value) \div source[b].qty]
Exact(kind, source, total) == \A b \in Batches :
    kind # "RETURN" /\ source[b].qty > 0 => (source[b].value % source[b].qty) = 0

\* applyProductionMaterialIssuanceInventoryCustodyTransferTx: source and target
\* balances of every batch after moving total/value, if the balances allow it.
Debit(balance, total, value) ==
    [b \in Batches |-> [qty |-> balance[b].qty - total[b], value |-> balance[b].value - value[b]]]
\* Mutant of Credit: the target receives the quantity without its value.
CreditQuantity(balance, total, value) ==
    [b \in Batches |-> [balance[b] EXCEPT !.qty = @ + total[b]]]
Credit(balance, total, value) ==
    [b \in Batches |-> [qty |-> balance[b].qty + total[b], value |-> balance[b].value + value[b]]]
\* Mutant of CanTransfer: it only asks that the source has some stock.
CanOverdraw(kind, source, total, value) ==
    \A b \in Batches : total[b] > 0 => source[b].qty > 0
ReservedFrom(kind) == Reserved[IF kind = "RETURN" THEN "pending" ELSE "stock"]
CanTransfer(kind, source, total, value) == \A b \in Batches :
    /\ total[b] \in 0..source[b].qty
    /\ total[b] > 0 => total[b] + ReservedFrom(kind)[b] <= source[b].qty
    /\ value[b] \in 0..source[b].value
    /\ total[b] > 0 /\ source[b].qty = total[b] => source[b].value = value[b]
CustodyTransfer(kind, total, value) ==
    IF kind = "RETURN"
    THEN /\ CanTransfer(kind, pending, total, value)
         /\ pending' = Debit(pending, total, value)
         /\ stock' = Credit(stock, total, value)
    ELSE /\ CanTransfer(kind, stock, total, value)
         /\ stock' = Debit(stock, total, value)
         /\ pending' = Credit(pending, total, value)

\* The allocations worth submitting: bounded in number and in quantity.
CandidateKeys(d, kind) ==
    IF kind = "RETURN"
    THEN {[o[2] EXCEPT !.origin = o[1]] : o \in Originals(d)}
    ELSE [line : DOMAIN doc[d].frozen, batch : Batches, origin : {0}]

Confirm(c, d, kind) ==
    /\ doc[d].status = "DISPATCHED"
    /\ \E K \in SUBSET CandidateKeys(d, kind) : \E alloc \in [K -> 1..MaxAllocQty] :
       LET source == IF kind = "RETURN" THEN pending ELSE stock
           total == [b \in Batches |-> BatchTotal(alloc, b)]
           value == MovedValue(d, kind, alloc, source, total)
           movement == [kind |-> kind, cmd |-> c, total |-> total, value |-> value, alloc |-> alloc]
       IN
       /\ K # {} /\ IsFiniteSet(K) /\ Cardinality(K) <= MaxAllocs
       /\ AllocationAccepted(d, kind, alloc)
       /\ Exact(kind, source, total)
       /\ CustodyTransfer(kind, total, value)
       /\ moves' = [moves EXCEPT ![d] = Append(@, movement)]
       /\ doc' = [doc EXCEPT ![d].version = NextVersion(d), ![d].executed = TRUE]
       /\ Complete(c, [intent |-> kind, doc |-> d, version |-> doc[d].version, alloc |-> alloc],
                   d, Len(moves[d]) + 1)
    /\ UNCHANGED <<orderVars, reviewed, cover, received>>

-----------------------------------------------------------------------------
(* Other writers of the MATERIAL category.                                   *)

\* recordInboundTx: quantity and value are added.
ReceiveStock(b) == \E r \in Receipts :
    /\ received[b].qty + r.qty <= MaxReceived
    /\ stock' = [stock EXCEPT ![b] = [qty |-> @.qty + r.qty, value |-> @.value + r.value]]
    /\ received' = [received EXCEPT ![b] = [qty |-> @.qty + r.qty, value |-> @.value + r.value]]
    /\ UNCHANGED <<orderVars, clientVars, docVars, receipt, pending>>

Next ==
    \/ \E o \in Orders : \/ ConfirmOrder(o)
                         \/ ChangeCustomer(o)
                         \/ SaveLines(o)
                         \/ CancelOrder(o)
                         \/ DeleteOrder(o)
                         \/ ProgressOrder(o)
    \/ \E s \in Specs : ReviseRecipe(s)
    \/ \E l \in Lines : ReviewSource(l)
    \/ \E c \in Commands : Replay(c)
    \/ \E c \in Commands, d \in Docs : \/ Dispatch(c, d)
                                       \/ Withdraw(c, d)
                                       \/ \E kind \in MovementKinds : Confirm(c, d, kind)
    \/ \E b \in Batches : ReceiveStock(b)

Spec == Init /\ [][Next]_vars

-----------------------------------------------------------------------------
(* Types.                                                                    *)

Document(d) ==
    /\ doc[d] = [status |-> doc[d].status, version |-> doc[d].version, executed |-> doc[d].executed,
                 frozen |-> doc[d].frozen, cmd |-> doc[d].cmd]
    /\ doc[d].status \in {"none", "DISPATCHED", "WITHDRAWN"}
    /\ doc[d].version \in Nat
    /\ doc[d].executed \in BOOLEAN
    /\ DOMAIN doc[d].frozen \subseteq Lines
    /\ \A l \in DOMAIN doc[d].frozen : doc[d].frozen[l] \in Basis
    /\ doc[d].cmd \in Commands \union {None}
Movement(m) ==
    /\ m.kind \in MovementKinds
    /\ m.cmd \in Commands
    /\ \A b \in Batches : m.total[b] \in Nat /\ m.value[b] \in Nat
    /\ \A k \in DOMAIN m.alloc : k \in AllocKey /\ m.alloc[k] \in Nat

\* Type correctness of the whole state (receipts and answers are described by
\* ReceiptsMatchEffects and AnswersMatchReceipts).
TypeOK ==
    /\ order \in [Orders -> [version : Nat, status : OrderStatus, customer : Customers]]
    /\ line \in [Lines -> [state : {"attached", "detached"}, spec : Specs]]
    /\ recipe \in [Specs -> Recipes]
    /\ reviewed \in [Lines -> Basis \union {None}]
    /\ DOMAIN doc = Docs /\ \A d \in Docs : Document(d)
    /\ cover \in [Lines -> Docs \union {None}]
    /\ DOMAIN moves = Docs
    /\ \A d \in Docs : \A i \in 1..Len(moves[d]) : Movement(moves[d][i])
    /\ DOMAIN receipt = Commands
    /\ DOMAIN answer = Commands
    /\ stock \in [Batches -> Balance]
    /\ pending \in [Batches -> Balance]
    /\ received \in [Batches -> Balance]

-----------------------------------------------------------------------------
(* Safety.                                                                   *)

\* A sales-order line is actively covered by a document exactly when that
\* document is dispatched and froze the line: two dispatches never share a
\* source, and a withdrawal frees all of its sources and nobody else's.
CoverageExact == \A l \in Lines, d \in Docs :
    cover[l] = d <=> doc[d].status = "DISPATCHED" /\ l \in DOMAIN doc[d].frozen

\* While a line is covered, the order that owns it still is what the document
\* froze: not a draft, canceled or deleted, the line attached, same customer
\* and same product, quantity and unit.  It takes the re-review at dispatch and
\* the guard of every order command to keep this.
FrozenSourceProtected == \A l \in Lines : cover[l] # None =>
    LET basis == doc[cover[l]].frozen[l] IN
    /\ order[OrderOf[l]].status \in CoverableStatus
    /\ line[l].state = "attached"
    /\ order[OrderOf[l]].customer = basis.customer
    /\ line[l].spec = basis.spec

\* The version of a document counts its history: 1 for the dispatch, 1 per
\* movement, 1 for the withdrawal; a withdrawn document never moved material and
\* the execution mark is set from the first movement on.
VersionCountsHistory == \A d \in Docs :
    /\ doc[d].status = "none" => doc[d].version = 0 /\ moves[d] = <<>>
    /\ doc[d].status = "DISPATCHED" => doc[d].version = 1 + Len(moves[d])
    /\ doc[d].status = "WITHDRAWN" => doc[d].version = 2 /\ moves[d] = <<>>
    /\ doc[d].executed <=> moves[d] # <<>>

\* What a receipt says its command did.
DidEffect(c) ==
    LET r == receipt[c] IN
    /\ r.doc \in Docs
    /\ CASE r.request.intent = "DISPATCH" ->
              /\ doc[r.doc].cmd = c
              /\ doc[r.doc].frozen = r.request.basis
              /\ r.movement = 0
         [] r.request.intent = "WITHDRAW" ->
              /\ doc[r.doc].status = "WITHDRAWN"
              /\ r.movement = 0
         [] OTHER ->
              /\ r.movement \in 1..Len(moves[r.doc])
              /\ moves[r.doc][r.movement].cmd = c
              /\ moves[r.doc][r.movement].kind = r.request.intent
              /\ moves[r.doc][r.movement].alloc = r.request.alloc

\* Commands take effect at most once, however often they are sent: every
\* receipt names an effect its command had, and every document and every
\* movement is the one its command's receipt names.
ReceiptsMatchEffects ==
    /\ \A c \in Commands : receipt[c] # None => DidEffect(c)
    /\ \A d \in Docs : doc[d].status # "none" =>
          /\ receipt[doc[d].cmd] # None
          /\ receipt[doc[d].cmd].request.intent = "DISPATCH"
          /\ receipt[doc[d].cmd].doc = d
    /\ \A d \in Docs : \A i \in 1..Len(moves[d]) :
          LET c == moves[d][i].cmd IN
          receipt[c] # None /\ receipt[c].doc = d /\ receipt[c].movement = i

\* The answer a client holds is the effect of the very request it answers, on
\* a first execution and on a replay alike.
AnswersMatchReceipts == \A c \in Commands : answer[c] # None => answer[c] = receipt[c]

\* No allocation is returned beyond what it issued, and the net issue of a row
\* exceeds its frozen requirement by supplements only.
AllocationsBounded == \A d \in Docs :
    /\ \A o \in Originals(d) : Outstanding(d, o[1], o[2]) >= 0
    /\ \A l \in DOMAIN doc[d].frozen, m \in Materials :
          Net(d, l, m) <= Standard(d, l, m) + RowTotal(d, {"SUPPLEMENT"}, l, m)

\* Quantity and value of a batch are conserved over both custody categories:
\* issues, supplements and returns only move them.
CustodyConserved == \A b \in Batches :
    /\ stock[b].qty + pending[b].qty = received[b].qty
    /\ stock[b].value + pending[b].value = received[b].value

OutstandingQty(b) == MapThenSumSet(
    LAMBDA d : MapThenSumSet(LAMBDA o : Outstanding(d, o[1], o[2]),
                             {o \in Originals(d) : o[2].batch = b}), Docs)
OutstandingValue(b) == MapThenSumSet(
    LAMBDA d : MapThenSumSet(LAMBDA o : Outstanding(d, o[1], o[2]) * OriginalCost(d, o[1], b),
                             {o \in Originals(d) : o[2].batch = b}), Docs)

\* The pending-consumption balance is exactly what the documents' allocations
\* have outstanding, at the cost each was issued at.  Hence a legal return never
\* fails for lack of pending quantity or value, whatever stock costs by then (but for
\* reservations of pending material, which nothing makes).
PendingBacksOutstanding == \A b \in Batches :
    /\ pending[b].qty = OutstandingQty(b)
    /\ pending[b].value = OutstandingValue(b)

\* History is append-only: once dispatched, a document keeps its frozen basis
\* and its movements, its version never falls, and a withdrawal is final.
HistoryAppendOnly == [][\A d \in Docs : doc[d].status # "none" =>
    /\ doc'[d].frozen = doc[d].frozen /\ doc'[d].cmd = doc[d].cmd
    /\ Len(moves'[d]) >= Len(moves[d])
    /\ \A i \in 1..Len(moves[d]) : moves'[d][i] = moves[d][i]
    /\ doc'[d].version > doc[d].version \/ UNCHANGED <<doc[d], moves[d]>>
    /\ doc[d].status = "WITHDRAWN" => doc'[d] = doc[d]]_vars

=============================================================================
