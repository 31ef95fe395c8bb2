----------------------- MODULE MaterialIssuance_proofs -----------------------
(***************************************************************************)
(* Theorems about MaterialIssuance, for every value of its constants.       *)
(*                                                                         *)
(* TypeInv describes the state by sets instead of TypeOK's predicates (TLC  *)
(* cannot enumerate those sets, the provers reason best with them).  Each   *)
(* safety invariant is then inductive relative to the ones before it:       *)
(*   TypeInv -> CoverageExact -> FrozenSourceProtected                      *)
(*   TypeInv -> VersionCountsHistory, CustodyConserved, AnswersMatchReceipts *)
(*   TypeInv, VersionCountsHistory -> ReceiptsInv => ReceiptsMatchEffects    *)
(* The quantities summed over allocations stay opaque here: only the guards  *)
(* of the custody transfer are used, never the value of a sum.  What the     *)
(* sums are is the subject of MaterialIssuanceSums_proofs.                   *)
(***************************************************************************)
EXTENDS MaterialIssuance, TLAPS

Header == [version : Nat, status : OrderStatus, customer : Customers]
LineRecord == [state : {"attached", "detached"}, spec : Specs]
Allocations == UNION {[K -> Nat] : K \in SUBSET AllocKey}
MovementRecord == [kind : MovementKinds, cmd : Commands, total : [Batches -> Nat],
                   value : [Batches -> Nat], alloc : Allocations]
FrozenBasis == UNION {[S -> Basis] : S \in SUBSET Lines}
DocRecord == [status : {"none", "DISPATCHED", "WITHDRAWN"}, version : Nat, executed : BOOLEAN,
              frozen : FrozenBasis, cmd : Commands \union {None}]

OrderTypes ==
    /\ order \in [Orders -> Header]
    /\ line \in [Lines -> LineRecord]
    /\ recipe \in [Specs -> Recipes]
    /\ reviewed \in [Lines -> Basis \union {None}]
DocTypes ==
    /\ doc \in [Docs -> DocRecord]
    /\ cover \in [Lines -> Docs \union {None}]
    /\ moves \in [Docs -> Seq(MovementRecord)]
ReceiptTypes ==
    /\ DOMAIN receipt = Commands
    /\ DOMAIN answer = Commands
    /\ \A c \in Commands : receipt[c] # None =>
          receipt[c] = [request |-> receipt[c].request, doc |-> receipt[c].doc,
                        movement |-> receipt[c].movement]
StockTypes ==
    /\ stock \in [Batches -> Balance]
    /\ pending \in [Batches -> Balance]
    /\ received \in [Batches -> Balance]
TypeInv == OrderTypes /\ DocTypes /\ ReceiptTypes /\ StockTypes

-----------------------------------------------------------------------------
(* Lemmas on the actions.                                                    *)

\* The order commands guarded by coverage, as one disjunction.
OrderCommand(o) ==
    ConfirmOrder(o) \/ ChangeCustomer(o) \/ SaveLines(o) \/ CancelOrder(o) \/ DeleteOrder(o)

\* A derived status is a status, and a coverable one if it was.
LEMMA RecalculatedStatus ==
    ASSUME NEW s \in OrderStatus, NEW r \in Recalculated(s)
    PROVE  r \in OrderStatus /\ (s \in CoverableStatus => r \in CoverableStatus)
BY DEF Recalculated, OrderStatus, CoverableStatus, DispatchableStatus

\* Every guarded order command is a WriteOrder of a well-typed header and line
\* list that leaves the lines of other orders alone.
LEMMA OrderCommandWrites ==
    ASSUME OrderTypes, NEW o \in Orders, OrderCommand(o)
    PROVE  \E h \in Header, ls \in [Lines -> LineRecord], s \in OrderStatus :
              /\ WriteOrder(o, h, ls, s)
              /\ h.status \in CoverableStatus => s \in CoverableStatus
              /\ \A l \in Lines : OrderOf[l] # o => ls[l] = line[l]
<1> DEFINE Writes == \E h \in Header, ls \in [Lines -> LineRecord], s \in OrderStatus :
                        /\ WriteOrder(o, h, ls, s)
                        /\ h.status \in CoverableStatus => s \in CoverableStatus
                        /\ \A l \in Lines : OrderOf[l] # o => ls[l] = line[l]
<1>1. order[o] \in Header /\ order[o].status \in OrderStatus
  BY DEF OrderTypes, Header
<1>2. ASSUME NEW h \in Header, NEW s \in OrderStatus, WriteOrder(o, h, line, s),
             h.status \in CoverableStatus => s \in CoverableStatus
      PROVE  Writes
  BY <1>2 DEF OrderTypes
<1>3. CASE ConfirmOrder(o)
  <2> DEFINE h == [order[o] EXCEPT !.status = "Pending"]
  <2>1. h \in Header /\ h.status = "Pending"
    BY <1>1 DEF Header, OrderStatus
  <2>2. PICK s \in Recalculated("Pending") : WriteOrder(o, h, line, s)
    BY <1>3 DEF ConfirmOrder
  <2>3. s \in OrderStatus /\ s \in CoverableStatus
    BY <2>2, RecalculatedStatus DEF OrderStatus, CoverableStatus, DispatchableStatus
  <2> QED  BY <1>2, <2>1, <2>2, <2>3
<1>4. CASE ChangeCustomer(o)
  <2>1. PICK c \in Customers : WriteOrder(o, [order[o] EXCEPT !.customer = c], line, order[o].status)
    BY <1>4 DEF ChangeCustomer
  <2>2. /\ [order[o] EXCEPT !.customer = c] \in Header
        /\ [order[o] EXCEPT !.customer = c].status = order[o].status
    BY <1>1 DEF Header
  <2> QED  BY <1>1, <1>2, <2>1, <2>2
<1>5. CASE SaveLines(o)
  <2>1. PICK next \in [LinesOf(o) -> LineRecord], s \in Recalculated(order[o].status) :
           WriteOrder(o, order[o], [l \in Lines |-> IF OrderOf[l] = o THEN next[l] ELSE line[l]], s)
    BY <1>5 DEF SaveLines, LineRecord
  <2> DEFINE ls == [l \in Lines |-> IF OrderOf[l] = o THEN next[l] ELSE line[l]]
  <2>2. ls \in [Lines -> LineRecord]
    BY DEF OrderTypes, LinesOf
  <2>3. s \in OrderStatus /\ (order[o].status \in CoverableStatus => s \in CoverableStatus)
    BY <1>1, RecalculatedStatus
  <2> QED  BY <1>1, <2>1, <2>2, <2>3
<1>6. CASE CancelOrder(o)
  <2>1. /\ [order[o] EXCEPT !.status = "Canceled"] \in Header
        /\ [order[o] EXCEPT !.status = "Canceled"].status = "Canceled"
        /\ "Canceled" \in OrderStatus
    BY <1>1 DEF Header, OrderStatus
  <2> QED  BY <1>2, <1>6, <2>1 DEF CancelOrder
<1>7. CASE DeleteOrder(o)
  <2>1. /\ [order[o] EXCEPT !.status = "Deleted"] \in Header
        /\ [order[o] EXCEPT !.status = "Deleted"].status = "Deleted"
        /\ "Deleted" \in OrderStatus
    BY <1>1 DEF Header, OrderStatus
  <2> QED  BY <1>2, <1>7, <2>1 DEF DeleteOrder
<1> QED  BY <1>3, <1>4, <1>5, <1>6, <1>7 DEF OrderCommand

\* A completed command leaves well-formed receipts.
LEMMA CompleteTypes ==
    ASSUME ReceiptTypes, NEW c \in Commands, NEW request, NEW d, NEW movement,
           Complete(c, request, d, movement)
    PROVE  ReceiptTypes'
BY DEF ReceiptTypes, Complete

\* A custody transfer moves natural numbers that both balances keep natural.
LEMMA CustodyTransferTypes ==
    ASSUME StockTypes, NEW kind, NEW total, NEW value,
           total = [b \in Batches |-> total[b]], value = [b \in Batches |-> value[b]],
           CustodyTransfer(kind, total, value)
    PROVE  /\ total \in [Batches -> Nat] /\ value \in [Batches -> Nat]
           /\ stock' \in [Batches -> Balance] /\ pending' \in [Batches -> Balance]
           /\ \A b \in Batches :
                 /\ stock'[b].qty + pending'[b].qty = stock[b].qty + pending[b].qty
                 /\ stock'[b].value + pending'[b].value = stock[b].value + pending[b].value
<1>1. CASE kind = "RETURN"
  <2>1. /\ CanTransfer(kind, pending, total, value)
        /\ pending' = Debit(pending, total, value)
        /\ stock' = Credit(stock, total, value)
    BY <1>1 DEF CustodyTransfer
  <2>2. \A b \in Batches : total[b] \in 0..pending[b].qty /\ value[b] \in 0..pending[b].value
    BY <2>1 DEF CanTransfer
  <2> QED  BY <2>1, <2>2 DEF StockTypes, Balance, Debit, Credit
<1>2. CASE kind # "RETURN"
  <2>1. /\ CanTransfer(kind, stock, total, value)
        /\ stock' = Debit(stock, total, value)
        /\ pending' = Credit(pending, total, value)
    BY <1>2 DEF CustodyTransfer
  <2>2. \A b \in Batches : total[b] \in 0..stock[b].qty /\ value[b] \in 0..stock[b].value
    BY <2>1 DEF CanTransfer
  <2> QED  BY <2>1, <2>2 DEF StockTypes, Balance, Debit, Credit
<1> QED  BY <1>1, <1>2

\* What a confirmation of the movement m does.
Moves(c, d, kind, m) ==
    /\ doc[d].status = "DISPATCHED"
    /\ moves' = [moves EXCEPT ![d] = Append(@, m)]
    /\ doc' = [doc EXCEPT ![d].version = NextVersion(d), ![d].executed = TRUE]
    /\ CustodyTransfer(kind, m.total, m.value)
    /\ \E request : Complete(c, request, d, Len(moves[d]) + 1)
    /\ UNCHANGED <<orderVars, reviewed, cover, received>>

\* What a confirmation of m checks of it: the rest of the handler.
Accepted(d, kind, m) ==
    LET source == IF kind = "RETURN" THEN pending ELSE stock IN
    /\ IsFiniteSet(DOMAIN m.alloc)
    /\ \A k \in DOMAIN m.alloc : m.alloc[k] \in Nat /\ m.alloc[k] > 0
    /\ AllocationAccepted(d, kind, m.alloc)
    /\ Exact(kind, source, m.total)
    /\ m.total = [b \in Batches |-> BatchTotal(m.alloc, b)]
    /\ m.value = MovedValue(d, kind, m.alloc, source, m.total)

\* The movement is the command's, and its receipt says so.
Recorded(c, d, kind, m) ==
    /\ m.kind = kind /\ m.cmd = c
    /\ Complete(c, [intent |-> kind, doc |-> d, version |-> doc[d].version, alloc |-> m.alloc],
                d, Len(moves[d]) + 1)

\* A confirmation appends a typed movement that it checked and recorded, and
\* transfers its custody.
LEMMA ConfirmDoes ==
    ASSUME TypeInv, NEW c \in Commands, NEW d \in Docs, NEW kind \in MovementKinds,
           Confirm(c, d, kind)
    PROVE  \E m \in MovementRecord :
              Moves(c, d, kind, m) /\ Accepted(d, kind, m) /\ Recorded(c, d, kind, m)
<1> DEFINE source == IF kind = "RETURN" THEN pending ELSE stock
           total(alloc) == [b \in Batches |-> BatchTotal(alloc, b)]
           value(alloc) == MovedValue(d, kind, alloc, source, total(alloc))
           movement(alloc) == [kind |-> kind, cmd |-> c, total |-> total(alloc),
                               value |-> value(alloc), alloc |-> alloc]
<1>1. PICK K \in SUBSET CandidateKeys(d, kind) : \E alloc \in [K -> 1..MaxAllocQty] :
         /\ IsFiniteSet(K)
         /\ AllocationAccepted(d, kind, alloc)
         /\ Exact(kind, source, total(alloc))
         /\ CustodyTransfer(kind, total(alloc), value(alloc))
         /\ moves' = [moves EXCEPT ![d] = Append(@, movement(alloc))]
         /\ doc' = [doc EXCEPT ![d].version = NextVersion(d), ![d].executed = TRUE]
         /\ Complete(c, [intent |-> kind, doc |-> d, version |-> doc[d].version, alloc |-> alloc],
                     d, Len(moves[d]) + 1)
  BY DEF Confirm
<1>2. PICK alloc \in [K -> 1..MaxAllocQty] :
         /\ IsFiniteSet(K)
         /\ AllocationAccepted(d, kind, alloc)
         /\ Exact(kind, source, total(alloc))
         /\ CustodyTransfer(kind, total(alloc), value(alloc))
         /\ moves' = [moves EXCEPT ![d] = Append(@, movement(alloc))]
         /\ doc' = [doc EXCEPT ![d].version = NextVersion(d), ![d].executed = TRUE]
         /\ Complete(c, [intent |-> kind, doc |-> d, version |-> doc[d].version, alloc |-> alloc],
                     d, Len(moves[d]) + 1)
  BY <1>1
<1>3. CandidateKeys(d, kind) \subseteq AllocKey
  <2>1. CASE kind = "RETURN"
    <3>1. SUFFICES ASSUME NEW o \in Originals(d)
                   PROVE  [o[2] EXCEPT !.origin = o[1]] \in AllocKey
      BY <2>1 DEF CandidateKeys
    <3>2. PICK i \in DOMAIN moves[d] : o \in {i} \X DOMAIN moves[d][i].alloc
      BY DEF Originals
    <3>3. moves[d] \in Seq(MovementRecord) /\ i \in 1..Len(moves[d])
      BY <3>2 DEF TypeInv, DocTypes
    <3>4. moves[d][i].alloc \in Allocations
      <4>1. moves[d][i] \in MovementRecord
        BY <3>3
      <4> QED  BY <4>1 DEF MovementRecord
    <3>5. o[1] = i /\ o[2] \in DOMAIN moves[d][i].alloc
      BY <3>2
    <3>6. o[2] \in AllocKey
      BY <3>4, <3>5 DEF Allocations
    <3> QED  BY <3>3, <3>5, <3>6 DEF AllocKey
  <2>2. CASE kind # "RETURN"
    <3>1. doc[d].frozen \in FrozenBasis
      BY DEF TypeInv, DocTypes, DocRecord
    <3>2. DOMAIN doc[d].frozen \subseteq Lines
      BY <3>1 DEF FrozenBasis
    <3> QED  BY <2>2, <3>2 DEF CandidateKeys, AllocKey
  <2> QED  BY <2>1, <2>2
<1>4. alloc \in Allocations
  <2>1. K \in SUBSET AllocKey
    BY <1>3
  <2>2. alloc \in [K -> Nat]
    BY ConstantsAssumption DEF ConstantsAssumption
  <2> QED  BY <2>1, <2>2 DEF Allocations
<1>5. total(alloc) \in [Batches -> Nat] /\ value(alloc) \in [Batches -> Nat]
  <2>1. value(alloc) = [b \in Batches |-> value(alloc)[b]]
    BY Zenon DEF MovedValue
  <2>2. total(alloc) = [b \in Batches |-> total(alloc)[b]]
    OBVIOUS
  <2>3. StockTypes
    BY DEF TypeInv
  <2> HIDE DEF total, value
  <2> QED  BY <1>2, <2>1, <2>2, <2>3, CustodyTransferTypes
<1>6. movement(alloc) \in MovementRecord
  <2> HIDE DEF total, value
  <2> QED  BY <1>4, <1>5 DEF MovementRecord
<1>7. /\ doc[d].status = "DISPATCHED"
      /\ UNCHANGED <<orderVars, reviewed, cover, received>>
  BY Zenon DEF Confirm
<1>8. /\ movement(alloc).total = total(alloc) /\ movement(alloc).value = value(alloc)
      /\ movement(alloc).alloc = alloc /\ movement(alloc).kind = kind /\ movement(alloc).cmd = c
  <2> HIDE DEF total, value
  <2> QED  OBVIOUS
<1>9. Moves(c, d, kind, movement(alloc))
  <2> HIDE DEF movement, total, value
  <2> QED  BY <1>2, <1>7, <1>8 DEF Moves
<1>10. Accepted(d, kind, movement(alloc))
  <2>1. DOMAIN alloc = K /\ \A k \in K : alloc[k] \in Nat /\ alloc[k] > 0
    BY ConstantsAssumption DEF ConstantsAssumption
  <2>2. movement(alloc).total = [b \in Batches |-> BatchTotal(alloc, b)]
    BY <1>8
  <2>3. movement(alloc).value = MovedValue(d, kind, alloc, source, movement(alloc).total)
    BY <1>8
  <2> HIDE DEF movement, total, value
  <2> QED  BY <1>2, <1>8, <2>1, <2>2, <2>3 DEF Accepted
<1>11. Recorded(c, d, kind, movement(alloc))
  <2> HIDE DEF movement, total, value
  <2> QED  BY <1>2, <1>8 DEF Recorded
<1> WITNESS movement(alloc) \in MovementRecord
<1> HIDE DEF movement, total, value
<1> QED  BY <1>9, <1>10, <1>11

\* The same without its checks.
LEMMA ConfirmMoves ==
    ASSUME TypeInv, NEW c \in Commands, NEW d \in Docs, NEW kind \in MovementKinds,
           Confirm(c, d, kind)
    PROVE  \E m \in MovementRecord : Moves(c, d, kind, m)
BY ConfirmDoes

\* What a dispatch of the lines S does.
Freezes(c, d, S, frozen) ==
    /\ doc[d].status = "none"
    /\ \A l \in S : Reviewable(l) /\ frozen[l] = CurrentBasis(l)
    /\ doc' = [doc EXCEPT ![d] = [status |-> "DISPATCHED", version |-> 1,
                  executed |-> FALSE, frozen |-> frozen, cmd |-> c]]
    /\ Complete(c, [intent |-> "DISPATCH", basis |-> frozen], d, 0)
    /\ cover' = [l \in Lines |-> IF l \in S THEN d ELSE cover[l]]
    /\ UNCHANGED <<orderVars, reviewed, moves, stockVars>>

\* A dispatch freezes reviewed, unchanged bases of free lines into a new document.
LEMMA DispatchFreezes ==
    ASSUME TypeInv, NEW c \in Commands, NEW d \in Docs, Dispatch(c, d)
    PROVE  \E S \in SUBSET Lines : \E frozen \in [S -> Basis] : Freezes(c, d, S, frozen)
<1> DEFINE frozen(S) == [l \in S |-> reviewed[l]]
<1>1. PICK S \in SUBSET Lines :
         /\ doc[d].status = "none"
         /\ \A l \in S : reviewed[l] # None /\ Reviewable(l) /\ BasisUnchanged(l)
         /\ doc' = [doc EXCEPT ![d] = [status |-> "DISPATCHED", version |-> 1,
                       executed |-> FALSE, frozen |-> frozen(S), cmd |-> c]]
         /\ Complete(c, [intent |-> "DISPATCH", basis |-> frozen(S)], d, 0)
         /\ cover' = [l \in Lines |-> IF l \in S THEN d ELSE cover[l]]
         /\ UNCHANGED <<orderVars, reviewed, moves, stockVars>>
  BY Zenon DEF Dispatch
<1>2. \A l \in S : reviewed[l] \in Basis
  BY <1>1 DEF TypeInv, OrderTypes
<1>3. frozen(S) \in [S -> Basis]
  BY <1>2
<1>4. \A l \in S : Reviewable(l) /\ frozen(S)[l] = CurrentBasis(l)
  BY <1>1 DEF BasisUnchanged
<1> WITNESS S \in SUBSET Lines
<1> WITNESS frozen(S) \in [S -> Basis]
<1> HIDE DEF frozen
<1> QED  BY <1>1, <1>4 DEF Freezes

-----------------------------------------------------------------------------
(* Types.                                                                    *)

\* Updated headers and document records keep their types.
LEMMA HeaderUpdate ==
    ASSUME NEW h \in Header, NEW s \in OrderStatus, NEW n \in Nat
    PROVE  [h EXCEPT !.status = s, !.version = n] \in Header
BY DEF Header

\* A withdrawal only changes a document's status and version.
LEMMA WithdrawnRecord ==
    ASSUME NEW r \in DocRecord, NEW n \in Nat
    PROVE  [r EXCEPT !.status = "WITHDRAWN", !.version = n] \in DocRecord
BY DEF DocRecord

\* A confirmation only changes a document's version and execution mark.
LEMMA ExecutedRecord ==
    ASSUME NEW r \in DocRecord, NEW n \in Nat
    PROVE  [r EXCEPT !.version = n, !.executed = TRUE] \in DocRecord
BY DEF DocRecord

\* The initial tables are well typed.
LEMMA InitTypes == Init => TypeInv
<1> SUFFICES ASSUME Init PROVE TypeInv
  OBVIOUS
<1>1. OrderTypes
  <2>1. NewOrder \in Header /\ NewLine \in LineRecord
    BY ConstantsAssumption DEF ConstantsAssumption, NewOrder, NewLine, Header, LineRecord, OrderStatus
  <2> QED  BY <2>1 DEF Init, OrderTypes
<1>2. DocTypes
  <2>1. NoDoc.frozen \in [{} -> Basis]
    BY DEF NoDoc
  <2>2. NoDoc.frozen \in FrozenBasis
    BY <2>1 DEF FrozenBasis
  <2>3. NoDoc \in DocRecord
    BY <2>2 DEF NoDoc, DocRecord
  <2> QED  BY <2>3 DEF Init, DocTypes
<1>3. ReceiptTypes
  BY DEF Init, ReceiptTypes
<1>4. StockTypes
  BY DEF Init, StockTypes, Balance
<1> QED  BY <1>1, <1>2, <1>3, <1>4 DEF TypeInv

\* The current basis of a line is a basis.
LEMMA CurrentBasisType ==
    ASSUME OrderTypes, NEW l \in Lines
    PROVE  CurrentBasis(l) \in Basis
<1>1. OrderOf[l] \in Orders
  BY ConstantsAssumption DEF ConstantsAssumption
<1>2. order[OrderOf[l]] \in Header /\ line[l] \in LineRecord
  BY <1>1 DEF OrderTypes
<1>3. recipe[line[l].spec] \in Recipes
  BY <1>2 DEF OrderTypes, LineRecord
<1> QED  BY <1>2, <1>3 DEF CurrentBasis, Basis, Header, LineRecord

\* The typing invariant is inductive: one case per command.
LEMMA StepTypes == TypeInv /\ [Next]_vars => TypeInv'
<1> SUFFICES ASSUME TypeInv, [Next]_vars PROVE TypeInv'
  OBVIOUS
<1> USE DEF TypeInv
<1>1. CASE UNCHANGED vars
  BY <1>1 DEF vars, OrderTypes, DocTypes, ReceiptTypes, StockTypes
<1>2. ASSUME NEW o \in Orders, OrderCommand(o) PROVE TypeInv'
  <2>1. PICK h \in Header, ls \in [Lines -> LineRecord], s \in OrderStatus : WriteOrder(o, h, ls, s)
    BY <1>2, OrderCommandWrites
  <2>2. [h EXCEPT !.version = order[o].version + 1, !.status = s] \in Header
    <3>1. order[o].version + 1 \in Nat
      BY DEF OrderTypes, Header
    <3> QED  BY <3>1 DEF Header
  <2>3. OrderTypes'
    BY <2>1, <2>2 DEF WriteOrder, OrderTypes, clientVars
  <2>4. DocTypes' /\ ReceiptTypes' /\ StockTypes'
    BY <2>1 DEF WriteOrder, clientVars, docVars, stockVars, DocTypes, ReceiptTypes, StockTypes
  <2> QED  BY <2>3, <2>4
<1>3. ASSUME NEW o \in Orders, ProgressOrder(o) PROVE TypeInv'
  <2>1. PICK s \in Recalculated(order[o].status), bump \in {0, 1} :
           order' = [order EXCEPT ![o].status = s, ![o].version = @ + bump]
    BY <1>3 DEF ProgressOrder
  <2> s \in OrderStatus
    BY RecalculatedStatus DEF OrderTypes, Header
  <2>2. order' \in [Orders -> Header]
    <3>1. [order[o] EXCEPT !.status = s, !.version = @ + bump] \in Header
      <4>1. order[o] \in Header /\ order[o].version + bump \in Nat
        BY DEF OrderTypes, Header
      <4> QED  BY <4>1, HeaderUpdate
    <3>2. order' = [order EXCEPT ![o] = [order[o] EXCEPT !.status = s, !.version = @ + bump]]
      BY <2>1 DEF OrderTypes
    <3> QED  BY <3>1, <3>2 DEF OrderTypes
  <2>3. OrderTypes'
    BY <1>3, <2>2 DEF ProgressOrder, OrderTypes, clientVars
  <2>4. DocTypes' /\ ReceiptTypes' /\ StockTypes'
    BY <1>3 DEF ProgressOrder, clientVars, docVars, stockVars, DocTypes, ReceiptTypes, StockTypes
  <2> QED  BY <2>3, <2>4
<1>4. ASSUME NEW s \in Specs, ReviseRecipe(s) PROVE TypeInv'
  <2>1. OrderTypes'
    BY <1>4 DEF ReviseRecipe, OrderTypes, clientVars
  <2>2. DocTypes' /\ ReceiptTypes' /\ StockTypes'
    BY <1>4 DEF ReviseRecipe, clientVars, docVars, stockVars, DocTypes, ReceiptTypes, StockTypes
  <2> QED  BY <2>1, <2>2
<1>5. ASSUME NEW l \in Lines, ReviewSource(l) PROVE TypeInv'
  <2>1. CurrentBasis(l) \in Basis
    BY CurrentBasisType
  <2>2. OrderTypes'
    BY <1>5, <2>1 DEF ReviewSource, OrderTypes, orderVars
  <2>3. DocTypes' /\ ReceiptTypes' /\ StockTypes'
    BY <1>5 DEF ReviewSource, docVars, stockVars, DocTypes, ReceiptTypes, StockTypes
  <2> QED  BY <2>2, <2>3
<1>6. ASSUME NEW c \in Commands, Replay(c) PROVE TypeInv'
  <2>1. OrderTypes' /\ DocTypes' /\ StockTypes'
    BY <1>6 DEF Replay, orderVars, docVars, stockVars, OrderTypes, DocTypes, StockTypes
  <2>2. ReceiptTypes'
    BY <1>6 DEF Replay, ReceiptTypes
  <2> QED  BY <2>1, <2>2
<1>7. ASSUME NEW c \in Commands, NEW d \in Docs, Dispatch(c, d) PROVE TypeInv'
  <2>0. PICK S \in SUBSET Lines : \E frozen \in [S -> Basis] : Freezes(c, d, S, frozen)
    BY <1>7, DispatchFreezes
  <2>1. PICK frozen \in [S -> Basis] : Freezes(c, d, S, frozen)
    BY <2>0
  <2> USE <2>1 DEF Freezes
  <2>2. [S -> Basis] \subseteq FrozenBasis
    BY DEF FrozenBasis
  <2>3. DocTypes'
    BY <2>1, <2>2 DEF DocTypes, DocRecord
  <2>4. ReceiptTypes'
    BY <2>1, CompleteTypes
  <2>5. OrderTypes' /\ StockTypes'
    BY <2>1 DEF orderVars, stockVars, OrderTypes, StockTypes
  <2> QED  BY <2>3, <2>4, <2>5
<1>8. ASSUME NEW c \in Commands, NEW d \in Docs, Withdraw(c, d) PROVE TypeInv'
  <2>1. DocTypes'
    <3>1. [doc[d] EXCEPT !.status = "WITHDRAWN", !.version = NextVersion(d)] \in DocRecord
      <4>1. doc[d] \in DocRecord /\ NextVersion(d) \in Nat
        BY DEF DocTypes, DocRecord, NextVersion
      <4> QED  BY <4>1, WithdrawnRecord
    <3>2. doc' = [doc EXCEPT ![d] = [doc[d] EXCEPT !.status = "WITHDRAWN", !.version = NextVersion(d)]]
      BY <1>8 DEF Withdraw, DocTypes
    <3> QED  BY <1>8, <3>1, <3>2 DEF Withdraw, DocTypes
  <2>2. ReceiptTypes'
    BY <1>8, CompleteTypes DEF Withdraw
  <2>3. OrderTypes' /\ StockTypes'
    BY <1>8 DEF Withdraw, orderVars, stockVars, OrderTypes, StockTypes
  <2> QED  BY <2>1, <2>2, <2>3
<1>9. ASSUME NEW c \in Commands, NEW d \in Docs, NEW kind \in MovementKinds, Confirm(c, d, kind)
      PROVE  TypeInv'
  <2>1. PICK m \in MovementRecord : Moves(c, d, kind, m)
    BY <1>9, ConfirmMoves
  <2> USE DEF Moves
  <2>2. DocTypes'
    <3>1. moves' \in [Docs -> Seq(MovementRecord)]
      BY <2>1 DEF DocTypes
    <3>2. doc' \in [Docs -> DocRecord]
      <4>1. [doc[d] EXCEPT !.version = NextVersion(d), !.executed = TRUE] \in DocRecord
        <5>1. doc[d] \in DocRecord /\ NextVersion(d) \in Nat
          BY DEF DocTypes, DocRecord, NextVersion
        <5> QED  BY <5>1, ExecutedRecord
      <4>2. doc' = [doc EXCEPT ![d] = [doc[d] EXCEPT !.version = NextVersion(d), !.executed = TRUE]]
        BY <2>1 DEF DocTypes
      <4> QED  BY <4>1, <4>2 DEF DocTypes
    <3> QED  BY <2>1, <3>1, <3>2 DEF DocTypes
  <2>3. ReceiptTypes'
    BY <2>1, CompleteTypes
  <2>4. StockTypes'
    <3>1. m.total = [b \in Batches |-> m.total[b]] /\ m.value = [b \in Batches |-> m.value[b]]
      BY DEF MovementRecord
    <3>2. stock' \in [Batches -> Balance] /\ pending' \in [Batches -> Balance]
      BY <2>1, <3>1, CustodyTransferTypes
    <3> QED  BY <2>1, <3>2 DEF StockTypes
  <2>5. OrderTypes'
    BY <2>1 DEF orderVars, OrderTypes
  <2> QED  BY <2>2, <2>3, <2>4, <2>5
<1>10. ASSUME NEW b \in Batches, ReceiveStock(b) PROVE TypeInv'
  <2>1. PICK r \in [qty : Nat, value : Nat] :
           /\ stock' = [stock EXCEPT ![b] = [qty |-> @.qty + r.qty, value |-> @.value + r.value]]
           /\ received' = [received EXCEPT ![b] = [qty |-> @.qty + r.qty, value |-> @.value + r.value]]
           /\ UNCHANGED <<orderVars, clientVars, docVars, receipt, pending>>
    BY <1>10, ConstantsAssumption DEF ReceiveStock, ConstantsAssumption
  <2>2. StockTypes'
    BY <2>1 DEF StockTypes, Balance
  <2>3. OrderTypes' /\ DocTypes' /\ ReceiptTypes'
    BY <2>1 DEF orderVars, clientVars, docVars, OrderTypes, DocTypes, ReceiptTypes
  <2> QED  BY <2>2, <2>3
<1> QED
  BY <1>1, <1>2, <1>3, <1>4, <1>5, <1>6, <1>7, <1>8, <1>9, <1>10 DEF Next, OrderCommand

\* The typing invariant implies the type correctness TLC checks.
LEMMA TypeInvImpliesTypeOK == TypeInv => TypeOK
<1> SUFFICES ASSUME TypeInv PROVE TypeOK
  OBVIOUS
<1>1. \A d \in Docs : Document(d)
  <2> SUFFICES ASSUME NEW d \in Docs PROVE Document(d)
    OBVIOUS
  <2>1. doc[d] \in DocRecord
    BY DEF TypeInv, DocTypes
  <2>2. doc[d] = [status |-> doc[d].status, version |-> doc[d].version, executed |-> doc[d].executed,
                  frozen |-> doc[d].frozen, cmd |-> doc[d].cmd]
    BY <2>1, Zenon DEF DocRecord
  <2>3. DOMAIN doc[d].frozen \subseteq Lines /\ \A l \in DOMAIN doc[d].frozen : doc[d].frozen[l] \in Basis
    BY <2>1 DEF DocRecord, FrozenBasis
  <2>4. /\ doc[d].status \in {"none", "DISPATCHED", "WITHDRAWN"} /\ doc[d].version \in Nat
        /\ doc[d].executed \in BOOLEAN /\ doc[d].cmd \in Commands \union {None}
    BY <2>1 DEF DocRecord
  <2> QED  BY <2>2, <2>3, <2>4 DEF Document
<1>2. \A d \in Docs : \A i \in 1..Len(moves[d]) : Movement(moves[d][i])
  <2> SUFFICES ASSUME NEW d \in Docs, NEW i \in 1..Len(moves[d]) PROVE Movement(moves[d][i])
    OBVIOUS
  <2>1. moves[d][i] \in MovementRecord
    BY DEF TypeInv, DocTypes
  <2>2. moves[d][i].alloc \in Allocations
    BY <2>1 DEF MovementRecord
  <2>3. \A k \in DOMAIN moves[d][i].alloc : k \in AllocKey /\ moves[d][i].alloc[k] \in Nat
    BY <2>2 DEF Allocations
  <2> QED  BY <2>1, <2>3 DEF Movement, MovementRecord
<1> QED  BY <1>1, <1>2 DEF TypeInv, OrderTypes, DocTypes, ReceiptTypes, StockTypes, TypeOK,
               Header, LineRecord

\* Every reachable state is well typed: in particular no balance, of either
\* custody category, is ever negative, whatever the warehouse confirms.
THEOREM TypeCorrect == Spec => []TypeOK
<1>1. Init => TypeInv
  BY InitTypes
<1>2. TypeInv /\ [Next]_vars => TypeInv'
  BY StepTypes
<1>3. TypeInv => TypeOK
  BY TypeInvImpliesTypeOK
<1> QED  BY <1>1, <1>2, <1>3, PTL DEF Spec

\* Every reachable state is well typed.
LEMMA AlwaysTyped == Spec => []TypeInv
<1>1. Init => TypeInv
  BY InitTypes
<1>2. TypeInv /\ [Next]_vars => TypeInv'
  BY StepTypes
<1> QED  BY <1>1, <1>2, PTL DEF Spec

-----------------------------------------------------------------------------
(* Coverage.                                                                 *)

\* Steps that leave documents, coverage and movements alone.
DocsAlone == UNCHANGED <<doc, cover, moves, receipt, pending>>

\* The commands that touch neither documents nor coverage, and the three that do.
LEMMA DocumentSteps ==
    ASSUME TypeInv, [Next]_vars
    PROVE  \/ DocsAlone
           \/ \E c \in Commands, d \in Docs :
                 Dispatch(c, d) \/ Withdraw(c, d) \/ \E kind \in MovementKinds : Confirm(c, d, kind)
<1>1. CASE UNCHANGED vars
  BY <1>1 DEF vars, DocsAlone
<1>2. ASSUME NEW o \in Orders, OrderCommand(o) PROVE DocsAlone
  BY <1>2, OrderCommandWrites DEF TypeInv, WriteOrder, docVars, stockVars, DocsAlone
<1>3. ASSUME NEW o \in Orders, ProgressOrder(o) PROVE DocsAlone
  BY <1>3 DEF ProgressOrder, docVars, stockVars, DocsAlone
<1>4. ASSUME NEW s \in Specs, ReviseRecipe(s) PROVE DocsAlone
  BY <1>4 DEF ReviseRecipe, docVars, stockVars, DocsAlone
<1>5. ASSUME NEW l \in Lines, ReviewSource(l) PROVE DocsAlone
  BY <1>5 DEF ReviewSource, docVars, stockVars, DocsAlone
<1>6. ASSUME NEW c \in Commands, Replay(c) PROVE DocsAlone
  BY <1>6 DEF Replay, docVars, stockVars, DocsAlone
<1>7. ASSUME NEW b \in Batches, ReceiveStock(b) PROVE DocsAlone
  BY <1>7 DEF ReceiveStock, docVars, stockVars, DocsAlone
<1> QED  BY <1>1, <1>2, <1>3, <1>4, <1>5, <1>6, <1>7 DEF Next, OrderCommand

\* No line is covered and no document dispatched at first.
LEMMA InitCoverage == Init => CoverageExact
BY ConstantsAssumption DEF ConstantsAssumption, Init, CoverageExact, NoDoc

\* A dispatch takes free lines only, a withdrawal frees exactly its own.
LEMMA StepCoverage == TypeInv /\ CoverageExact /\ [Next]_vars => CoverageExact'
<1> SUFFICES ASSUME TypeInv, CoverageExact, [Next]_vars PROVE CoverageExact'
  OBVIOUS
<1>1. CASE DocsAlone
  BY <1>1 DEF DocsAlone, CoverageExact
<1>2. ASSUME NEW c \in Commands, NEW d \in Docs, Dispatch(c, d) PROVE CoverageExact'
  <2>0. PICK S \in SUBSET Lines : \E frozen \in [S -> Basis] : Freezes(c, d, S, frozen)
    BY <1>2, DispatchFreezes
  <2>1. PICK frozen \in [S -> Basis] : Freezes(c, d, S, frozen)
    BY <2>0
  <2> USE <2>1 DEF Freezes
  <2>2. /\ doc'[d].status = "DISPATCHED" /\ DOMAIN doc'[d].frozen = S
        /\ \A e \in Docs \ {d} : doc'[e] = doc[e]
    BY <2>1 DEF TypeInv, DocTypes
  <2>3. \A l \in Lines : cover[l] # d
    BY <2>1 DEF CoverageExact
  <2>4. \A l \in S : cover[l] = None
    BY <2>1 DEF Reviewable
  <2> SUFFICES ASSUME NEW l \in Lines, NEW e \in Docs
               PROVE  cover'[l] = e <=> doc'[e].status = "DISPATCHED" /\ l \in DOMAIN doc'[e].frozen
    BY DEF CoverageExact
  <2>5. CASE e = d
    BY <2>1, <2>2, <2>3, <2>5
  <2>6. CASE e # d
    <3>1. cover'[l] = e <=> cover[l] = e
      BY <2>1, <2>4, <2>6, ConstantsAssumption DEF ConstantsAssumption
    <3> QED  BY <2>2, <2>6, <3>1 DEF CoverageExact
  <2> QED  BY <2>5, <2>6
<1>3. ASSUME NEW c \in Commands, NEW d \in Docs, Withdraw(c, d) PROVE CoverageExact'
  <2>1. /\ cover' = [l \in Lines |-> IF cover[l] = d THEN None ELSE cover[l]]
        /\ doc' = [doc EXCEPT ![d].status = "WITHDRAWN", ![d].version = NextVersion(d)]
    BY <1>3 DEF Withdraw
  <2>2. /\ doc'[d].status = "WITHDRAWN"
        /\ \A e \in Docs \ {d} : doc'[e] = doc[e]
    BY <2>1 DEF TypeInv, DocTypes, DocRecord
  <2> SUFFICES ASSUME NEW l \in Lines, NEW e \in Docs
               PROVE  cover'[l] = e <=> doc'[e].status = "DISPATCHED" /\ l \in DOMAIN doc'[e].frozen
    BY DEF CoverageExact
  <2>3. CASE e = d
    BY <2>1, <2>2, <2>3, ConstantsAssumption DEF ConstantsAssumption
  <2>4. CASE e # d
    <3>1. cover'[l] = e <=> cover[l] = e
      BY <2>1, <2>4, ConstantsAssumption DEF ConstantsAssumption
    <3> QED  BY <2>2, <2>4, <3>1 DEF CoverageExact
  <2> QED  BY <2>3, <2>4
<1>4. ASSUME NEW c \in Commands, NEW d \in Docs, NEW kind \in MovementKinds, Confirm(c, d, kind)
      PROVE  CoverageExact'
  <2>1. /\ doc' = [doc EXCEPT ![d].version = NextVersion(d), ![d].executed = TRUE]
        /\ cover' = cover
    BY <1>4, ConfirmMoves DEF Moves
  <2>2. \A e \in Docs : doc'[e].status = doc[e].status /\ doc'[e].frozen = doc[e].frozen
    BY <2>1 DEF TypeInv, DocTypes, DocRecord
  <2> SUFFICES ASSUME NEW l \in Lines, NEW e \in Docs
               PROVE  cover'[l] = e <=> doc'[e].status = "DISPATCHED" /\ l \in DOMAIN doc'[e].frozen
    BY DEF CoverageExact
  <2>3. doc'[e].status = doc[e].status /\ DOMAIN doc'[e].frozen = DOMAIN doc[e].frozen
    BY <2>2
  <2> QED  BY <2>1, <2>3 DEF CoverageExact
<1> QED  BY <1>1, <1>2, <1>3, <1>4, DocumentSteps

\* Two dispatched documents never cover the same sales-order line, and what is
\* covered is exactly what the dispatched documents froze.
THEOREM CoverageIsExact == Spec => []CoverageExact
<1>1. Init => CoverageExact
  BY InitCoverage
<1>2. TypeInv /\ CoverageExact /\ [Next]_vars => CoverageExact'
  BY StepCoverage
<1>3. Spec => []TypeInv
  BY AlwaysTyped
<1> QED  BY <1>1, <1>2, <1>3, PTL DEF Spec

-----------------------------------------------------------------------------
(* Frozen sources.                                                           *)

\* What FrozenSourceProtected says of one line, for a header, a line record and
\* the basis a document froze.
Holds(h, r, basis) ==
    /\ h.status \in CoverableStatus
    /\ r.state = "attached"
    /\ h.customer = basis.customer
    /\ r.spec = basis.spec

\* FrozenSourceProtected, line by line.
LEMMA ProtectedAsHolds ==
    FrozenSourceProtected <=>
        \A l \in Lines : cover[l] # None =>
            Holds(order[OrderOf[l]], line[l], doc[cover[l]].frozen[l])
BY DEF FrozenSourceProtected, Holds

\* No line is covered at first.
LEMMA InitProtected == Init => FrozenSourceProtected
BY DEF Init, FrozenSourceProtected

\* Order commands respect the frozen basis of covered lines; a dispatch freezes
\* only the basis its re-review finds current.
LEMMA StepProtected ==
    TypeInv /\ CoverageExact /\ FrozenSourceProtected /\ [Next]_vars => FrozenSourceProtected'
<1> SUFFICES ASSUME TypeInv, CoverageExact, FrozenSourceProtected, [Next]_vars,
                    NEW l \in Lines, cover'[l] # None
             PROVE  Holds(order'[OrderOf[l]], line'[l], doc'[cover'[l]].frozen[l])
  BY DEF FrozenSourceProtected, Holds
<1> DEFINE o1 == OrderOf[l]
           Same == /\ order'[o1].status = order[o1].status
                   /\ order'[o1].customer = order[o1].customer
                   /\ line'[l] = line[l]
           Goal == Holds(order'[o1], line'[l], doc'[cover'[l]].frozen[l])
<1>1. o1 \in Orders
  BY ConstantsAssumption DEF ConstantsAssumption
<1>2. cover[l] # None => Holds(order[o1], line[l], doc[cover[l]].frozen[l])
  BY ProtectedAsHolds
<1>3. ASSUME Same, cover[l] # None, doc'[cover'[l]].frozen[l] = doc[cover[l]].frozen[l] PROVE Goal
  BY <1>2, <1>3 DEF Holds
<1>4. CASE UNCHANGED vars
  BY <1>3, <1>4 DEF vars
<1>5. ASSUME NEW o \in Orders, OrderCommand(o) PROVE Goal
  <2>1. PICK h \in Header, ls \in [Lines -> LineRecord], s \in OrderStatus :
           /\ WriteOrder(o, h, ls, s)
           /\ h.status \in CoverableStatus => s \in CoverableStatus
           /\ \A k \in Lines : OrderOf[k] # o => ls[k] = line[k]
    BY <1>5, OrderCommandWrites DEF TypeInv
  <2>2. /\ order' = [order EXCEPT ![o] = [h EXCEPT !.version = order[o].version + 1, !.status = s]]
        /\ line' = ls /\ UNCHANGED <<doc, cover>> /\ CoverageAllows(o, h, ls)
    BY <2>1 DEF WriteOrder, docVars
  <2>3. CASE o = o1
    <3>1. l \in CoveredLines(o)
      BY <2>2, <2>3 DEF CoveredLines, LinesOf
    <3>2. /\ h.status \in CoverableStatus
          /\ ls[l].state = "attached"
          /\ h.customer = doc[cover[l]].frozen[l].customer
          /\ ls[l].spec = doc[cover[l]].frozen[l].spec
      BY <2>2, <3>1 DEF CoverageAllows
    <3>3. order'[o1].status = s /\ order'[o1].customer = h.customer
      BY <2>2, <2>3 DEF TypeInv, OrderTypes, Header
    <3> QED  BY <2>1, <2>2, <3>2, <3>3 DEF Holds
  <2>4. CASE o # o1
    <3>1. Same
      BY <1>1, <2>1, <2>2, <2>4 DEF TypeInv, OrderTypes
    <3> QED  BY <1>3, <2>2, <3>1
  <2> QED  BY <2>3, <2>4
<1>6. ASSUME NEW o \in Orders, ProgressOrder(o) PROVE Goal
  <2>1. PICK s \in Recalculated(order[o].status), bump \in {0, 1} :
           order' = [order EXCEPT ![o].status = s, ![o].version = @ + bump]
    BY <1>6 DEF ProgressOrder
  <2>2. UNCHANGED <<doc, cover, line>>
    BY <1>6 DEF ProgressOrder, docVars
  <2>3. order'[o1].customer = order[o1].customer
    BY <1>1, <2>1 DEF TypeInv, OrderTypes, Header
  <2>4. order'[o1].status \in CoverableStatus
    <3>1. CASE o = o1
      <4>1. order'[o1].status = s
        BY <1>1, <2>1, <3>1 DEF TypeInv, OrderTypes, Header
      <4>2. order[o1].status \in OrderStatus /\ order[o1].status \in CoverableStatus
        BY <1>1, <1>2, <2>2 DEF TypeInv, OrderTypes, Header, Holds
      <4> QED  BY <3>1, <4>1, <4>2, RecalculatedStatus
    <3>2. CASE o # o1
      BY <1>1, <1>2, <2>1, <2>2, <3>2 DEF TypeInv, OrderTypes, Holds
    <3> QED  BY <3>1, <3>2
  <2> QED  BY <1>2, <2>2, <2>3, <2>4 DEF Holds
<1>7. ASSUME NEW s \in Specs, ReviseRecipe(s) PROVE Goal
  BY <1>3, <1>7 DEF ReviseRecipe, docVars
<1>8. ASSUME NEW k \in Lines, ReviewSource(k) PROVE Goal
  BY <1>3, <1>8 DEF ReviewSource, docVars, orderVars
<1>9. ASSUME NEW c \in Commands, Replay(c) PROVE Goal
  BY <1>3, <1>9 DEF Replay, docVars, orderVars
<1>10. ASSUME NEW c \in Commands, NEW d \in Docs, Dispatch(c, d) PROVE Goal
  <2>0. PICK S \in SUBSET Lines : \E frozen \in [S -> Basis] : Freezes(c, d, S, frozen)
    BY <1>10, DispatchFreezes
  <2>1. PICK frozen \in [S -> Basis] : Freezes(c, d, S, frozen)
    BY <2>0
  <2> USE <2>1 DEF Freezes
  <2>2. Same
    BY <2>1 DEF orderVars
  <2>3. CASE l \in S
    <3>1. doc'[d].frozen[l] = CurrentBasis(l) /\ cover'[l] = d
      BY <2>1, <2>3 DEF TypeInv, DocTypes
    <3>2. order[o1].status \in CoverableStatus /\ line[l].state = "attached"
      BY <2>1, <2>3 DEF Reviewable, CoverableStatus
    <3> QED  BY <2>2, <3>1, <3>2 DEF CurrentBasis, Holds
  <2>4. CASE l \notin S
    <3>1. cover'[l] = cover[l]
      BY <2>1, <2>4
    <3>2. cover[l] \in Docs /\ cover[l] # d
      BY <2>1, <3>1 DEF TypeInv, DocTypes, CoverageExact
    <3>3. doc'[cover[l]] = doc[cover[l]]
      BY <2>1, <3>2 DEF TypeInv, DocTypes
    <3> QED  BY <1>3, <2>2, <3>1, <3>3
  <2> QED  BY <2>3, <2>4
<1>11. ASSUME NEW c \in Commands, NEW d \in Docs, Withdraw(c, d) PROVE Goal
  <2>1. /\ cover' = [k \in Lines |-> IF cover[k] = d THEN None ELSE cover[k]]
        /\ doc' = [doc EXCEPT ![d].status = "WITHDRAWN", ![d].version = NextVersion(d)]
        /\ UNCHANGED orderVars
    BY <1>11 DEF Withdraw
  <2>2. cover'[l] = cover[l] /\ cover[l] \in Docs \ {d}
    BY <2>1 DEF TypeInv, DocTypes
  <2>3. doc'[cover[l]] = doc[cover[l]]
    BY <2>1, <2>2 DEF TypeInv, DocTypes
  <2> QED  BY <1>3, <2>1, <2>2, <2>3 DEF orderVars
<1>12. ASSUME NEW c \in Commands, NEW d \in Docs, NEW kind \in MovementKinds, Confirm(c, d, kind)
       PROVE  Goal
  <2>1. /\ doc' = [doc EXCEPT ![d].version = NextVersion(d), ![d].executed = TRUE]
        /\ UNCHANGED <<orderVars, cover>>
    BY <1>12, ConfirmMoves DEF Moves
  <2>2. cover[l] \in Docs
    BY <2>1 DEF TypeInv, DocTypes
  <2>3. doc'[cover[l]].frozen = doc[cover[l]].frozen
    BY <2>1, <2>2 DEF TypeInv, DocTypes, DocRecord
  <2> QED  BY <1>3, <2>1, <2>2, <2>3 DEF orderVars
<1>13. ASSUME NEW b \in Batches, ReceiveStock(b) PROVE Goal
  BY <1>3, <1>13 DEF ReceiveStock, docVars, orderVars
<1> QED
  BY <1>4, <1>5, <1>6, <1>7, <1>8, <1>9, <1>10, <1>11, <1>12, <1>13 DEF Next, OrderCommand

\* An order never drifts from what a dispatched document froze of it: the
\* re-review at dispatch and the coverage guard of every order command together
\* keep customer, line, product, quantity and unit.
THEOREM FrozenSourcesProtected == Spec => []FrozenSourceProtected
<1>1. Init => FrozenSourceProtected
  BY InitProtected
<1>2. TypeInv /\ CoverageExact /\ FrozenSourceProtected /\ [Next]_vars => FrozenSourceProtected'
  BY StepProtected
<1>3. Spec => []TypeInv
  BY AlwaysTyped
<1>4. Spec => []CoverageExact
  BY CoverageIsExact
<1> QED  BY <1>1, <1>2, <1>3, <1>4, PTL DEF Spec

-----------------------------------------------------------------------------
(* Versions and history.                                                     *)

\* VersionCountsHistory of one document.
Counted(d) ==
    /\ doc[d].status = "none" => doc[d].version = 0 /\ moves[d] = <<>>
    /\ doc[d].status = "DISPATCHED" => doc[d].version = 1 + Len(moves[d])
    /\ doc[d].status = "WITHDRAWN" => doc[d].version = 2 /\ moves[d] = <<>>
    /\ doc[d].executed <=> moves[d] # <<>>

\* Unused document ids have no version and no movements.
LEMMA InitCounted == Init => VersionCountsHistory
BY DEF Init, VersionCountsHistory, NoDoc

\* Every document command counts once; withdrawal and confirmation exclude each
\* other.
LEMMA StepCounted == TypeInv /\ VersionCountsHistory /\ [Next]_vars => VersionCountsHistory'
<1> SUFFICES ASSUME TypeInv, VersionCountsHistory, [Next]_vars, NEW e \in Docs PROVE Counted(e)'
  BY DEF VersionCountsHistory, Counted
<1>1. Counted(e)
  BY DEF VersionCountsHistory, Counted
<1>2. ASSUME doc'[e] = doc[e], moves'[e] = moves[e] PROVE Counted(e)'
  BY <1>1, <1>2 DEF Counted
<1>3. CASE DocsAlone
  BY <1>2, <1>3 DEF DocsAlone
<1>4. ASSUME NEW c \in Commands, NEW d \in Docs, Dispatch(c, d) PROVE Counted(e)'
  <2>0. PICK S \in SUBSET Lines : \E frozen \in [S -> Basis] : Freezes(c, d, S, frozen)
    BY <1>4, DispatchFreezes
  <2>1. PICK frozen \in [S -> Basis] : Freezes(c, d, S, frozen)
    BY <2>0
  <2>2. moves' = moves
    BY <2>1 DEF Freezes
  <2>3. CASE e = d
    <3>1. doc[e].status = "none" /\ doc'[e].status = "DISPATCHED" /\ doc'[e].version = 1
      BY <2>1, <2>3 DEF Freezes, TypeInv, DocTypes
    <3>2. ~doc'[e].executed
      BY <2>1, <2>3 DEF Freezes, TypeInv, DocTypes
    <3>3. moves'[e] = <<>>
      BY <1>1, <2>2, <3>1 DEF Counted
    <3>4. doc'[e].version = 1 + Len(moves'[e])
      BY <3>1, <3>3
    <3> QED  BY <3>1, <3>2, <3>3, <3>4 DEF Counted
  <2>4. CASE e # d
    <3>1. doc'[e] = doc[e]
      BY <2>1, <2>4 DEF Freezes, TypeInv, DocTypes
    <3> QED  BY <1>2, <2>2, <3>1
  <2> QED  BY <2>3, <2>4
<1>5. ASSUME NEW c \in Commands, NEW d \in Docs, Withdraw(c, d) PROVE Counted(e)'
  <2>1. /\ doc' = [doc EXCEPT ![d].status = "WITHDRAWN", ![d].version = NextVersion(d)]
        /\ moves' = moves /\ Withdrawable(d)
    BY <1>5 DEF Withdraw
  <2>2. CASE e = d
    <3>1. /\ doc'[e].status = "WITHDRAWN" /\ doc'[e].version = doc[e].version + 1
          /\ doc'[e].executed = doc[e].executed
      BY <2>1, <2>2 DEF TypeInv, DocTypes, DocRecord, NextVersion
    <3>2. doc[e].version = 1 /\ ~doc[e].executed /\ moves[e] = <<>>
      BY <1>1, <2>1, <2>2 DEF Withdrawable, Counted
    <3> QED  BY <2>1, <3>1, <3>2 DEF Counted
  <2>3. CASE e # d
    <3>1. doc'[e] = doc[e]
      BY <2>1, <2>3 DEF TypeInv, DocTypes
    <3> QED  BY <1>2, <2>1, <3>1
  <2> QED  BY <2>2, <2>3
<1>6. ASSUME NEW c \in Commands, NEW d \in Docs, NEW kind \in MovementKinds, Confirm(c, d, kind)
      PROVE  Counted(e)'
  <2>1. PICK m \in MovementRecord : Moves(c, d, kind, m)
    BY <1>6, ConfirmMoves
  <2> USE DEF Moves
  <2>2. CASE e = d
    <3>1. /\ doc'[e].status = "DISPATCHED" /\ doc'[e].version = doc[e].version + 1
          /\ doc'[e].executed
      BY <2>1, <2>2 DEF TypeInv, DocTypes, DocRecord, NextVersion
    <3>2. moves[e] \in Seq(MovementRecord) /\ moves'[e] = Append(moves[e], m)
      BY <2>1, <2>2 DEF TypeInv, DocTypes
    <3>3. Len(moves'[e]) = Len(moves[e]) + 1 /\ moves'[e] # <<>>
      BY <3>2
    <3>4. doc[e].version = 1 + Len(moves[e]) /\ Len(moves[e]) \in Nat
      BY <1>1, <2>1, <2>2, <3>2 DEF Counted
    <3>5. doc'[e].version = 1 + Len(moves'[e])
      BY <3>1, <3>3, <3>4
    <3> QED  BY <3>1, <3>3, <3>5 DEF Counted
  <2>3. CASE e # d
    <3>1. doc'[e] = doc[e] /\ moves'[e] = moves[e]
      BY <2>1, <2>3 DEF TypeInv, DocTypes
    <3> QED  BY <1>2, <3>1
  <2> QED  BY <2>2, <2>3
<1> QED  BY <1>3, <1>4, <1>5, <1>6, DocumentSteps

\* A document's version counts its commands, and a withdrawn document never
\* moved material: the withdrawal and the confirmations exclude each other.
THEOREM VersionsCountHistory == Spec => []VersionCountsHistory
<1>1. Init => VersionCountsHistory
  BY InitCounted
<1>2. TypeInv /\ VersionCountsHistory /\ [Next]_vars => VersionCountsHistory'
  BY StepCounted
<1>3. Spec => []TypeInv
  BY AlwaysTyped
<1> QED  BY <1>1, <1>2, <1>3, PTL DEF Spec

-----------------------------------------------------------------------------
(* Custody.                                                                  *)

\* All balances are empty at first.
LEMMA InitConserved == Init => CustodyConserved
BY DEF Init, CustodyConserved

\* A confirmation debits one category by what it credits to the other.
LEMMA StepConserved == TypeInv /\ CustodyConserved /\ [Next]_vars => CustodyConserved'
<1> SUFFICES ASSUME TypeInv, CustodyConserved, [Next]_vars PROVE CustodyConserved'
  OBVIOUS
<1>1. ASSUME UNCHANGED stockVars PROVE CustodyConserved'
  BY <1>1 DEF stockVars, CustodyConserved
<1>2. CASE UNCHANGED vars
  BY <1>1, <1>2 DEF vars, stockVars
<1>3. ASSUME NEW o \in Orders, OrderCommand(o) PROVE CustodyConserved'
  BY <1>1, <1>3, OrderCommandWrites DEF TypeInv, WriteOrder
<1>4. ASSUME NEW o \in Orders, ProgressOrder(o) PROVE CustodyConserved'
  BY <1>1, <1>4 DEF ProgressOrder
<1>5. ASSUME NEW s \in Specs, ReviseRecipe(s) PROVE CustodyConserved'
  BY <1>1, <1>5 DEF ReviseRecipe
<1>6. ASSUME NEW l \in Lines, ReviewSource(l) PROVE CustodyConserved'
  BY <1>1, <1>6 DEF ReviewSource
<1>7. ASSUME NEW c \in Commands, Replay(c) PROVE CustodyConserved'
  BY <1>1, <1>7 DEF Replay
<1>8. ASSUME NEW c \in Commands, NEW d \in Docs, Dispatch(c, d) PROVE CustodyConserved'
  BY <1>1, <1>8, DispatchFreezes DEF Freezes
<1>9. ASSUME NEW c \in Commands, NEW d \in Docs, Withdraw(c, d) PROVE CustodyConserved'
  BY <1>1, <1>9 DEF Withdraw
<1>10. ASSUME NEW c \in Commands, NEW d \in Docs, NEW kind \in MovementKinds, Confirm(c, d, kind)
       PROVE  CustodyConserved'
  <2>1. PICK m \in MovementRecord : Moves(c, d, kind, m)
    BY <1>10, ConfirmMoves
  <2>2. m.total = [b \in Batches |-> m.total[b]] /\ m.value = [b \in Batches |-> m.value[b]]
    BY DEF MovementRecord
  <2>3. \A b \in Batches :
           /\ stock'[b].qty + pending'[b].qty = stock[b].qty + pending[b].qty
           /\ stock'[b].value + pending'[b].value = stock[b].value + pending[b].value
    BY <2>1, <2>2, CustodyTransferTypes DEF Moves, TypeInv
  <2> QED  BY <2>1, <2>3 DEF Moves, CustodyConserved
<1>11. ASSUME NEW b \in Batches, ReceiveStock(b) PROVE CustodyConserved'
  <2>1. PICK r \in [qty : Nat, value : Nat] :
           /\ stock' = [stock EXCEPT ![b] = [qty |-> @.qty + r.qty, value |-> @.value + r.value]]
           /\ received' = [received EXCEPT ![b] = [qty |-> @.qty + r.qty, value |-> @.value + r.value]]
           /\ pending' = pending
    BY <1>11, ConstantsAssumption DEF ReceiveStock, ConstantsAssumption
  <2> SUFFICES ASSUME NEW a \in Batches
               PROVE  /\ stock'[a].qty + pending'[a].qty = received'[a].qty
                      /\ stock'[a].value + pending'[a].value = received'[a].value
    BY DEF CustodyConserved
  <2>2. /\ stock[a] \in Balance /\ pending[a] \in Balance /\ received[a] \in Balance
        /\ stock[a].qty + pending[a].qty = received[a].qty
        /\ stock[a].value + pending[a].value = received[a].value
    BY DEF TypeInv, StockTypes, CustodyConserved
  <2>3. CASE a = b
    <3>1. /\ stock'[a] = [qty |-> stock[a].qty + r.qty, value |-> stock[a].value + r.value]
          /\ received'[a] = [qty |-> received[a].qty + r.qty, value |-> received[a].value + r.value]
      BY <2>1, <2>3 DEF TypeInv, StockTypes
    <3> QED  BY <2>1, <2>2, <3>1 DEF Balance
  <2>4. CASE a # b
    <3>1. stock'[a] = stock[a] /\ received'[a] = received[a]
      BY <2>1, <2>4 DEF TypeInv, StockTypes
    <3> QED  BY <2>1, <2>2, <3>1
  <2> QED  BY <2>3, <2>4
<1> QED
  BY <1>2, <1>3, <1>4, <1>5, <1>6, <1>7, <1>8, <1>9, <1>10, <1>11 DEF Next, OrderCommand

\* Issue, supplement and return move quantity and value between the two custody
\* categories of a batch and create or lose neither.
THEOREM CustodyIsConserved == Spec => []CustodyConserved
<1>1. Init => CustodyConserved
  BY InitConserved
<1>2. TypeInv /\ CustodyConserved /\ [Next]_vars => CustodyConserved'
  BY StepConserved
<1>3. Spec => []TypeInv
  BY AlwaysTyped
<1> QED  BY <1>1, <1>2, <1>3, PTL DEF Spec

-----------------------------------------------------------------------------
(* Answers.                                                                  *)

\* No client holds an answer at first.
LEMMA InitAnswers == Init => AnswersMatchReceipts
BY DEF Init, AnswersMatchReceipts

\* A command that completes leaves the answers of others alone.
LEMMA CompleteAnswers ==
    ASSUME ReceiptTypes, AnswersMatchReceipts, NEW c \in Commands, NEW request, NEW d,
           NEW movement, Complete(c, request, d, movement)
    PROVE  AnswersMatchReceipts'
<1> SUFFICES ASSUME NEW e \in Commands, answer'[e] # None PROVE answer'[e] = receipt'[e]
  BY DEF AnswersMatchReceipts
<1> DEFINE result == [request |-> request, doc |-> d, movement |-> movement]
<1>1. /\ receipt[c] = None
      /\ receipt' = [receipt EXCEPT ![c] = result]
      /\ answer' = answer \/ answer' = [answer EXCEPT ![c] = result]
  BY DEF Complete
<1>2. answer[c] = None
  BY <1>1 DEF AnswersMatchReceipts
<1> HIDE DEF result
<1>3. CASE e = c
  BY <1>1, <1>2, <1>3 DEF ReceiptTypes
<1>4. CASE e # c
  BY <1>1, <1>4 DEF AnswersMatchReceipts, ReceiptTypes
<1> QED  BY <1>3, <1>4

\* An answer is given by the command's completion or by a replay of its receipt.
LEMMA StepAnswers == TypeInv /\ AnswersMatchReceipts /\ [Next]_vars => AnswersMatchReceipts'
<1> SUFFICES ASSUME TypeInv, AnswersMatchReceipts, [Next]_vars PROVE AnswersMatchReceipts'
  OBVIOUS
<1>1. ASSUME UNCHANGED <<answer, receipt>> PROVE AnswersMatchReceipts'
  BY <1>1 DEF AnswersMatchReceipts
<1>2. CASE UNCHANGED vars
  BY <1>1, <1>2 DEF vars
<1>3. ASSUME NEW o \in Orders, OrderCommand(o) PROVE AnswersMatchReceipts'
  BY <1>1, <1>3, OrderCommandWrites DEF TypeInv, WriteOrder, clientVars
<1>4. ASSUME NEW o \in Orders, ProgressOrder(o) PROVE AnswersMatchReceipts'
  BY <1>1, <1>4 DEF ProgressOrder, clientVars
<1>5. ASSUME NEW s \in Specs, ReviseRecipe(s) PROVE AnswersMatchReceipts'
  BY <1>1, <1>5 DEF ReviseRecipe, clientVars
<1>6. ASSUME NEW l \in Lines, ReviewSource(l) PROVE AnswersMatchReceipts'
  BY <1>1, <1>6 DEF ReviewSource
<1>7. ASSUME NEW c \in Commands, Replay(c) PROVE AnswersMatchReceipts'
  <2>1. PICK other \in Commands :
           /\ SameRequest(c, receipt[other].request)
           /\ answer' = [answer EXCEPT ![c] =
                 [receipt[c] EXCEPT !.request = receipt[other].request]]
    BY <1>7 DEF Replay
  <2>2. receipt' = receipt /\ receipt[c] # None
    BY <1>7 DEF Replay
  <2>3. [receipt[c] EXCEPT !.request = receipt[other].request] = receipt[c]
    <3>1. receipt[c].request = receipt[other].request
      BY <2>1 DEF SameRequest
    <3>2. receipt[c] = [request |-> receipt[c].request, doc |-> receipt[c].doc,
                        movement |-> receipt[c].movement]
      BY <2>2 DEF TypeInv, ReceiptTypes
    <3> QED  BY <3>1, <3>2
  <2> QED  BY <2>1, <2>2, <2>3 DEF AnswersMatchReceipts, TypeInv, ReceiptTypes
<1>8. ASSUME NEW c \in Commands, NEW d \in Docs, Dispatch(c, d) PROVE AnswersMatchReceipts'
  BY <1>8, DispatchFreezes, CompleteAnswers DEF Freezes, TypeInv
<1>9. ASSUME NEW c \in Commands, NEW d \in Docs, Withdraw(c, d) PROVE AnswersMatchReceipts'
  BY <1>9, CompleteAnswers DEF Withdraw, TypeInv
<1>10. ASSUME NEW c \in Commands, NEW d \in Docs, NEW kind \in MovementKinds, Confirm(c, d, kind)
       PROVE  AnswersMatchReceipts'
  BY <1>10, ConfirmMoves, CompleteAnswers DEF Moves, TypeInv
<1>11. ASSUME NEW b \in Batches, ReceiveStock(b) PROVE AnswersMatchReceipts'
  BY <1>11, <1>1 DEF ReceiveStock, clientVars
<1> QED
  BY <1>2, <1>3, <1>4, <1>5, <1>6, <1>7, <1>8, <1>9, <1>10, <1>11 DEF Next, OrderCommand

\* A client that gets an answer, at once or by sending its request again, holds
\* the effect recorded for that very request.
THEOREM AnswersAreReceipts == Spec => []AnswersMatchReceipts
<1>1. Init => AnswersMatchReceipts
  BY InitAnswers
<1>2. TypeInv /\ AnswersMatchReceipts /\ [Next]_vars => AnswersMatchReceipts'
  BY StepAnswers
<1>3. Spec => []TypeInv
  BY AlwaysTyped
<1> QED  BY <1>1, <1>2, <1>3, PTL DEF Spec

-----------------------------------------------------------------------------
(* History.                                                                  *)

\* HistoryAppendOnly, of one document and one step.
Appended(d) == doc[d].status # "none" =>
    /\ doc'[d].frozen = doc[d].frozen /\ doc'[d].cmd = doc[d].cmd
    /\ Len(moves'[d]) >= Len(moves[d])
    /\ \A i \in 1..Len(moves[d]) : moves'[d][i] = moves[d][i]
    /\ doc'[d].version > doc[d].version \/ UNCHANGED <<doc[d], moves[d]>>
    /\ doc[d].status = "WITHDRAWN" => doc'[d] = doc[d]

\* Every step only appends to a dispatched document's history.
LEMMA StepAppends == TypeInv /\ [Next]_vars => \A d \in Docs : Appended(d)
<1> SUFFICES ASSUME TypeInv, [Next]_vars, NEW e \in Docs PROVE Appended(e)
  OBVIOUS
<1>1. doc[e] \in DocRecord /\ moves[e] \in Seq(MovementRecord)
  BY DEF TypeInv, DocTypes
<1>2. Len(moves[e]) \in Nat
  BY <1>1
<1>3. ASSUME doc'[e] = doc[e], moves'[e] = moves[e] PROVE Appended(e)
  BY <1>2, <1>3 DEF Appended
<1>4. CASE DocsAlone
  BY <1>3, <1>4 DEF DocsAlone
<1>5. ASSUME NEW c \in Commands, NEW d \in Docs, Dispatch(c, d) PROVE Appended(e)
  <2>0. PICK S \in SUBSET Lines : \E frozen \in [S -> Basis] : Freezes(c, d, S, frozen)
    BY <1>5, DispatchFreezes
  <2>1. PICK frozen \in [S -> Basis] : Freezes(c, d, S, frozen)
    BY <2>0
  <2>2. doc[d].status = "none" /\ moves' = moves
    BY <2>1 DEF Freezes
  <2>3. CASE e = d
    BY <2>2, <2>3 DEF Appended
  <2>4. CASE e # d
    <3>1. doc'[e] = doc[e]
      BY <2>1, <2>4 DEF Freezes, TypeInv, DocTypes
    <3> QED  BY <1>3, <2>2, <3>1
  <2> QED  BY <2>3, <2>4
<1>6. ASSUME NEW c \in Commands, NEW d \in Docs, Withdraw(c, d) PROVE Appended(e)
  <2>1. /\ doc' = [doc EXCEPT ![d].status = "WITHDRAWN", ![d].version = NextVersion(d)]
        /\ moves' = moves /\ doc[d].status = "DISPATCHED"
    BY <1>6 DEF Withdraw, Withdrawable
  <2>2. CASE e = d
    <3>1. /\ doc'[e].frozen = doc[e].frozen /\ doc'[e].cmd = doc[e].cmd
          /\ doc'[e].version = doc[e].version + 1 /\ doc[e].version \in Nat
      BY <2>1, <2>2 DEF TypeInv, DocTypes, DocRecord, NextVersion
    <3>2. doc'[e].version > doc[e].version
      BY <3>1
    <3> QED  BY <1>2, <2>1, <2>2, <3>1, <3>2 DEF Appended
  <2>3. CASE e # d
    <3>1. doc'[e] = doc[e]
      BY <2>1, <2>3 DEF TypeInv, DocTypes
    <3> QED  BY <1>3, <2>1, <3>1
  <2> QED  BY <2>2, <2>3
<1>7. ASSUME NEW c \in Commands, NEW d \in Docs, NEW kind \in MovementKinds, Confirm(c, d, kind)
      PROVE  Appended(e)
  <2>1. PICK m \in MovementRecord : Moves(c, d, kind, m)
    BY <1>7, ConfirmMoves
  <2> USE DEF Moves
  <2>2. CASE e = d
    <3>1. /\ doc'[e].frozen = doc[e].frozen /\ doc'[e].cmd = doc[e].cmd
          /\ doc'[e].version = doc[e].version + 1 /\ doc[e].version \in Nat
      BY <2>1, <2>2 DEF TypeInv, DocTypes, DocRecord, NextVersion
    <3>2. doc'[e].version > doc[e].version
      BY <3>1
    <3>3. moves'[e] = Append(moves[e], m)
      BY <2>1, <2>2 DEF TypeInv, DocTypes
    <3>4. /\ Len(moves'[e]) >= Len(moves[e])
          /\ \A i \in 1..Len(moves[e]) : moves'[e][i] = moves[e][i]
      BY <1>1, <3>3
    <3> QED  BY <2>1, <2>2, <3>1, <3>2, <3>4 DEF Appended
  <2>3. CASE e # d
    <3>1. doc'[e] = doc[e] /\ moves'[e] = moves[e]
      BY <2>1, <2>3 DEF TypeInv, DocTypes
    <3> QED  BY <1>3, <3>1
  <2> QED  BY <2>2, <2>3
<1> QED  BY <1>4, <1>5, <1>6, <1>7, DocumentSteps

\* No step rewrites history: a dispatched document keeps its frozen basis and
\* every movement, its version only rises, and a withdrawal is final.
THEOREM HistoryIsAppendOnly == Spec => HistoryAppendOnly
<1>1. TypeInv /\ [Next]_vars => [\A d \in Docs : Appended(d)]_vars
  BY StepAppends
<1>2. Spec => []TypeInv
  BY AlwaysTyped
<1> QED  BY <1>1, <1>2, PTL DEF Spec, HistoryAppendOnly, Appended

-----------------------------------------------------------------------------
(* Receipts.                                                                 *)

\* The value that stands for no receipt is none (a model value is no record).
NoneIsNoReceipt == \A request, d, movement :
    None # [request |-> request, doc |-> d, movement |-> movement]

\* A receipt names an effect of its command, on a document that exists.
Effective(c) == receipt[c] # None => DidEffect(c) /\ doc[receipt[c].doc].status # "none"

\* A document and its movements name the receipts of their commands.
Receipted(d) ==
    /\ doc[d].status # "none" => /\ doc[d].cmd \in Commands
                                 /\ receipt[doc[d].cmd] # None
                                 /\ receipt[doc[d].cmd].request.intent = "DISPATCH"
                                 /\ receipt[doc[d].cmd].doc = d
    /\ \A i \in 1..Len(moves[d]) : /\ receipt[moves[d][i].cmd] # None
                                   /\ receipt[moves[d][i].cmd].doc = d
                                   /\ receipt[moves[d][i].cmd].movement = i
ReceiptsInv == (\A c \in Commands : Effective(c)) /\ (\A d \in Docs : Receipted(d))

\* A completed command gets its receipt, and had none.
LEMMA CompleteReceipt ==
    ASSUME NoneIsNoReceipt, ReceiptTypes, NEW c \in Commands, NEW request, NEW d, NEW movement,
           Complete(c, request, d, movement)
    PROVE  /\ receipt[c] = None
           /\ receipt'[c] # None /\ receipt'[c].request = request
           /\ receipt'[c].doc = d /\ receipt'[c].movement = movement
           /\ \A e \in Commands : e # c => receipt'[e] = receipt[e]
<1>1. /\ receipt[c] = None
      /\ receipt' = [receipt EXCEPT ![c] = [request |-> request, doc |-> d, movement |-> movement]]
  BY DEF Complete
<1>2. receipt'[c] = [request |-> request, doc |-> d, movement |-> movement]
  BY <1>1 DEF ReceiptTypes
<1>3. \A e \in Commands : e # c => receipt'[e] = receipt[e]
  BY <1>1 DEF ReceiptTypes
<1>4. receipt'[c] # None
  BY <1>2 DEF NoneIsNoReceipt
<1> QED
  BY <1>1, <1>2, <1>3, <1>4

\* An effect stays one while its document only moves on: it is dispatched, if it
\* is new, withdrawn, or gets another movement.
MovesOn(d) ==
    /\ doc[d].status = "none" \/ (doc'[d].cmd = doc[d].cmd /\ doc'[d].frozen = doc[d].frozen)
    /\ doc'[d].status = "none" => doc[d].status = "none"
    /\ doc[d].status = "WITHDRAWN" => doc'[d].status = "WITHDRAWN"
    /\ Len(moves[d]) \in Nat /\ Len(moves'[d]) \in Nat /\ Len(moves[d]) <= Len(moves'[d])
    /\ \A i \in 1..Len(moves[d]) : moves'[d][i] = moves[d][i]

\* So the receipts of other commands keep naming theirs.
LEMMA EffectStays ==
    ASSUME NEW c \in Commands, receipt'[c] = receipt[c], Effective(c),
           \A d \in Docs : MovesOn(d)
    PROVE  Effective(c)'
<1> SUFFICES ASSUME receipt[c] # None
             PROVE  DidEffect(c)' /\ doc'[receipt[c].doc].status # "none"
  BY DEF Effective
<1> DEFINE d == receipt[c].doc
           i == receipt[c].movement
           intent == receipt[c].request.intent
<1>1. d \in Docs /\ DidEffect(c) /\ doc[d].status # "none"
  BY DEF Effective, DidEffect
<1>2. MovesOn(d)
  BY <1>1
<1>3. doc'[d].status # "none" /\ doc'[d].cmd = doc[d].cmd /\ doc'[d].frozen = doc[d].frozen
  BY <1>1, <1>2 DEF MovesOn
<1>4. CASE intent = "DISPATCH"
  BY <1>1, <1>3, <1>4 DEF DidEffect
<1>5. CASE intent = "WITHDRAW"
  BY <1>1, <1>2, <1>3, <1>5 DEF DidEffect, MovesOn
<1>6. CASE intent # "DISPATCH" /\ intent # "WITHDRAW"
  <2>1. /\ i \in 1..Len(moves[d]) /\ moves[d][i].cmd = c /\ moves[d][i].kind = intent
        /\ moves[d][i].alloc = receipt[c].request.alloc
    BY <1>1, <1>6 DEF DidEffect
  <2>2. i \in 1..Len(moves'[d]) /\ moves'[d][i] = moves[d][i]
    BY <1>2, <2>1 DEF MovesOn
  <2> QED  BY <1>1, <1>3, <1>6, <2>1, <2>2 DEF DidEffect
<1> QED  BY <1>4, <1>5, <1>6

\* There are no receipts at first, and no documents.
LEMMA InitReceipts == Init => ReceiptsInv
BY DEF Init, ReceiptsInv, Effective, Receipted, NoDoc

\* A command's receipt and its effect come together, and nothing takes one of them
\* back.
LEMMA StepReceipts ==
    ASSUME NoneIsNoReceipt
    PROVE  TypeInv /\ VersionCountsHistory /\ ReceiptsInv /\ [Next]_vars => ReceiptsInv'
<1> SUFFICES ASSUME TypeInv, VersionCountsHistory, ReceiptsInv, [Next]_vars PROVE ReceiptsInv'
  OBVIOUS
<1> DEFINE Unmoved(d) == doc'[d] = doc[d] /\ moves'[d] = moves[d]
<1>1. \A d \in Docs : doc[d] \in DocRecord /\ moves[d] \in Seq(MovementRecord) /\ Len(moves[d]) \in Nat
  BY DEF TypeInv, DocTypes
<1>2. ASSUME NEW d \in Docs, Unmoved(d) PROVE MovesOn(d)
  BY <1>1, <1>2 DEF MovesOn
<1>3. ASSUME NEW c \in Commands, receipt[c] = None, NEW d \in Docs, Receipted(d), Unmoved(d),
             \A e \in Commands : e # c => receipt'[e] = receipt[e]
      PROVE  Receipted(d)'
  <2>1. doc[d].status # "none" => doc[d].cmd # c
    BY <1>3 DEF Receipted
  <2>2. ASSUME NEW i \in 1..Len(moves[d]) PROVE moves[d][i].cmd \in Commands /\ moves[d][i].cmd # c
    <3>1. moves[d][i] \in MovementRecord
      BY <1>1
    <3> QED  BY <1>3, <3>1 DEF Receipted, MovementRecord
  <2> QED  BY <1>3, <2>1, <2>2 DEF Receipted
<1>4. ASSUME DocsAlone PROVE ReceiptsInv'
  <2>1. \A c \in Commands : Effective(c)'
    <3>1. \A d \in Docs : MovesOn(d)
      BY <1>2, <1>4 DEF DocsAlone
    <3> QED  BY <1>4, <3>1, EffectStays DEF DocsAlone, ReceiptsInv
  <2>2. \A d \in Docs : Receipted(d)'
    BY <1>4 DEF DocsAlone, ReceiptsInv, Receipted
  <2> QED  BY <2>1, <2>2 DEF ReceiptsInv
<1>5. ASSUME NEW c \in Commands, NEW d \in Docs, Dispatch(c, d) PROVE ReceiptsInv'
  <2>0. PICK S \in SUBSET Lines : \E frozen \in [S -> Basis] : Freezes(c, d, S, frozen)
    BY <1>5, DispatchFreezes
  <2>1. PICK frozen \in [S -> Basis] : Freezes(c, d, S, frozen)
    BY <2>0
  <2>2. /\ receipt[c] = None /\ receipt'[c] # None
        /\ receipt'[c].request = [intent |-> "DISPATCH", basis |-> frozen]
        /\ receipt'[c].doc = d /\ receipt'[c].movement = 0
        /\ \A e \in Commands : e # c => receipt'[e] = receipt[e]
    BY <2>1, CompleteReceipt DEF Freezes, TypeInv
  <2>3. /\ doc'[d].status = "DISPATCHED" /\ doc'[d].cmd = c /\ doc'[d].frozen = frozen
        /\ doc[d].status = "none" /\ moves' = moves /\ moves[d] = <<>>
        /\ \A e \in Docs : e # d => doc'[e] = doc[e]
    BY <2>1 DEF Freezes, TypeInv, DocTypes, VersionCountsHistory
  <2>4. \A e \in Docs : MovesOn(e)
    <3>1. MovesOn(d)
      BY <1>1, <2>3 DEF MovesOn
    <3> QED  BY <1>2, <2>3, <3>1
  <2>5. ASSUME NEW e \in Commands PROVE Effective(e)'
    <3>1. CASE e = c
      BY <2>2, <2>3, <3>1 DEF Effective, DidEffect
    <3>2. CASE e # c
      BY <2>2, <2>4, <3>2, EffectStays DEF ReceiptsInv
    <3> QED  BY <3>1, <3>2
  <2>6. ASSUME NEW e \in Docs PROVE Receipted(e)'
    <3>1. CASE e = d
      BY <2>2, <2>3, <3>1 DEF Receipted
    <3>2. CASE e # d
      BY <1>3, <2>2, <2>3, <3>2 DEF ReceiptsInv
    <3> QED  BY <3>1, <3>2
  <2> QED  BY <2>5, <2>6 DEF ReceiptsInv
<1>6. ASSUME NEW c \in Commands, NEW d \in Docs, Withdraw(c, d) PROVE ReceiptsInv'
  <2>1. /\ doc' = [doc EXCEPT ![d].status = "WITHDRAWN", ![d].version = NextVersion(d)]
        /\ moves' = moves /\ Withdrawable(d)
        /\ Complete(c, [intent |-> "WITHDRAW", doc |-> d, version |-> doc[d].version], d, 0)
    BY <1>6 DEF Withdraw
  <2>2. /\ receipt[c] = None /\ receipt'[c] # None
        /\ receipt'[c].request = [intent |-> "WITHDRAW", doc |-> d, version |-> doc[d].version]
        /\ receipt'[c].doc = d /\ receipt'[c].movement = 0
        /\ \A e \in Commands : e # c => receipt'[e] = receipt[e]
    BY <2>1, CompleteReceipt DEF TypeInv
  <2>3. /\ doc'[d].status = "WITHDRAWN" /\ doc'[d].cmd = doc[d].cmd
        /\ doc'[d].frozen = doc[d].frozen /\ doc[d].status = "DISPATCHED"
        /\ \A e \in Docs : e # d => doc'[e] = doc[e]
    BY <2>1 DEF TypeInv, DocTypes, DocRecord, Withdrawable
  <2>4. \A e \in Docs : MovesOn(e)
    <3>1. MovesOn(d)
      BY <1>1, <2>1, <2>3 DEF MovesOn
    <3> QED  BY <1>2, <2>1, <2>3, <3>1
  <2>5. ASSUME NEW e \in Commands PROVE Effective(e)'
    <3>1. CASE e = c
      BY <2>2, <2>3, <3>1 DEF Effective, DidEffect
    <3>2. CASE e # c
      BY <2>2, <2>4, <3>2, EffectStays DEF ReceiptsInv
    <3> QED  BY <3>1, <3>2
  <2>6. ASSUME NEW e \in Docs PROVE Receipted(e)'
    <3>1. CASE e = d
      <4>1. Receipted(d) /\ doc[d].cmd \in Commands /\ doc[d].cmd # c
        BY <2>2, <2>3 DEF ReceiptsInv, Receipted
      <4>2. moves'[d] = <<>>
        BY <2>1 DEF Withdrawable
      <4> QED  BY <2>2, <2>3, <3>1, <4>1, <4>2 DEF Receipted
    <3>2. CASE e # d
      BY <1>3, <2>1, <2>2, <2>3, <3>2 DEF ReceiptsInv
    <3> QED  BY <3>1, <3>2
  <2> QED  BY <2>5, <2>6 DEF ReceiptsInv
<1>7. ASSUME NEW c \in Commands, NEW d \in Docs, NEW kind \in MovementKinds, Confirm(c, d, kind)
      PROVE  ReceiptsInv'
  <2>1. PICK m \in MovementRecord : Moves(c, d, kind, m) /\ Recorded(c, d, kind, m)
    BY <1>7, ConfirmDoes
  <2> DEFINE n == Len(moves[d])
             request == [intent |-> kind, doc |-> d, version |-> doc[d].version, alloc |-> m.alloc]
  <2>2. /\ receipt[c] = None /\ receipt'[c] # None /\ receipt'[c].request = request
        /\ receipt'[c].doc = d /\ receipt'[c].movement = n + 1
        /\ \A e \in Commands : e # c => receipt'[e] = receipt[e]
    <3>1. Complete(c, request, d, n + 1)
      BY <2>1 DEF Recorded
    <3> HIDE DEF request
    <3> QED  BY <3>1, CompleteReceipt DEF TypeInv
  <2>3. /\ doc'[d].status = "DISPATCHED" /\ doc'[d].cmd = doc[d].cmd
        /\ doc'[d].frozen = doc[d].frozen /\ doc[d].status = "DISPATCHED"
        /\ \A e \in Docs : e # d => Unmoved(e)
    BY <2>1 DEF Moves, TypeInv, DocTypes, DocRecord
  <2>4. moves[d] \in Seq(MovementRecord) /\ moves'[d] = Append(moves[d], m)
    BY <1>1, <2>1 DEF Moves, TypeInv, DocTypes
  <2>5. /\ Len(moves'[d]) = n + 1 /\ moves'[d][n + 1] = m /\ n \in Nat
        /\ \A i \in 1..n : moves'[d][i] = moves[d][i]
    BY <2>4
  <2>6. \A e \in Docs : MovesOn(e)
    <3>1. MovesOn(d)
      BY <2>3, <2>5 DEF MovesOn
    <3> QED  BY <1>2, <2>3, <3>1
  <2>7. ASSUME NEW e \in Commands PROVE Effective(e)'
    <3>1. CASE e = c
      <4>1. /\ request.intent = kind /\ kind # "DISPATCH" /\ kind # "WITHDRAW"
            /\ request.alloc = m.alloc /\ m.kind = kind /\ m.cmd = c
        BY <2>1 DEF Recorded, MovementKinds
      <4>2. n + 1 \in 1..Len(moves'[d])
        BY <2>5
      <4> HIDE DEF request
      <4> QED  BY <2>2, <2>3, <2>5, <3>1, <4>1, <4>2 DEF Effective, DidEffect
    <3>2. CASE e # c
      BY <2>2, <2>6, <3>2, EffectStays DEF ReceiptsInv
    <3> QED  BY <3>1, <3>2
  <2>8. ASSUME NEW e \in Docs PROVE Receipted(e)'
    <3>1. CASE e = d
      <4>1. Receipted(d) /\ doc[d].cmd \in Commands /\ doc[d].cmd # c
        BY <2>2, <2>3 DEF ReceiptsInv, Receipted
      <4>2. ASSUME NEW i \in 1..n
            PROVE  /\ receipt'[moves'[d][i].cmd] # None
                   /\ receipt'[moves'[d][i].cmd].doc = d /\ receipt'[moves'[d][i].cmd].movement = i
        <5>1. moves[d][i] \in MovementRecord
          BY <2>4
        <5>2. moves[d][i].cmd \in Commands /\ moves[d][i].cmd # c
          BY <2>2, <4>1, <5>1 DEF Receipted, MovementRecord
        <5> QED  BY <2>2, <2>5, <4>1, <5>2 DEF Receipted
      <4>3. m.cmd = c
        BY <2>1 DEF Recorded
      <4>4. \A i \in 1..Len(moves'[d]) : i \in 1..n \/ i = n + 1
        BY <2>5
      <4> QED  BY <2>2, <2>3, <2>5, <3>1, <4>1, <4>2, <4>3, <4>4 DEF Receipted
    <3>2. CASE e # d
      BY <1>3, <2>2, <2>3, <3>2 DEF ReceiptsInv
    <3> QED  BY <3>1, <3>2
  <2> QED  BY <2>7, <2>8 DEF ReceiptsInv
<1> QED  BY <1>4, <1>5, <1>6, <1>7, DocumentSteps

\* However often a command is sent, it takes effect at most once: receipts, documents
\* and movements name each other.
THEOREM ReceiptsNameEffects == ASSUME NoneIsNoReceipt PROVE Spec => []ReceiptsMatchEffects
<1>1. Init => ReceiptsInv
  BY InitReceipts
<1>2. TypeInv /\ VersionCountsHistory /\ ReceiptsInv /\ [Next]_vars => ReceiptsInv'
  BY StepReceipts
<1>3. ReceiptsInv => ReceiptsMatchEffects
  BY DEF ReceiptsInv, Effective, Receipted, ReceiptsMatchEffects
<1>4. Spec => []TypeInv
  BY AlwaysTyped
<1>5. Spec => []VersionCountsHistory
  BY VersionsCountHistory
<1> QED  BY <1>1, <1>2, <1>3, <1>4, <1>5, PTL DEF Spec

=============================================================================
