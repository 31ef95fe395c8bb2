--------------------- MODULE MaterialIssuanceSums_proofs ---------------------
(***************************************************************************)
(* The quantities and values that MaterialIssuance adds up, for every value  *)
(* of its constants: what the movements of a document have issued and         *)
(* returned, what their allocations have outstanding, and that the pending    *)
(* custody balance is backed by exactly that.                                *)
(*                                                                         *)
(* The sums are taken of a history, the sequence of movements of a document:  *)
(*   Part     what the movements of some kinds moved of some keys            *)
(*   LeftOf   what is outstanding of one allocation                          *)
(*   DueOf    what is outstanding of a batch (DueValue: at its issue cost)   *)
(* A confirmation appends one movement, so each of them grows by what that     *)
(* movement carries, or shrinks by what it returns.                          *)
(***************************************************************************)
EXTENDS MaterialIssuance_proofs, FiniteSums

-----------------------------------------------------------------------------
(* Histories.                                                                *)

\* Movements of finitely many allocations each.
History(s) ==
    /\ s \in Seq(MovementRecord)
    /\ \A i \in DOMAIN s : IsFiniteSet(DOMAIN s[i].alloc)

\* The allocations a row is made of, and those that return the allocation o of
\* the movement i.
RowSet(l, mat) == {k \in AllocKey : k.line = l /\ MaterialOf[k.batch] = mat}
BackSet(i, o) == {r \in AllocKey : r.line = o.line /\ r.batch = o.batch /\ r.origin = i}

OfKind(s, K) == {i \in DOMAIN s : s[i].kind \in K}
Moved(m, T) == SumOf(m.alloc, DOMAIN m.alloc \intersect T)
Inner(s, T) == [i \in DOMAIN s |-> Moved(s[i], T)]
Part(s, K, T) == SumOf(Inner(s, T), OfKind(s, K))

\* The history with one movement more.
Grown(s, m) == Append(s, m)

\* A movement's allocations are natural numbers of keys.
LEMMA MovementAlloc ==
    ASSUME NEW m \in MovementRecord
    PROVE  DOMAIN m.alloc \subseteq AllocKey /\ \A k \in DOMAIN m.alloc : m.alloc[k] \in Nat
<1>1. m.alloc \in Allocations
  BY DEF MovementRecord
<1> QED
  BY <1>1 DEF Allocations

\* What a movement moved of a set of keys.
LEMMA InnerType ==
    ASSUME NEW s, History(s), NEW T, NEW i \in DOMAIN s
    PROVE  Inner(s, T)[i] = Moved(s[i], T) /\ Inner(s, T)[i] \in Nat
<1> DEFINE S == DOMAIN s[i].alloc \intersect T
           a == s[i].alloc
<1>1. s[i] \in MovementRecord
  BY DEF History
<1>2. IsFiniteSet(S) /\ \A k \in S : a[k] \in Int /\ a[k] >= 0
  BY <1>1, MovementAlloc, FS_Subset DEF History
<1> HIDE DEF S, a
<1>3. SumOf(a, S) \in Int /\ SumOf(a, S) >= 0
  BY <1>2, SumType
<1> QED
  BY <1>3 DEF Inner, Moved, S, a

\* The positions of a history are finitely many.
LEMMA OfKindFinite ==
    ASSUME NEW s, History(s), NEW K
    PROVE  IsFiniteSet(OfKind(s, K)) /\ IsFiniteSet(DOMAIN s) /\ DOMAIN s = 1..Len(s) /\ Len(s) \in Nat
<1>1. DOMAIN s = 1..Len(s) /\ Len(s) \in Nat
  BY DEF History
<1>2. IsFiniteSet(1..Len(s))
  BY <1>1, FS_Interval
<1> QED
  BY <1>1, <1>2, FS_Subset DEF OfKind

\* What a history moved.
LEMMA PartType ==
    ASSUME NEW s, History(s), NEW K, NEW T
    PROVE  Part(s, K, T) \in Nat
<1> DEFINE f == Inner(s, T)
           S == OfKind(s, K)
<1>1. IsFiniteSet(S) /\ \A i \in S : f[i] \in Int /\ f[i] >= 0
  <2>1. S \subseteq DOMAIN s
    BY DEF OfKind
  <2>2. \A i \in DOMAIN s : f[i] \in Nat
    BY InnerType
  <2>3. IsFiniteSet(S)
    BY OfKindFinite
  <2> HIDE DEF f, S
  <2> QED
    BY <2>1, <2>2, <2>3
<1> HIDE DEF f, S
<1>2. SumOf(f, S) \in Int /\ SumOf(f, S) >= 0
  BY <1>1, SumType
<1> QED
  BY <1>2 DEF f, S, Part

\* One movement more.
LEMMA AppendHistory ==
    ASSUME NEW s, History(s), NEW m \in MovementRecord, IsFiniteSet(DOMAIN m.alloc)
    PROVE  /\ History(Grown(s, m)) /\ Len(s) \in Nat
           /\ DOMAIN s = 1..Len(s) /\ DOMAIN Grown(s, m) = 1..(Len(s) + 1)
           /\ \A i \in DOMAIN s : Grown(s, m)[i] = s[i]
           /\ Grown(s, m)[Len(s) + 1] = m
<1>1. s \in Seq(MovementRecord)
  BY DEF History
<1>2. /\ Grown(s, m) \in Seq(MovementRecord) /\ Len(s) \in Nat
      /\ DOMAIN s = 1..Len(s) /\ DOMAIN Grown(s, m) = 1..(Len(s) + 1)
      /\ \A i \in DOMAIN s : Grown(s, m)[i] = s[i]
      /\ Grown(s, m)[Len(s) + 1] = m
  BY <1>1 DEF Grown
<1>3. \A i \in 1..(Len(s) + 1) : i \in DOMAIN s \/ i = Len(s) + 1
  BY <1>2
<1> HIDE DEF History
<1>4. ASSUME NEW i \in DOMAIN Grown(s, m) PROVE IsFiniteSet(DOMAIN Grown(s, m)[i].alloc)
  BY <1>2, <1>3 DEF History
<1> QED
  BY <1>2, <1>4 DEF History

\* It adds what it moved to the parts of its kind.
LEMMA PartGrows ==
    ASSUME NEW s, History(s), NEW m \in MovementRecord, IsFiniteSet(DOMAIN m.alloc), NEW K, NEW T
    PROVE  /\ Moved(m, T) \in Nat /\ Part(s, K, T) \in Nat
           /\ m.kind \in K => Part(Grown(s, m), K, T)
                                = Part(s, K, T) + Moved(m, T)
           /\ m.kind \notin K => Part(Grown(s, m), K, T) = Part(s, K, T)
<1> DEFINE t == Grown(s, m)
           n == Len(s) + 1
           f == Inner(s, T)
           g == Inner(t, T)
           S == OfKind(s, K)
<1>1. /\ History(t) /\ Len(s) \in Nat /\ DOMAIN s = 1..Len(s) /\ DOMAIN t = 1..n
      /\ \A i \in DOMAIN s : t[i] = s[i]
      /\ t[n] = m
  BY AppendHistory
<1>2. n \notin DOMAIN s /\ n \in DOMAIN t /\ DOMAIN t = DOMAIN s \union {n}
  BY <1>1
<1> HIDE DEF t, n
<1>3. ASSUME NEW i \in DOMAIN s PROVE f[i] \in Nat /\ g[i] = f[i]
  <2>1. f[i] = Moved(s[i], T) /\ f[i] \in Nat
    BY InnerType
  <2>2. g[i] = Moved(t[i], T)
    BY <1>1, <1>2, InnerType
  <2> QED
    BY <1>1, <2>1, <2>2
<1>4. g[n] = Moved(m, T) /\ g[n] \in Nat
  BY <1>1, <1>2, InnerType
<1>5. OfKind(t, K) = IF m.kind \in K THEN S \union {n} ELSE S
  BY <1>1, <1>2 DEF OfKind
<1>6. IsFiniteSet(S) /\ S \subseteq DOMAIN s /\ n \notin S
  BY <1>2, OfKindFinite DEF OfKind
<1> HIDE DEF f, g, S
<1>7. CASE m.kind \in K
  <2>1. SumOf(g, S \union {n}) = SumOf(f, S) + g[n]
    <3>1. \A i \in S : f[i] \in Int
      BY <1>3, <1>6
    <3>2. \A i \in S : g[i] = f[i]
      BY <1>3, <1>6
    <3>3. g[n] \in Int
      BY <1>4
    <3>4. n \notin S /\ IsFiniteSet(S)
      BY <1>6
    <3> QED
      BY <3>1, <3>2, <3>3, <3>4, SumGrow
  <2> QED
    BY <1>4, <1>5, <1>7, <2>1, PartType DEF Part, f, g, S, t
<1>8. CASE m.kind \notin K
  <2>1. SumOf(g, S) = SumOf(f, S)
    BY <1>3, <1>6, SumSame
  <2>2. SumOf(f, S) \in Nat
    BY PartType DEF Part, f, S
  <2> QED
    BY <1>4, <1>5, <1>8, <2>1, <2>2 DEF Part, f, g, S, t
<1> QED
  BY <1>7, <1>8

-----------------------------------------------------------------------------
(* The model's sums are parts of histories.                                  *)

Outgoing == {"ISSUE", "SUPPLEMENT"}
Supplements == {"SUPPLEMENT"}
Returns == {"RETURN"}

RowOf(s, K, l, mat) ==
    MapThenSumSet(LAMBDA i : MapThenSumSet(LAMBDA k : s[i].alloc[k],
                      {k \in DOMAIN s[i].alloc : k.line = l /\ MaterialOf[k.batch] = mat}),
                  OfKind(s, K))
BackOf(s, j, o) ==
    MapThenSumSet(LAMBDA i : MapThenSumSet(LAMBDA r : s[i].alloc[r],
                      {r \in DOMAIN s[i].alloc : r.line = o.line /\ r.batch = o.batch /\ r.origin = j}),
                  OfKind(s, Returns))

\* What a row moved is a part.
LEMMA RowIsPart ==
    ASSUME NEW s, History(s), NEW K, NEW l, NEW mat
    PROVE  RowOf(s, K, l, mat) = Part(s, K, RowSet(l, mat))
<1> DEFINE S == OfKind(s, K)
           f == Inner(s, RowSet(l, mat))
           row(i) == MapThenSumSet(LAMBDA k : s[i].alloc[k],
                         {k \in DOMAIN s[i].alloc : k.line = l /\ MaterialOf[k.batch] = mat})
           A(iter) == iter = [u \in SUBSET S |-> IF u = {} THEN 0 ELSE row(Pick(u)) + iter[u \ {Pick(u)}]]
<1>1. RowOf(s, K, l, mat) = (CHOOSE iter : A(iter))[S]
  BY DEF RowOf, MapThenSumSet, MapThenFoldSet, Pick
<1>2. ASSUME NEW i \in S PROVE row(i) = f[i]
  <2>1. i \in DOMAIN s /\ s[i] \in MovementRecord
    BY DEF OfKind, History
  <2>2. {k \in DOMAIN s[i].alloc : k.line = l /\ MaterialOf[k.batch] = mat}
        = DOMAIN s[i].alloc \intersect RowSet(l, mat)
    BY <2>1, MovementAlloc DEF RowSet
  <2>3. row(i) = SumOf(s[i].alloc, {k \in DOMAIN s[i].alloc : k.line = l /\ MaterialOf[k.batch] = mat})
    BY DEF SumOf
  <2> HIDE DEF row
  <2> QED
    BY <2>1, <2>2, <2>3 DEF Inner, Moved
<1> HIDE DEF f, row, S
<1>3. \A u \in SUBSET S : u # {} => row(Pick(u)) = f[Pick(u)]
  BY <1>2 DEF Pick
<1>4. ASSUME NEW iter PROVE A(iter) <=> Sums(iter, f, S)
  <2>1. [u \in SUBSET S |-> IF u = {} THEN 0 ELSE row(Pick(u)) + iter[u \ {Pick(u)}]]
        = [u \in SUBSET S |-> IF u = {} THEN 0 ELSE f[Pick(u)] + iter[u \ {Pick(u)}]]
    BY <1>3
  <2> QED
    BY <2>1 DEF Sums
<1> HIDE DEF A
<1>5. (CHOOSE iter : A(iter)) = (CHOOSE iter : Sums(iter, f, S))
  BY <1>4, Zenon
<1> QED
  BY <1>1, <1>5, SumIsFold DEF f, Fold, Part, S

\* And so is what was returned of an allocation.
LEMMA BackIsPart ==
    ASSUME NEW s, History(s), NEW j, NEW o
    PROVE  BackOf(s, j, o) = Part(s, Returns, BackSet(j, o))
<1> DEFINE S == OfKind(s, Returns)
           f == Inner(s, BackSet(j, o))
           back(i) == MapThenSumSet(LAMBDA r : s[i].alloc[r],
               {r \in DOMAIN s[i].alloc : r.line = o.line /\ r.batch = o.batch /\ r.origin = j})
           A(iter) == iter = [u \in SUBSET S |-> IF u = {} THEN 0 ELSE back(Pick(u)) + iter[u \ {Pick(u)}]]
<1>1. BackOf(s, j, o) = (CHOOSE iter : A(iter))[S]
  BY DEF BackOf, MapThenSumSet, MapThenFoldSet, Pick
<1>2. ASSUME NEW i \in S PROVE back(i) = f[i]
  <2>1. i \in DOMAIN s /\ s[i] \in MovementRecord
    BY DEF OfKind, History
  <2>2. {r \in DOMAIN s[i].alloc : r.line = o.line /\ r.batch = o.batch /\ r.origin = j}
        = DOMAIN s[i].alloc \intersect BackSet(j, o)
    BY <2>1, MovementAlloc DEF BackSet
  <2>3. back(i) = SumOf(s[i].alloc,
               {r \in DOMAIN s[i].alloc : r.line = o.line /\ r.batch = o.batch /\ r.origin = j})
    BY DEF SumOf
  <2> HIDE DEF back
  <2> QED
    BY <2>1, <2>2, <2>3 DEF Inner, Moved
<1> HIDE DEF f, back, S
<1>3. \A u \in SUBSET S : u # {} => back(Pick(u)) = f[Pick(u)]
  BY <1>2 DEF Pick
<1>4. ASSUME NEW iter PROVE A(iter) <=> Sums(iter, f, S)
  <2>1. [u \in SUBSET S |-> IF u = {} THEN 0 ELSE back(Pick(u)) + iter[u \ {Pick(u)}]]
        = [u \in SUBSET S |-> IF u = {} THEN 0 ELSE f[Pick(u)] + iter[u \ {Pick(u)}]]
    BY <1>3
  <2> QED
    BY <2>1 DEF Sums
<1> HIDE DEF A
<1>5. (CHOOSE iter : A(iter)) = (CHOOSE iter : Sums(iter, f, S))
  BY <1>4, Zenon
<1> QED
  BY <1>1, <1>5, SumIsFold DEF f, Fold, Part, S

\* Allocations that went out, and what is outstanding of one.
OutOf(s) == UNION {{i} \X DOMAIN s[i].alloc : i \in {j \in DOMAIN s : s[j].kind # "RETURN"}}
LeftOf(s, i, k) == s[i].alloc[k] - BackOf(s, i, k)

\* The operators of the model, of a document's history.
LEMMA OfHistories ==
    /\ \A d, K, l, mat : RowTotal(d, K, l, mat) = RowOf(moves[d], K, l, mat)
    /\ \A d : Originals(d) = OutOf(moves[d])
    /\ \A d, i, k : Outstanding(d, i, k) = LeftOf(moves[d], i, k)
<1>1. \A d, K, l, mat : RowTotal(d, K, l, mat) = RowOf(moves[d], K, l, mat)
  BY DEF RowTotal, AllocTotal, RowOf, OfKind
<1>2. \A d : Originals(d) = OutOf(moves[d])
  BY DEF Originals, OutOf
<1>3. \A d, i, k : Outstanding(d, i, k) = LeftOf(moves[d], i, k)
  BY DEF Outstanding, ReturnedOf, AllocTotal, LeftOf, BackOf, OfKind, Returns
<1> QED
  BY <1>1, <1>2, <1>3

\* The same after the step.
LEMMA OfHistoriesNext ==
    /\ \A d, K, l, mat : RowTotal(d, K, l, mat)' = RowOf(moves'[d], K, l, mat)
    /\ \A d : Originals(d)' = OutOf(moves'[d])
    /\ \A d, i, k : Outstanding(d, i, k)' = LeftOf(moves'[d], i, k)
<1> DEFINE All == /\ \A d, K, l, mat : RowTotal(d, K, l, mat) = RowOf(moves[d], K, l, mat)
                  /\ \A d : Originals(d) = OutOf(moves[d])
                  /\ \A d, i, k : Outstanding(d, i, k) = LeftOf(moves[d], i, k)
<1>1. All
  BY OfHistories
<1>2. All'
  BY <1>1, PTL
<1> QED
  BY <1>2

-----------------------------------------------------------------------------
(* What is outstanding.                                                      *)

\* The allocation that a returned one goes back along, and the way back.
Back(r) == <<r.origin, [r EXCEPT !.origin = 0]>>
KeyBack(o) == [o[2] EXCEPT !.origin = o[1]]

\* Every return goes back along an allocation that went out, and no further than
\* what was left of it.
Traced(s) ==
    /\ History(s)
    /\ \A i \in DOMAIN s : \A k \in DOMAIN s[i].alloc :
          /\ s[i].alloc[k] > 0
          /\ s[i].kind # "RETURN" => k.origin = 0
          /\ s[i].kind = "RETURN" => Back(k) \in OutOf(s)
    /\ \A o \in OutOf(s) : LeftOf(s, o[1], o[2]) >= 0
    /\ IsFiniteSet(OutOf(s))

\* An allocation that went out.
LEMMA OutType ==
    ASSUME NEW s, History(s), NEW o \in OutOf(s)
    PROVE  /\ o[1] \in DOMAIN s /\ s[o[1]].kind # "RETURN" /\ o[2] \in DOMAIN s[o[1]].alloc
           /\ o = <<o[1], o[2]>> /\ o[2] \in AllocKey /\ s[o[1]].alloc[o[2]] \in Nat
           /\ LeftOf(s, o[1], o[2]) \in Int
<1>1. PICK i \in DOMAIN s : s[i].kind # "RETURN" /\ o \in {i} \X DOMAIN s[i].alloc
  BY DEF OutOf
<1>2. o[1] = i /\ o[2] \in DOMAIN s[i].alloc /\ o = <<o[1], o[2]>>
  BY <1>1
<1>3. s[i] \in MovementRecord
  BY DEF History
<1>4. o[2] \in AllocKey /\ s[i].alloc[o[2]] \in Nat
  BY <1>2, <1>3, MovementAlloc
<1>5. BackOf(s, o[1], o[2]) \in Nat
  BY BackIsPart, PartType
<1> QED
  BY <1>1, <1>2, <1>4, <1>5 DEF LeftOf

\* Back and KeyBack are inverse to each other.
LEMMA ThereAndBack ==
    /\ \A r \in AllocKey : KeyBack(Back(r)) = r /\ Back(r)[1] = r.origin
                           /\ Back(r)[2].line = r.line /\ Back(r)[2].batch = r.batch
    /\ \A i \in Nat, k \in AllocKey :
          k.origin = 0 => /\ Back(KeyBack(<<i, k>>)) = <<i, k>>
                          /\ KeyBack(<<i, k>>) \in AllocKey /\ KeyBack(<<i, k>>).origin = i
                          /\ KeyBack(<<i, k>>).line = k.line /\ KeyBack(<<i, k>>).batch = k.batch
BY DEF AllocKey, Back, KeyBack

\* The one key that returns an allocation.
LEMMA OneWayBack ==
    ASSUME NEW i \in Nat, NEW k \in AllocKey
    PROVE  BackSet(i, k) = {KeyBack(<<i, k>>)}
BY DEF BackSet, AllocKey, KeyBack

\* What went out, after one movement more.
LEMMA OutGrows ==
    ASSUME NEW s, History(s), NEW m \in MovementRecord, IsFiniteSet(DOMAIN m.alloc)
    PROVE  OutOf(Grown(s, m)) = IF m.kind = "RETURN" THEN OutOf(s)
                                 ELSE OutOf(s) \union ({Len(s) + 1} \X DOMAIN m.alloc)
<1> DEFINE t == Grown(s, m)
           n == Len(s) + 1
<1>1. /\ Len(s) \in Nat /\ DOMAIN s = 1..Len(s) /\ DOMAIN t = 1..n
      /\ \A i \in DOMAIN s : t[i] = s[i]
      /\ t[n] = m
  BY AppendHistory
<1>2. n \notin DOMAIN s /\ DOMAIN t = DOMAIN s \union {n}
  BY <1>1
<1> HIDE DEF t, n
<1>3. {j \in DOMAIN t : t[j].kind # "RETURN"}
      = {j \in DOMAIN s : s[j].kind # "RETURN"} \union (IF m.kind = "RETURN" THEN {} ELSE {n})
  BY <1>1, <1>2
<1>4. \A o : o \in OutOf(t) <=> o \in OutOf(s) \/ (m.kind # "RETURN" /\ o \in {n} \X DOMAIN m.alloc)
  BY <1>1, <1>2, <1>3 DEF OutOf
<1> QED
  BY <1>4 DEF t, n

\* What a movement takes of an allocation.
LEMMA LeftGrows ==
    ASSUME NEW s, History(s), NEW m \in MovementRecord, IsFiniteSet(DOMAIN m.alloc),
           NEW i \in DOMAIN s, NEW k \in DOMAIN s[i].alloc
    PROVE  /\ m.kind = "RETURN" /\ KeyBack(<<i, k>>) \in DOMAIN m.alloc
                 => LeftOf(Grown(s, m), i, k) = LeftOf(s, i, k) - m.alloc[KeyBack(<<i, k>>)]
           /\ ~(m.kind = "RETURN" /\ KeyBack(<<i, k>>) \in DOMAIN m.alloc)
                 => LeftOf(Grown(s, m), i, k) = LeftOf(s, i, k)
<1> DEFINE t == Grown(s, m)
           a == m.alloc
           y == KeyBack(<<i, k>>)
           p == Part(s, Returns, BackSet(i, k))
           more == Moved(m, BackSet(i, k))
<1>1. History(t) /\ t[i] = s[i] /\ i \in Nat
  BY AppendHistory
<1>2. k \in AllocKey /\ s[i].alloc[k] \in Nat
  <2>1. s[i] \in MovementRecord
    BY DEF History
  <2> QED
    BY <2>1, MovementAlloc
<1>3. BackOf(s, i, k) = p /\ BackOf(t, i, k) = Part(t, Returns, BackSet(i, k))
  BY <1>1, BackIsPart
<1>4. /\ more \in Nat /\ p \in Nat
      /\ m.kind = "RETURN" => Part(t, Returns, BackSet(i, k)) = p + more
      /\ m.kind # "RETURN" => Part(t, Returns, BackSet(i, k)) = p
  <2>1. m.kind \in Returns <=> m.kind = "RETURN"
    BY DEF Returns
  <2> QED
    BY <2>1, PartType, PartGrows
<1>5. more = IF y \in DOMAIN a THEN a[y] ELSE 0
  <2>1. BackSet(i, k) = {y}
    BY <1>1, <1>2, OneWayBack
  <2>2. CASE y \in DOMAIN a
    <3>1. DOMAIN a \intersect BackSet(i, k) = {} \union {y}
      BY <2>1, <2>2
    <3>2. a[y] \in Int
      BY <2>2, MovementAlloc
    <3>3. more = SumOf(a, {} \union {y})
      BY <3>1 DEF Moved
    <3> HIDE DEF y, a, more
    <3>4. IsFiniteSet({}) /\ y \notin {}
      BY FS_EmptySet
    <3>5. \A x \in {} \union {y} : a[x] \in Int
      BY <3>2
    <3>6. SumOf(a, {} \union {y}) = a[y] + SumOf(a, {})
      BY <3>4, <3>5, SumAdd
    <3> QED
      BY <2>2, <3>2, <3>3, <3>6, SumEmpty
  <2>3. CASE y \notin DOMAIN a
    <3>1. DOMAIN a \intersect BackSet(i, k) = {}
      BY <2>1, <2>3
    <3>2. more = 0
      BY <3>1, SumEmpty DEF Moved
    <3> QED
      BY <2>3, <3>2
  <2> QED
    BY <2>2, <2>3
<1> HIDE DEF t, a, y, p, more
<1>6. /\ LeftOf(s, i, k) = s[i].alloc[k] - p
      /\ m.kind = "RETURN" => LeftOf(t, i, k) = s[i].alloc[k] - (p + more)
      /\ m.kind # "RETURN" => LeftOf(t, i, k) = s[i].alloc[k] - p
  BY <1>1, <1>3, <1>4 DEF LeftOf
<1>7. CASE m.kind = "RETURN" /\ y \in DOMAIN a
  BY <1>2, <1>4, <1>5, <1>6, <1>7 DEF t, a, y
<1>8. CASE ~(m.kind = "RETURN" /\ y \in DOMAIN a)
  BY <1>2, <1>4, <1>5, <1>6, <1>8 DEF t, a, y
<1> QED
  BY <1>7, <1>8

\* Issued or supplemented: all of it is outstanding, and nothing else changes.
LEMMA OutGoes ==
    ASSUME NEW s, Traced(s), NEW m \in MovementRecord, IsFiniteSet(DOMAIN m.alloc),
           m.kind # "RETURN", \A k \in DOMAIN m.alloc : m.alloc[k] > 0 /\ k.origin = 0
    PROVE  /\ Traced(Grown(s, m))
           /\ OutOf(Grown(s, m)) = OutOf(s) \union ({Len(s) + 1} \X DOMAIN m.alloc)
           /\ \A o \in OutOf(s) : o[1] # Len(s) + 1 /\ LeftOf(Grown(s, m), o[1], o[2]) = LeftOf(s, o[1], o[2])
           /\ \A k \in DOMAIN m.alloc : LeftOf(Grown(s, m), Len(s) + 1, k) = m.alloc[k]
<1> DEFINE t == Grown(s, m)
           n == Len(s) + 1
<1>0. History(s)
  BY DEF Traced
<1>1. /\ History(t) /\ Len(s) \in Nat /\ DOMAIN s = 1..Len(s) /\ DOMAIN t = 1..n
      /\ \A i \in DOMAIN s : t[i] = s[i]
      /\ t[n] = m
  BY <1>0, AppendHistory
<1>2. n \notin DOMAIN s /\ n \in DOMAIN t /\ DOMAIN t = DOMAIN s \union {n} /\ n \in Nat
  BY <1>1
<1>3. OutOf(t) = OutOf(s) \union ({n} \X DOMAIN m.alloc)
  BY <1>0, OutGrows
<1>4. ASSUME NEW o \in OutOf(s) PROVE o[1] # n /\ LeftOf(t, o[1], o[2]) = LeftOf(s, o[1], o[2])
  <2>1. o[1] \in DOMAIN s /\ o[2] \in DOMAIN s[o[1]].alloc
    BY <1>0, OutType
  <2> QED
    BY <1>0, <1>2, <2>1, LeftGrows
<1>5. ASSUME NEW k \in DOMAIN m.alloc PROVE LeftOf(t, n, k) = m.alloc[k]
  <2> DEFINE S == OfKind(t, Returns)
             f == Inner(t, BackSet(n, k))
  <2>1. k \in AllocKey /\ m.alloc[k] \in Nat
    BY MovementAlloc
  <2>2. ASSUME NEW i \in S PROVE f[i] = 0
    <3>1. i \in DOMAIN s /\ t[i] = s[i] /\ s[i].kind = "RETURN"
      BY <1>1, <1>2, <2>2 DEF OfKind, Returns
    <3>2. ASSUME NEW r \in DOMAIN s[i].alloc PROVE r \notin BackSet(n, k)
      <4>1. Back(r) \in OutOf(s)
        BY <3>1 DEF Traced
      <4>2. r.origin \in DOMAIN s
        BY <1>0, <4>1, OutType DEF Back
      <4> QED
        BY <1>2, <4>2 DEF BackSet
    <3>3. DOMAIN t[i].alloc \intersect BackSet(n, k) = {}
      BY <3>1, <3>2
    <3>4. f[i] = SumOf(t[i].alloc, {})
      BY <1>2, <3>1, <3>3 DEF Inner, Moved
    <3> QED
      BY <3>4, SumEmpty
  <2>3. IsFiniteSet(S)
    BY <1>1, OfKindFinite
  <2>4. SumOf(f, S) = 0
    <3> HIDE DEF f, S
    <3> QED
      BY <2>2, <2>3, SumZero
  <2>5. BackOf(t, n, k) = 0
    BY <1>1, <2>4, BackIsPart DEF Part
  <2> QED
    BY <1>1, <2>1, <2>5 DEF LeftOf
<1> HIDE DEF t, n
<1>6. ASSUME NEW i \in DOMAIN t, NEW k \in DOMAIN t[i].alloc
      PROVE  /\ t[i].alloc[k] > 0
             /\ t[i].kind # "RETURN" => k.origin = 0
             /\ t[i].kind = "RETURN" => Back(k) \in OutOf(t)
  <2>1. CASE i \in DOMAIN s
    BY <1>1, <1>3, <1>6, <2>1 DEF Traced
  <2>2. CASE i = n
    BY <1>1, <1>6, <2>2
  <2> QED
    BY <1>2, <1>6, <2>1, <2>2
<1>7. ASSUME NEW o \in OutOf(t) PROVE LeftOf(t, o[1], o[2]) >= 0
  <2>1. CASE o \in OutOf(s)
    BY <1>4, <2>1 DEF Traced
  <2>2. CASE o \in {n} \X DOMAIN m.alloc
    <3>1. o[1] = n /\ o[2] \in DOMAIN m.alloc
      BY <2>2
    <3>2. m.alloc[o[2]] \in Nat
      BY <3>1, MovementAlloc
    <3> QED
      BY <1>5, <3>1, <3>2
  <2> QED
    BY <1>3, <1>7, <2>1, <2>2
<1>8. IsFiniteSet(OutOf(t))
  <2>1. IsFiniteSet({n}) /\ IsFiniteSet(OutOf(s))
    BY FS_Singleton DEF Traced
  <2>2. IsFiniteSet({n} \X DOMAIN m.alloc)
    BY <2>1, FS_Product
  <2>3. IsFiniteSet(OutOf(s) \union ({n} \X DOMAIN m.alloc))
    BY <2>1, <2>2, FS_Union
  <2> QED
    BY <1>3, <2>3
<1>9. Traced(t)
  BY <1>1, <1>6, <1>7, <1>8 DEF Traced
<1> QED
  BY <1>3, <1>4, <1>5, <1>9 DEF t, n

\* Returned: each key takes from the one allocation it goes back along.
LEMMA BackComes ==
    ASSUME NEW s, Traced(s), NEW m \in MovementRecord, IsFiniteSet(DOMAIN m.alloc),
           m.kind = "RETURN", \A r \in DOMAIN m.alloc : m.alloc[r] > 0,
           \A r \in DOMAIN m.alloc : Back(r) \in OutOf(s) /\ m.alloc[r] <= LeftOf(s, Back(r)[1], Back(r)[2])
    PROVE  /\ Traced(Grown(s, m))
           /\ OutOf(Grown(s, m)) = OutOf(s)
           /\ \A r \in DOMAIN m.alloc :
                 LeftOf(Grown(s, m), Back(r)[1], Back(r)[2])
                 = LeftOf(s, Back(r)[1], Back(r)[2]) - m.alloc[r]
           /\ \A o \in OutOf(s) : (\A r \in DOMAIN m.alloc : Back(r) # o)
                 => LeftOf(Grown(s, m), o[1], o[2]) = LeftOf(s, o[1], o[2])
<1> DEFINE t == Grown(s, m)
           n == Len(s) + 1
<1>0. History(s)
  BY DEF Traced
<1>1. /\ History(t) /\ Len(s) \in Nat /\ DOMAIN s = 1..Len(s) /\ DOMAIN t = 1..n
      /\ \A i \in DOMAIN s : t[i] = s[i]
      /\ t[n] = m
  BY <1>0, AppendHistory
<1>2. DOMAIN t = DOMAIN s \union {n}
  BY <1>1
<1>3. OutOf(t) = OutOf(s)
  BY <1>0, OutGrows
<1>4. ASSUME NEW o \in OutOf(s)
      PROVE  /\ o[1] \in DOMAIN s /\ o[2] \in DOMAIN s[o[1]].alloc /\ o = <<o[1], o[2]>>
             /\ o[1] \in Nat /\ o[2] \in AllocKey /\ o[2].origin = 0
             /\ Back(KeyBack(o)) = o /\ LeftOf(s, o[1], o[2]) \in Int
  <2>1. /\ o[1] \in DOMAIN s /\ o[2] \in DOMAIN s[o[1]].alloc /\ o = <<o[1], o[2]>>
        /\ o[2] \in AllocKey /\ s[o[1]].kind # "RETURN" /\ LeftOf(s, o[1], o[2]) \in Int
    BY <1>0, OutType
  <2>2. o[1] \in Nat /\ o[2].origin = 0
    BY <1>1, <2>1 DEF Traced
  <2>3. Back(KeyBack(<<o[1], o[2]>>)) = <<o[1], o[2]>>
    BY <2>1, <2>2, ThereAndBack
  <2> QED
    BY <2>1, <2>2, <2>3
<1>5. ASSUME NEW r \in DOMAIN m.alloc
      PROVE  LeftOf(t, Back(r)[1], Back(r)[2]) = LeftOf(s, Back(r)[1], Back(r)[2]) - m.alloc[r]
  <2> DEFINE o == Back(r)
  <2>1. o \in OutOf(s) /\ r \in AllocKey
    BY MovementAlloc
  <2>2. KeyBack(o) = r
    BY <2>1, ThereAndBack
  <2> HIDE DEF o
  <2>3. o[1] \in DOMAIN s /\ o[2] \in DOMAIN s[o[1]].alloc /\ KeyBack(<<o[1], o[2]>>) = r
    BY <1>4, <2>1, <2>2
  <2> QED
    BY <1>0, <2>3, LeftGrows DEF o
<1>6. ASSUME NEW o \in OutOf(s), \A r \in DOMAIN m.alloc : Back(r) # o
      PROVE  LeftOf(t, o[1], o[2]) = LeftOf(s, o[1], o[2])
  <2>1. o[1] \in DOMAIN s /\ o[2] \in DOMAIN s[o[1]].alloc /\ KeyBack(<<o[1], o[2]>>) \notin DOMAIN m.alloc
    BY <1>4, <1>6
  <2> QED
    BY <1>0, <2>1, LeftGrows
<1> HIDE DEF t, n
<1>7. ASSUME NEW o \in OutOf(s) PROVE LeftOf(t, o[1], o[2]) >= 0
  <2>1. CASE \E r \in DOMAIN m.alloc : Back(r) = o
    <3>1. PICK r \in DOMAIN m.alloc : Back(r) = o
      BY <2>1
    <3>2. m.alloc[r] \in Nat /\ m.alloc[r] <= LeftOf(s, o[1], o[2])
      BY <3>1, MovementAlloc
    <3> QED
      BY <1>4, <1>5, <3>1, <3>2
  <2>2. CASE \A r \in DOMAIN m.alloc : Back(r) # o
    BY <1>6, <2>2 DEF Traced
  <2> QED
    BY <2>1, <2>2
<1>8. ASSUME NEW i \in DOMAIN t, NEW k \in DOMAIN t[i].alloc
      PROVE  /\ t[i].alloc[k] > 0
             /\ t[i].kind # "RETURN" => k.origin = 0
             /\ t[i].kind = "RETURN" => Back(k) \in OutOf(t)
  <2>1. CASE i \in DOMAIN s
    BY <1>1, <1>3, <1>8, <2>1 DEF Traced
  <2>2. CASE i = n
    BY <1>1, <1>3, <1>8, <2>2
  <2> QED
    BY <1>2, <1>8, <2>1, <2>2
<1>9. Traced(t)
  BY <1>1, <1>3, <1>7, <1>8 DEF Traced
<1> QED
  BY <1>3, <1>5, <1>6, <1>9 DEF t

-----------------------------------------------------------------------------
(* Bounds of allocations.                                                    *)

\* What a document moved of a row exceeds its requirement by supplements only.
Within(s, l, mat, required) ==
    Part(s, Outgoing, RowSet(l, mat)) - Part(s, Returns, RowSet(l, mat))
        <= required + Part(s, Supplements, RowSet(l, mat))
RowsWithin(d) == \A l \in DOMAIN doc[d].frozen, mat \in Materials :
    Within(moves[d], l, mat, Standard(d, l, mat))

AllocInv == \A d \in Docs : Traced(moves[d]) /\ RowsWithin(d)

\* A document without movements.
LEMMA NoMovements ==
    /\ Traced(<<>>) /\ OutOf(<<>>) = {}
    /\ \A K, T : Part(<<>>, K, T) = 0
<1>1. <<>> \in Seq(MovementRecord) /\ DOMAIN <<>> = {}
  OBVIOUS
<1>2. OutOf(<<>>) = {} /\ \A K : OfKind(<<>>, K) = {}
  BY <1>1 DEF OutOf, OfKind
<1>3. IsFiniteSet(OutOf(<<>>))
  BY <1>2, FS_EmptySet
<1>4. Traced(<<>>)
  BY <1>1, <1>2, <1>3 DEF Traced, History
<1>5. \A K, T : Part(<<>>, K, T) = 0
  BY <1>2, SumEmpty DEF Part
<1> QED
  BY <1>2, <1>4, <1>5

\* What a confirmation checked, of the history.
LEMMA AcceptedOf ==
    ASSUME NEW d \in Docs, NEW kind \in MovementKinds, NEW m \in MovementRecord, Accepted(d, kind, m),
           History(moves[d])
    PROVE  /\ IsFiniteSet(DOMAIN m.alloc)
           /\ \A k \in DOMAIN m.alloc : m.alloc[k] > 0
           /\ kind # "RETURN" => \A k \in DOMAIN m.alloc : k.origin = 0
           /\ kind = "RETURN" => \A r \in DOMAIN m.alloc :
                 /\ Back(r) \in OutOf(moves[d])
                 /\ m.alloc[r] <= LeftOf(moves[d], Back(r)[1], Back(r)[2])
           /\ kind = "ISSUE" => \A k \in DOMAIN m.alloc, mat \in Materials :
                 Part(moves[d], Outgoing, RowSet(k.line, mat))
                     - Part(moves[d], Returns, RowSet(k.line, mat))
                     + Moved(m, RowSet(k.line, mat))
                 <= Standard(d, k.line, mat)
<1>1. /\ IsFiniteSet(DOMAIN m.alloc) /\ AllocationAccepted(d, kind, m.alloc)
      /\ \A k \in DOMAIN m.alloc : m.alloc[k] > 0
  BY DEF Accepted
<1>2. ASSUME kind = "RETURN", NEW r \in DOMAIN m.alloc
      PROVE  Back(r) \in OutOf(moves[d]) /\ m.alloc[r] <= LeftOf(moves[d], Back(r)[1], Back(r)[2])
  BY <1>1, <1>2, OfHistories DEF AllocationAccepted, ReturnsOriginal, Back
<1>3. ASSUME kind = "ISSUE", NEW k \in DOMAIN m.alloc, NEW mat \in Materials
      PROVE  Part(moves[d], Outgoing, RowSet(k.line, mat))
                     - Part(moves[d], Returns, RowSet(k.line, mat))
                     + Moved(m, RowSet(k.line, mat))
             <= Standard(d, k.line, mat)
  <2> DEFINE l == k.line
             S == {j \in DOMAIN m.alloc : j.line = l /\ MaterialOf[j.batch] = mat}
             sum == MapThenSumSet(LAMBDA j : m.alloc[j], S)
  <2>1. Net(d, l, mat) + sum <= Standard(d, l, mat)
    BY <1>1, <1>3 DEF AllocationAccepted, WithinStandard
  <2>2. sum = SumOf(m.alloc, S)
    BY DEF SumOf
  <2>3. S = DOMAIN m.alloc \intersect RowSet(l, mat)
    BY MovementAlloc DEF RowSet
  <2>4. Net(d, l, mat) = Part(moves[d], Outgoing, RowSet(l, mat))
                         - Part(moves[d], Returns, RowSet(l, mat))
    BY OfHistories, RowIsPart DEF Net, Outgoing, Returns
  <2> HIDE DEF S, sum, l
  <2> QED
    BY <2>1, <2>2, <2>3, <2>4 DEF l, Moved
<1> QED
  BY <1>1, <1>2, <1>3 DEF AllocationAccepted

\* The row bound is kept by a movement that passed its check.
LEMMA WithinKept ==
    ASSUME NEW s, History(s), NEW m \in MovementRecord, IsFiniteSet(DOMAIN m.alloc),
           NEW l, NEW mat, NEW required \in Nat, Within(s, l, mat, required),
           m.kind = "ISSUE" => \A k \in DOMAIN m.alloc : k.line = l =>
              Part(s, Outgoing, RowSet(l, mat)) - Part(s, Returns, RowSet(l, mat))
                  + Moved(m, RowSet(l, mat)) <= required
    PROVE  Within(Grown(s, m), l, mat, required)
<1> DEFINE t == Grown(s, m)
           T == RowSet(l, mat)
           q == Moved(m, T)
           out == Part(s, Outgoing, T)
           back == Part(s, Returns, T)
           supp == Part(s, Supplements, T)
           newOut == Part(t, Outgoing, T)
           newBack == Part(t, Returns, T)
           newSupp == Part(t, Supplements, T)
<1>1. out \in Nat /\ back \in Nat /\ supp \in Nat
  BY PartType
<1>2. q \in Nat
  BY PartGrows
<1>3. m.kind \in MovementKinds
  BY DEF MovementRecord
<1>4. /\ newOut = IF m.kind # "RETURN" THEN out + q ELSE out
      /\ newBack = IF m.kind = "RETURN" THEN back + q ELSE back
      /\ newSupp = IF m.kind = "SUPPLEMENT" THEN supp + q ELSE supp
  <2>1. /\ m.kind \in Outgoing <=> m.kind # "RETURN"
        /\ m.kind \in Returns <=> m.kind = "RETURN"
        /\ m.kind \in Supplements <=> m.kind = "SUPPLEMENT"
    BY <1>3 DEF MovementKinds, Outgoing, Returns, Supplements
  <2>2. ASSUME NEW K
        PROVE  /\ m.kind \in K => Part(t, K, T) = Part(s, K, T) + q
               /\ m.kind \notin K => Part(t, K, T) = Part(s, K, T)
    BY PartGrows
  <2> HIDE DEF t, T, q
  <2> QED
    BY <2>1, <2>2
<1>7. m.kind = "ISSUE" => q = 0 \/ out - back + q <= required
  <2>1. CASE \E k \in DOMAIN m.alloc : k.line = l
    BY <2>1
  <2>2. CASE \A k \in DOMAIN m.alloc : k.line # l
    <3>1. DOMAIN m.alloc \intersect T = {}
      BY <2>2 DEF RowSet
    <3> QED
      BY <3>1, SumEmpty DEF Moved
  <2> QED
    BY <2>1, <2>2
<1>8. out - back <= required + supp
  BY DEF Within
<1> HIDE DEF q, out, back, supp, newOut, newBack, newSupp
<1>9. newOut - newBack <= required + newSupp
  <2>1. CASE m.kind = "ISSUE"
    BY <1>1, <1>2, <1>4, <1>7, <1>8, <2>1
  <2>2. CASE m.kind = "SUPPLEMENT"
    BY <1>1, <1>2, <1>4, <1>8, <2>2
  <2>3. CASE m.kind = "RETURN"
    BY <1>1, <1>2, <1>4, <1>8, <2>3
  <2> QED
    BY <1>3, <2>1, <2>2, <2>3 DEF MovementKinds
<1> QED
  BY <1>9 DEF Within, newOut, newBack, newSupp


\* The invariant at one document.
Bounded(d) == Traced(moves[d]) /\ RowsWithin(d)

\* No allocations at first.
LEMMA InitAlloc == Init => AllocInv
<1> SUFFICES ASSUME Init, NEW d \in Docs PROVE Traced(moves[d]) /\ RowsWithin(d)
  BY DEF AllocInv
<1>1. moves[d] = <<>> /\ doc[d] = NoDoc
  BY DEF Init
<1>2. DOMAIN NoDoc.frozen = {}
  BY DEF NoDoc
<1> QED
  BY <1>1, <1>2, NoMovements DEF RowsWithin

\* The requirement a row is measured against is a number.
LEMMA FrozenType ==
    ASSUME DocTypes, NEW d \in Docs, NEW l \in DOMAIN doc[d].frozen, NEW mat \in Materials
    PROVE  Standard(d, l, mat) \in Nat
<1>1. doc[d].frozen \in FrozenBasis
  BY DEF DocTypes, DocRecord
<1>2. doc[d].frozen[l] \in Basis
  BY <1>1 DEF FrozenBasis
<1>3. doc[d].frozen[l].required \in Recipes
  BY <1>2 DEF Basis
<1> QED
  BY <1>3, ConstantsAssumption DEF Standard, RequiredOf

\* A document nothing was moved under is within its bounds.
LEMMA FreshBounded ==
    ASSUME NEW d \in Docs, NEW frozen \in FrozenBasis, moves'[d] = <<>>, doc'[d].frozen = frozen
    PROVE  Bounded(d)'
<1>1. ASSUME NEW l \in DOMAIN frozen, NEW mat \in Materials
      PROVE  Within(<<>>, l, mat, RequiredOf(frozen[l].required, mat))
  <2>1. frozen[l] \in Basis
    BY DEF FrozenBasis
  <2>2. RequiredOf(frozen[l].required, mat) \in Nat
    BY <2>1, ConstantsAssumption DEF Basis, RequiredOf
  <2>3. \A K : Part(<<>>, K, RowSet(l, mat)) = 0
    BY NoMovements
  <2> QED
    BY <2>2, <2>3 DEF Within
<1> QED
  BY <1>1, NoMovements DEF Bounded, RowsWithin, Standard

\* A confirmation keeps its document within bounds: it was checked against what the
\* movements before it left, ordinary issues against the requirement too.
LEMMA ConfirmBounded ==
    ASSUME DocTypes, NEW d \in Docs, NEW kind \in MovementKinds, NEW m \in MovementRecord,
           m.kind = kind, Accepted(d, kind, m), Bounded(d)
    PROVE  /\ Traced(Grown(moves[d], m))
           /\ \A l \in DOMAIN doc[d].frozen, mat \in Materials :
                 Within(Grown(moves[d], m), l, mat, Standard(d, l, mat))
<1> DEFINE s == moves[d]
<1>1. Traced(s) /\ History(s) /\ RowsWithin(d)
  BY DEF Bounded, Traced
<1>2. /\ IsFiniteSet(DOMAIN m.alloc)
      /\ \A k \in DOMAIN m.alloc : m.alloc[k] > 0
      /\ kind # "RETURN" => \A k \in DOMAIN m.alloc : k.origin = 0
      /\ kind = "RETURN" => \A r \in DOMAIN m.alloc :
                 /\ Back(r) \in OutOf(s)
                 /\ m.alloc[r] <= LeftOf(s, Back(r)[1], Back(r)[2])
      /\ kind = "ISSUE" => \A k \in DOMAIN m.alloc, mat \in Materials :
                 Part(s, Outgoing, RowSet(k.line, mat)) - Part(s, Returns, RowSet(k.line, mat))
                     + Moved(m, RowSet(k.line, mat))
                 <= Standard(d, k.line, mat)
  BY <1>1, AcceptedOf
<1>3. Traced(Grown(s, m))
  <2>1. CASE kind = "RETURN"
    BY <1>1, <1>2, <2>1, BackComes
  <2>2. CASE kind # "RETURN"
    BY <1>1, <1>2, <2>2, OutGoes
  <2> QED
    BY <2>1, <2>2
<1>4. ASSUME NEW l \in DOMAIN doc[d].frozen, NEW mat \in Materials
      PROVE  Within(Grown(s, m), l, mat, Standard(d, l, mat))
  <2> DEFINE required == Standard(d, l, mat)
  <2>1. required \in Nat
    BY FrozenType
  <2>2. Within(s, l, mat, required)
    BY <1>1 DEF RowsWithin
  <2>3. m.kind = "ISSUE" => \A k \in DOMAIN m.alloc : k.line = l =>
           Part(s, Outgoing, RowSet(l, mat)) - Part(s, Returns, RowSet(l, mat))
               + Moved(m, RowSet(l, mat)) <= required
    BY <1>2
  <2> HIDE DEF s, required
  <2>4. Within(Grown(s, m), l, mat, required)
    BY <1>1, <1>2, <2>1, <2>2, <2>3, WithinKept
  <2> QED
    BY <2>4 DEF s, required
<1> QED
  BY <1>3, <1>4

\* Documents are dispatched without movements and keep what they froze.
LEMMA StepAlloc == TypeInv /\ VersionCountsHistory /\ AllocInv /\ [Next]_vars => AllocInv'
<1> SUFFICES ASSUME TypeInv, VersionCountsHistory, AllocInv, [Next]_vars, NEW e \in Docs
             PROVE  Bounded(e)'
  BY DEF AllocInv, Bounded
<1>1. Bounded(e)
  BY DEF AllocInv, Bounded
<1>2. ASSUME doc'[e].frozen = doc[e].frozen, moves'[e] = moves[e] PROVE Bounded(e)'
  BY <1>1, <1>2 DEF Bounded, RowsWithin, Standard
<1>3. CASE DocsAlone
  BY <1>2, <1>3 DEF DocsAlone
<1>4. ASSUME NEW c \in Commands, NEW d \in Docs, Dispatch(c, d) PROVE Bounded(e)'
  <2>0. PICK S \in SUBSET Lines : \E frozen \in [S -> Basis] : Freezes(c, d, S, frozen)
    BY <1>4, DispatchFreezes
  <2>1. PICK frozen \in [S -> Basis] : Freezes(c, d, S, frozen)
    BY <2>0
  <2>2. CASE e = d
    <3>1. moves'[e] = <<>>
      BY <2>1, <2>2 DEF Freezes, VersionCountsHistory
    <3>2. doc'[e].frozen = frozen
      BY <2>1, <2>2 DEF Freezes, TypeInv, DocTypes
    <3>3. frozen \in FrozenBasis
      BY DEF FrozenBasis
    <3> QED
      BY <3>1, <3>2, <3>3, FreshBounded
  <2>3. CASE e # d
    <3>1. doc'[e] = doc[e] /\ moves'[e] = moves[e]
      BY <2>1, <2>3 DEF Freezes, TypeInv, DocTypes
    <3> QED
      BY <1>2, <3>1
  <2> QED
    BY <2>2, <2>3
<1>5. ASSUME NEW c \in Commands, NEW d \in Docs, Withdraw(c, d) PROVE Bounded(e)'
  <2>1. /\ doc' = [doc EXCEPT ![d].status = "WITHDRAWN", ![d].version = NextVersion(d)]
        /\ moves' = moves
    BY <1>5 DEF Withdraw
  <2>2. doc'[e].frozen = doc[e].frozen
    BY <2>1 DEF TypeInv, DocTypes, DocRecord
  <2> QED
    BY <1>2, <2>1, <2>2
<1>6. ASSUME NEW c \in Commands, NEW d \in Docs, NEW kind \in MovementKinds, Confirm(c, d, kind)
      PROVE  Bounded(e)'
  <2>1. PICK m \in MovementRecord :
           Moves(c, d, kind, m) /\ Accepted(d, kind, m) /\ Recorded(c, d, kind, m)
    BY <1>6, ConfirmDoes
  <2>2. /\ doc' = [doc EXCEPT ![d].version = NextVersion(d), ![d].executed = TRUE]
        /\ moves' = [moves EXCEPT ![d] = Append(@, m)]
    BY <2>1 DEF Moves
  <2>3. doc'[e].frozen = doc[e].frozen
    BY <2>2 DEF TypeInv, DocTypes, DocRecord
  <2>4. CASE e = d
    <3>1. moves'[e] = Grown(moves[e], m)
      BY <2>2, <2>4 DEF TypeInv, DocTypes, Grown
    <3>2. m.kind = kind /\ Accepted(e, kind, m) /\ DocTypes
      BY <2>1, <2>4 DEF Recorded, TypeInv
    <3>3. /\ Traced(Grown(moves[e], m))
          /\ \A l \in DOMAIN doc[e].frozen, mat \in Materials :
                 Within(Grown(moves[e], m), l, mat, Standard(e, l, mat))
      BY <1>1, <3>2, ConfirmBounded
    <3> QED
      <4>1. \A l \in DOMAIN doc[e].frozen, mat \in Materials :
                Standard(e, l, mat)' = Standard(e, l, mat)
        BY <2>3 DEF Standard
      <4> QED
        BY <2>3, <3>1, <3>3, <4>1 DEF Bounded, RowsWithin
  <2>5. CASE e # d
    <3>1. moves'[e] = moves[e]
      BY <2>2, <2>5 DEF TypeInv, DocTypes
    <3> QED
      BY <1>2, <2>3, <3>1
  <2> QED
    BY <2>4, <2>5
<1> QED
  BY <1>3, <1>4, <1>5, <1>6, DocumentSteps

\* The history of every document stays within what it froze and issued.
LEMMA AlwaysBounded == Spec => []AllocInv
<1>1. Init => AllocInv
  BY InitAlloc
<1>2. TypeInv /\ VersionCountsHistory /\ AllocInv /\ [Next]_vars => AllocInv'
  BY StepAlloc
<1>3. Spec => []TypeInv
  BY AlwaysTyped
<1>4. Spec => []VersionCountsHistory
  BY VersionsCountHistory
<1> QED
  BY <1>1, <1>2, <1>3, <1>4, PTL DEF Spec

\* No allocation is returned beyond what it issued, however many partial returns
\* go back along it, and a row's net issue exceeds its frozen requirement by
\* supplements only.
THEOREM AllocationsAreBounded == Spec => []AllocationsBounded
<1>1. AllocInv => AllocationsBounded
  <2> SUFFICES ASSUME AllocInv, NEW d \in Docs
               PROVE  /\ \A o \in Originals(d) : Outstanding(d, o[1], o[2]) >= 0
                      /\ \A l \in DOMAIN doc[d].frozen, m \in Materials :
                            Net(d, l, m) <= Standard(d, l, m) + RowTotal(d, {"SUPPLEMENT"}, l, m)
    BY DEF AllocationsBounded
  <2>1. Traced(moves[d]) /\ RowsWithin(d) /\ History(moves[d])
    BY DEF AllocInv, Traced
  <2>2. \A o \in Originals(d) : Outstanding(d, o[1], o[2]) >= 0
    BY <2>1, OfHistories DEF Traced
  <2>3. ASSUME NEW l \in DOMAIN doc[d].frozen, NEW m \in Materials
        PROVE  Net(d, l, m) <= Standard(d, l, m) + RowTotal(d, {"SUPPLEMENT"}, l, m)
    <3>1. \A K : RowTotal(d, K, l, m) = Part(moves[d], K, RowSet(l, m))
      BY <2>1, OfHistories, RowIsPart
    <3>2. Within(moves[d], l, m, Standard(d, l, m))
      BY <2>1 DEF RowsWithin
    <3> QED
      BY <3>1, <3>2 DEF Within, Net, Outgoing, Returns, Supplements
  <2> QED
    BY <2>2, <2>3
<1> QED
  BY <1>1, AlwaysBounded, PTL

-----------------------------------------------------------------------------
(* What is due of a batch: its outstanding allocations, weighted by a number   *)
(* per movement (one for quantities, the issue cost for values).              *)

OutBatch(s, b) == {o \in OutOf(s) : o[2].batch = b}
KeysOf(m, b) == {k \in DOMAIN m.alloc : k.batch = b}
Weigh(s, w) == [o \in OutOf(s) |-> LeftOf(s, o[1], o[2]) * w[o[1]]]
Due(s, w, b) == SumOf(Weigh(s, w), OutBatch(s, b))

\* Weights that are numbers wherever something of the batch went out.
Weights(s, w, b) == \A o \in OutBatch(s, b) : w[o[1]] \in Int

\* What a movement carries of a batch, at a weight per key.
Carried(m, v, b) == SumOf([k \in DOMAIN m.alloc |-> m.alloc[k] * v[k]], KeysOf(m, b))

\* A due is a number, of finitely many allocations.
LEMMA DueType ==
    ASSUME NEW s, Traced(s), NEW w, NEW b, Weights(s, w, b)
    PROVE  /\ Due(s, w, b) \in Int /\ IsFiniteSet(OutBatch(s, b)) /\ OutBatch(s, b) \subseteq OutOf(s)
           /\ \A o \in OutBatch(s, b) : Weigh(s, w)[o] = LeftOf(s, o[1], o[2]) * w[o[1]]
           /\ \A o \in OutBatch(s, b) : LeftOf(s, o[1], o[2]) \in Int /\ w[o[1]] \in Int
           /\ \A o \in OutBatch(s, b) : Weigh(s, w)[o] \in Int
<1>1. IsFiniteSet(OutBatch(s, b)) /\ OutBatch(s, b) \subseteq OutOf(s)
  BY FS_Subset DEF OutBatch, Traced
<1>2. ASSUME NEW o \in OutBatch(s, b)
      PROVE  /\ Weigh(s, w)[o] = LeftOf(s, o[1], o[2]) * w[o[1]]
             /\ LeftOf(s, o[1], o[2]) \in Int /\ w[o[1]] \in Int /\ Weigh(s, w)[o] \in Int
  <2>1. o \in OutOf(s) /\ History(s)
    BY <1>1 DEF Traced
  <2>2. Weigh(s, w)[o] = LeftOf(s, o[1], o[2]) * w[o[1]]
    BY <2>1 DEF Weigh
  <2>3. LeftOf(s, o[1], o[2]) \in Int
    BY <2>1, OutType
  <2>4. w[o[1]] \in Int
    BY DEF Weights
  <2> QED
    BY <2>2, <2>3, <2>4
<1>3. Due(s, w, b) \in Int
  <2> DEFINE f == Weigh(s, w)
             S == OutBatch(s, b)
  <2>1. IsFiniteSet(S) /\ \A o \in S : f[o] \in Int
    BY <1>1, <1>2
  <2> HIDE DEF f, S
  <2>2. SumOf(f, S) \in Int
    BY <2>1, SumType
  <2> QED
    BY <2>2 DEF Due, f, S
<1> QED
  BY <1>1, <1>2, <1>3

\* The keys of a batch are finitely many.
LEMMA KeysType ==
    ASSUME NEW m \in MovementRecord, IsFiniteSet(DOMAIN m.alloc), NEW b
    PROVE  /\ IsFiniteSet(KeysOf(m, b)) /\ KeysOf(m, b) \subseteq DOMAIN m.alloc
           /\ \A k \in KeysOf(m, b) : k \in AllocKey /\ k.batch = b /\ m.alloc[k] \in Nat
<1>1. IsFiniteSet(KeysOf(m, b)) /\ KeysOf(m, b) \subseteq DOMAIN m.alloc
  BY FS_Subset DEF KeysOf
<1> QED
  BY <1>1, MovementAlloc DEF KeysOf

\* Outgoing material is due in full, at the weight of its movement.
LEMMA DueGoes ==
    ASSUME NEW s, Traced(s), NEW m \in MovementRecord, IsFiniteSet(DOMAIN m.alloc),
           m.kind # "RETURN", \A k \in DOMAIN m.alloc : m.alloc[k] > 0 /\ k.origin = 0,
           NEW b, NEW w, NEW x, Weights(s, w, b), Weights(Grown(s, m), x, b),
           \A o \in OutBatch(s, b) : x[o[1]] = w[o[1]],
           NEW v, \A k \in KeysOf(m, b) : v[k] = x[Len(s) + 1]
    PROVE  Due(Grown(s, m), x, b) = Due(s, w, b) + Carried(m, v, b)
<1> DEFINE t == Grown(s, m)
           n == Len(s) + 1
           K == KeysOf(m, b)
           S == OutBatch(s, b)
           O == OutBatch(t, b)
           e == [k \in K |-> <<n, k>>]
           a == [k \in DOMAIN m.alloc |-> m.alloc[k] * v[k]]
           f == [o \in O |-> IF o \in S THEN Weigh(s, w)[o] ELSE 0]
           g == Weigh(t, x)
<1>1. /\ Traced(t)
      /\ OutOf(t) = OutOf(s) \union ({n} \X DOMAIN m.alloc)
      /\ \A o \in OutOf(s) : o[1] # n /\ LeftOf(t, o[1], o[2]) = LeftOf(s, o[1], o[2])
      /\ \A k \in DOMAIN m.alloc : LeftOf(t, n, k) = m.alloc[k]
  BY OutGoes
<1>2. /\ IsFiniteSet(S) /\ S \subseteq OutOf(s) /\ \A o \in S : Weigh(s, w)[o] \in Int
      /\ \A o \in S : Weigh(s, w)[o] = LeftOf(s, o[1], o[2]) * w[o[1]]
  BY DueType
<1>3. /\ IsFiniteSet(O) /\ \A o \in O : g[o] \in Int
      /\ \A o \in O : g[o] = LeftOf(t, o[1], o[2]) * x[o[1]]
      /\ \A o \in O : x[o[1]] \in Int
  BY <1>1, DueType
<1>4. /\ IsFiniteSet(K) /\ K \subseteq DOMAIN m.alloc
      /\ \A k \in K : k.batch = b /\ m.alloc[k] \in Nat
  BY KeysType
<1>5. O = S \union ({n} \X K) /\ \A o \in {n} \X K : o \notin S
  BY <1>1 DEF OutBatch, KeysOf
<1>6. /\ e \in [K -> O] /\ \A r \in K, q \in K : e[r] = e[q] => r = q
      /\ \A k \in K : e[k] = <<n, k>> /\ e[k] \in O /\ e[k] \notin S
      /\ \A o \in O : (\A r \in K : e[r] # o) => o \in S
  BY <1>5
<1>7. ASSUME NEW k \in K PROVE g[e[k]] = a[k] /\ a[k] \in Int /\ f[e[k]] = 0
  <2>1. e[k] \in O /\ e[k][1] = n /\ e[k][2] = k /\ e[k] \notin S
    BY <1>6
  <2>2. g[e[k]] = LeftOf(t, n, k) * x[n]
    BY <1>3, <2>1
  <2>3. LeftOf(t, n, k) = m.alloc[k] /\ v[k] = x[n] /\ k \in DOMAIN m.alloc
    BY <1>1, <1>4
  <2>4. a[k] = m.alloc[k] * v[k]
    BY <2>3
  <2>5. g[e[k]] \in Int
    BY <1>3, <2>1
  <2> QED
    BY <2>1, <2>2, <2>3, <2>4, <2>5
<1>8. ASSUME NEW o \in S PROVE g[o] = f[o] /\ f[o] = Weigh(s, w)[o] /\ f[o] \in Int
  <2>1. o \in O /\ o \in OutOf(s)
    BY <1>2, <1>5
  <2>2. g[o] = LeftOf(t, o[1], o[2]) * x[o[1]]
    BY <1>3, <2>1
  <2>3. LeftOf(t, o[1], o[2]) = LeftOf(s, o[1], o[2]) /\ x[o[1]] = w[o[1]]
    BY <1>1, <2>1
  <2>4. f[o] = Weigh(s, w)[o]
    BY <2>1
  <2> QED
    BY <1>2, <2>2, <2>3, <2>4
<1>9. \A o \in O : f[o] \in Int
  BY <1>2
<1>10. \A o \in O \ S : f[o] = 0
  OBVIOUS
<1>11. S \in SUBSET O
  BY <1>5
<1> HIDE DEF t, n, K, S, O, e, a, f, g
<1>12. \A r \in K : g[e[r]] = f[e[r]] + a[r]
  BY <1>7
<1>13. \A o \in O : (\A r \in K : e[r] # o) => g[o] = f[o]
  BY <1>6, <1>8
<1>14. SumOf(g, O) = SumOf(f, O) + SumOf(a, K)
  <2>1. \A o \in O : g[o] \in Int
    BY <1>3
  <2>2. \A r \in K : a[r] \in Int
    BY <1>7
  <2>3. e \in [K -> O] /\ \A r \in K, q \in K : e[r] = e[q] => r = q
    BY <1>6
  <2>4. IsFiniteSet(O) /\ IsFiniteSet(K)
    BY <1>3, <1>4
  <2>5. \A r \in K : g[e[r]] = f[e[r]] + a[r]
    BY <1>12
  <2>6. \A o \in O : (\A r \in K : e[r] # o) => g[o] = f[o]
    BY <1>13
  <2>7. \A o \in O : f[o] \in Int
    BY <1>9
  <2> QED
    BY <2>1, <2>2, <2>3, <2>4, <2>5, <2>6, <2>7, SpreadSum DEF Spreads
<1>15. SumOf(f, O) = SumOf(f, S)
  BY <1>3, <1>9, <1>10, <1>11, SumExtend
<1>16. SumOf(f, S) = SumOf(Weigh(s, w), S)
  <2> DEFINE h == Weigh(s, w)
  <2>1. \A o \in S : f[o] = h[o]
    BY <1>8
  <2> HIDE DEF h
  <2>2. SumOf(f, S) = SumOf(h, S)
    BY <1>2, <2>1, SumSame
  <2> QED
    BY <2>2 DEF h
<1>17. /\ Due(t, x, b) = SumOf(g, O) /\ Due(s, w, b) = SumOf(Weigh(s, w), S)
       /\ Carried(m, v, b) = SumOf(a, K)
  BY DEF Due, Carried, g, O, S, a, K
<1> QED
  BY <1>14, <1>15, <1>16, <1>17 DEF t

\* Returned material is no longer due, at the weight of the movement it came from.
LEMMA DueComes ==
    ASSUME NEW s, Traced(s), NEW m \in MovementRecord, IsFiniteSet(DOMAIN m.alloc),
           m.kind = "RETURN", \A r \in DOMAIN m.alloc : m.alloc[r] > 0,
           \A r \in DOMAIN m.alloc : Back(r) \in OutOf(s) /\ m.alloc[r] <= LeftOf(s, Back(r)[1], Back(r)[2]),
           NEW b, NEW w, NEW x, Weights(s, w, b), Weights(Grown(s, m), x, b),
           \A o \in OutBatch(s, b) : x[o[1]] = w[o[1]],
           NEW v, \A r \in KeysOf(m, b) : v[r] = w[r.origin]
    PROVE  Due(Grown(s, m), x, b) = Due(s, w, b) - Carried(m, v, b) /\ Carried(m, v, b) \in Int
<1> DEFINE t == Grown(s, m)
           K == KeysOf(m, b)
           O == OutBatch(s, b)
           e == [r \in K |-> Back(r)]
           c == [k \in DOMAIN m.alloc |-> m.alloc[k] * v[k]]
           a == [k \in DOMAIN m.alloc |-> (-1) * c[k]]
           f == Weigh(s, w)
           g == Weigh(t, x)
<1>1. /\ Traced(t) /\ OutOf(t) = OutOf(s)
      /\ \A r \in DOMAIN m.alloc :
            LeftOf(t, Back(r)[1], Back(r)[2]) = LeftOf(s, Back(r)[1], Back(r)[2]) - m.alloc[r]
      /\ \A o \in OutOf(s) : (\A r \in DOMAIN m.alloc : Back(r) # o)
            => LeftOf(t, o[1], o[2]) = LeftOf(s, o[1], o[2])
  BY BackComes
<1>2. O = OutBatch(t, b)
  BY <1>1 DEF OutBatch
<1>3. /\ IsFiniteSet(O) /\ O \subseteq OutOf(s) /\ \A o \in O : f[o] \in Int
      /\ \A o \in O : f[o] = LeftOf(s, o[1], o[2]) * w[o[1]]
      /\ \A o \in O : LeftOf(s, o[1], o[2]) \in Int /\ w[o[1]] \in Int
  BY DueType
<1>4. /\ \A o \in O : g[o] \in Int
      /\ \A o \in O : g[o] = LeftOf(t, o[1], o[2]) * x[o[1]]
  BY <1>1, <1>2, DueType
<1>5. /\ IsFiniteSet(K) /\ K \subseteq DOMAIN m.alloc
      /\ \A k \in K : k \in AllocKey /\ k.batch = b /\ m.alloc[k] \in Nat
  BY KeysType
<1>6. ASSUME NEW r \in DOMAIN m.alloc, Back(r) \in O PROVE r \in K
  <2>1. r \in AllocKey
    BY MovementAlloc
  <2>2. r.batch = b
    BY <1>6, <2>1, ThereAndBack DEF OutBatch
  <2> QED
    BY <2>2 DEF KeysOf
<1>7. ASSUME NEW r \in K PROVE e[r] = Back(r) /\ e[r] \in O /\ Back(r)[1] = r.origin /\ KeyBack(e[r]) = r
  <2>1. r \in AllocKey /\ r \in DOMAIN m.alloc /\ r.batch = b
    BY <1>5
  <2>2. KeyBack(Back(r)) = r /\ Back(r)[1] = r.origin /\ Back(r)[2].batch = b
    BY <2>1, ThereAndBack
  <2> QED
    BY <2>1, <2>2 DEF OutBatch
<1>8. e \in [K -> O] /\ \A r \in K, q \in K : e[r] = e[q] => r = q
  <2> HIDE DEF K, O
  <2>1. \A r \in K, q \in K : e[r] = e[q] => KeyBack(e[r]) = KeyBack(e[q])
    OBVIOUS
  <2>2. \A r \in K : e[r] \in O /\ KeyBack(e[r]) = r
    BY <1>7
  <2> QED
    BY <2>1, <2>2
<1>9. ASSUME NEW r \in K PROVE g[e[r]] = f[e[r]] + a[r] /\ a[r] = (-1) * c[r] /\ c[r] \in Int
  <2> DEFINE o == Back(r)
             left == LeftOf(s, o[1], o[2])
             y == w[o[1]]
  <2>1. e[r] = o /\ o \in O /\ o[1] = r.origin /\ r \in DOMAIN m.alloc /\ m.alloc[r] \in Nat
    BY <1>5, <1>7
  <2>2. v[r] = y
    BY <2>1
  <2>3. c[r] = m.alloc[r] * y /\ a[r] = (-1) * (m.alloc[r] * y)
    BY <2>1, <2>2
  <2>4. f[o] = left * y /\ left \in Int /\ y \in Int
    BY <1>3, <2>1
  <2>5. g[o] = LeftOf(t, o[1], o[2]) * x[o[1]] /\ x[o[1]] = y
    BY <1>4, <2>1
  <2>6. LeftOf(t, o[1], o[2]) = left - m.alloc[r]
    BY <1>1, <2>1
  <2> HIDE DEF left, y, o
  <2>7. (left - m.alloc[r]) * y = left * y + (-1) * (m.alloc[r] * y)
    BY <2>1, <2>4
  <2> HIDE DEF a, c, f, g, e
  <2> QED
    BY <2>1, <2>3, <2>4, <2>5, <2>6, <2>7
<1>10. ASSUME NEW o \in O, \A r \in K : e[r] # o PROVE g[o] = f[o]
  <2>1. \A r \in DOMAIN m.alloc : Back(r) # o
    BY <1>6, <1>7, <1>10
  <2>2. LeftOf(t, o[1], o[2]) = LeftOf(s, o[1], o[2]) /\ x[o[1]] = w[o[1]]
    BY <1>1, <1>3, <2>1
  <2> QED
    BY <1>3, <1>4, <2>2
<1> HIDE DEF t, K, O, e, a, c, f, g
<1>11. \A r \in K : a[r] \in Int
  BY <1>9
<1>12. SumOf(g, O) = SumOf(f, O) + SumOf(a, K)
  <2>1. \A o \in O : f[o] \in Int
    BY <1>3
  <2>2. \A o \in O : g[o] \in Int
    BY <1>4
  <2>3. \A r \in K : g[e[r]] = f[e[r]] + a[r]
    BY <1>9
  <2>4. \A o \in O : (\A r \in K : e[r] # o) => g[o] = f[o]
    BY <1>10
  <2>5. IsFiniteSet(O) /\ IsFiniteSet(K)
    BY <1>3, <1>5
  <2>6. e \in [K -> O] /\ \A r \in K, q \in K : e[r] = e[q] => r = q
    BY <1>8
  <2>7. \A r \in K : a[r] \in Int
    BY <1>11
  <2> QED
    BY <2>1, <2>2, <2>3, <2>4, <2>5, <2>6, <2>7, SpreadSum DEF Spreads
<1>13. SumOf(a, K) = (-1) * SumOf(c, K) /\ SumOf(c, K) \in Int
  <2>1. \A r \in K : a[r] = (-1) * c[r]
    BY <1>9
  <2>2. \A r \in K : c[r] \in Int
    BY <1>9
  <2>3. -1 \in Int
    OBVIOUS
  <2> QED
    BY <1>5, <2>1, <2>2, <2>3, SumScale, SumType
<1>14. SumOf(f, O) \in Int
  BY <1>3, SumType
<1>15. /\ Due(t, x, b) = SumOf(g, O) /\ Due(s, w, b) = SumOf(f, O)
       /\ Carried(m, v, b) = SumOf(c, K)
  <2>1. OutBatch(t, b) = O
    BY <1>2
  <2> QED
    BY <2>1 DEF Due, Carried, g, f, O, c, K
<1> QED
  BY <1>12, <1>13, <1>14, <1>15 DEF t

-----------------------------------------------------------------------------
(* Unit costs: the integer divisions of the model leave no remainder.          *)

\* A multiple is divided without remainder.
LEMMA DivMultiple == \A q, z \in Int : q > 0 => (q * z) \div q = z
<1> SUFFICES ASSUME NEW q \in Int, NEW z \in Int, q > 0 PROVE (q * z) \div q = z
  OBVIOUS
<1> QED
  BY SMTT(30)

\* The average cost of a source that divides exactly is the cost of what it
\* gives away.
LEMMA CostExact ==
    ASSUME NEW a \in Nat, NEW q \in Nat, q > 0, a % q = 0, NEW t \in Nat, t > 0
    PROVE  /\ a \div q \in Nat /\ (t * a) \div q = t * (a \div q)
           /\ (t * (a \div q)) \div t = a \div q
<1> DEFINE c == a \div q
<1>1. c \in Nat /\ a = q * c
  BY SMTT(30)
<1> HIDE DEF c
<1>2. t * c \in Int /\ t * a = q * (t * c)
  BY <1>1
<1>3. (q * (t * c)) \div q = t * c
  BY <1>2, DivMultiple
<1>4. (t * c) \div t = c
  BY <1>1, DivMultiple
<1> QED
  BY <1>1, <1>2, <1>3, <1>4 DEF c

-----------------------------------------------------------------------------
(* Pending custody.                                                          *)

Units(s) == [i \in DOMAIN s |-> 1]
Costs(s, b) == [i \in DOMAIN s |-> s[i].value[b] \div s[i].total[b]]

QtyOf(s, b) == MapThenSumSet(LAMBDA o : LeftOf(s, o[1], o[2]), OutBatch(s, b))
ValueOf(s, b) == MapThenSumSet(
    LAMBDA o : LeftOf(s, o[1], o[2]) * (s[o[1]].value[b] \div s[o[1]].total[b]), OutBatch(s, b))

\* The dues of all documents, in quantity and in value.
QtyDue(mv, b) == [d \in Docs |-> Due(mv[d], Units(mv[d]), b)]
ValueDue(mv, b) == [d \in Docs |-> Due(mv[d], Costs(mv[d], b), b)]

\* The unit weight is a number everywhere.
LEMMA UnitWeights ==
    ASSUME NEW s, Traced(s), NEW b
    PROVE  Weights(s, Units(s), b) /\ \A o \in OutBatch(s, b) : Units(s)[o[1]] = 1
<1> SUFFICES ASSUME NEW o \in OutBatch(s, b) PROVE Units(s)[o[1]] = 1
  BY DEF Weights
<1>1. o[1] \in DOMAIN s
  BY OutType DEF OutBatch, Traced
<1> QED
  BY <1>1 DEF Units

\* The quantity the model calls outstanding.
LEMMA QtyIsDue ==
    ASSUME NEW s, Traced(s), NEW b
    PROVE  QtyOf(s, b) = Due(s, Units(s), b)
<1> DEFINE S == OutBatch(s, b)
           f == Weigh(s, Units(s))
           e(o) == LeftOf(s, o[1], o[2])
           A(iter) == iter = [u \in SUBSET S |-> IF u = {} THEN 0 ELSE e(Pick(u)) + iter[u \ {Pick(u)}]]
<1>1. QtyOf(s, b) = (CHOOSE iter : A(iter))[S]
  BY DEF QtyOf, MapThenSumSet, MapThenFoldSet, Pick
<1>2. ASSUME NEW o \in S PROVE e(o) = f[o]
  <2>1. f[o] = LeftOf(s, o[1], o[2]) * Units(s)[o[1]] /\ LeftOf(s, o[1], o[2]) \in Int
    BY UnitWeights, DueType
  <2>2. Units(s)[o[1]] = 1
    BY UnitWeights
  <2> QED
    BY <2>1, <2>2
<1> HIDE DEF f, e, S
<1>3. \A u \in SUBSET S : u # {} => e(Pick(u)) = f[Pick(u)]
  BY <1>2 DEF Pick
<1>4. ASSUME NEW iter PROVE A(iter) <=> Sums(iter, f, S)
  <2>1. [u \in SUBSET S |-> IF u = {} THEN 0 ELSE e(Pick(u)) + iter[u \ {Pick(u)}]]
        = [u \in SUBSET S |-> IF u = {} THEN 0 ELSE f[Pick(u)] + iter[u \ {Pick(u)}]]
    BY <1>3
  <2> QED
    BY <2>1 DEF Sums
<1> HIDE DEF A
<1>5. (CHOOSE iter : A(iter)) = (CHOOSE iter : Sums(iter, f, S))
  BY <1>4, Zenon
<1> QED
  BY <1>1, <1>5, SumIsFold DEF f, Fold, Due, S

\* And its value.
LEMMA ValueIsDue ==
    ASSUME NEW s, Traced(s), NEW b
    PROVE  ValueOf(s, b) = Due(s, Costs(s, b), b)
<1> DEFINE S == OutBatch(s, b)
           f == Weigh(s, Costs(s, b))
           e(o) == LeftOf(s, o[1], o[2]) * (s[o[1]].value[b] \div s[o[1]].total[b])
           A(iter) == iter = [u \in SUBSET S |-> IF u = {} THEN 0 ELSE e(Pick(u)) + iter[u \ {Pick(u)}]]
<1>1. ValueOf(s, b) = (CHOOSE iter : A(iter))[S]
  BY DEF ValueOf, MapThenSumSet, MapThenFoldSet, Pick
<1>2. ASSUME NEW o \in S PROVE e(o) = f[o]
  <2>1. o \in OutOf(s) /\ o[1] \in DOMAIN s
    BY OutType DEF OutBatch, Traced
  <2> QED
    BY <2>1 DEF Weigh, Costs
<1> HIDE DEF f, e, S
<1>3. \A u \in SUBSET S : u # {} => e(Pick(u)) = f[Pick(u)]
  BY <1>2 DEF Pick
<1>4. ASSUME NEW iter PROVE A(iter) <=> Sums(iter, f, S)
  <2>1. [u \in SUBSET S |-> IF u = {} THEN 0 ELSE e(Pick(u)) + iter[u \ {Pick(u)}]]
        = [u \in SUBSET S |-> IF u = {} THEN 0 ELSE f[Pick(u)] + iter[u \ {Pick(u)}]]
    BY <1>3
  <2> QED
    BY <2>1 DEF Sums
<1> HIDE DEF A
<1>5. (CHOOSE iter : A(iter)) = (CHOOSE iter : Sums(iter, f, S))
  BY <1>4, Zenon
<1> QED
  BY <1>1, <1>5, SumIsFold DEF f, Fold, Due, S

\* The quantity outstanding over all documents.
LEMMA OutstandingQtyDue ==
    ASSUME NEW b, \A d \in Docs : Traced(moves[d])
    PROVE  OutstandingQty(b) = SumOf(QtyDue(moves, b), Docs)
<1> DEFINE f == QtyDue(moves, b)
           e(d) == QtyOf(moves[d], b)
           A(iter) == iter = [u \in SUBSET Docs |-> IF u = {} THEN 0 ELSE e(Pick(u)) + iter[u \ {Pick(u)}]]
<1>1. OutstandingQty(b) = (CHOOSE iter : A(iter))[Docs]
  <2>1. OutstandingQty(b) = MapThenSumSet(LAMBDA d : QtyOf(moves[d], b), Docs)
    BY DEF OutstandingQty, QtyOf, OutBatch, Originals, OutOf, Outstanding, ReturnedOf, AllocTotal,
           LeftOf, BackOf, OfKind, Returns
  <2> QED
    BY <2>1 DEF MapThenSumSet, MapThenFoldSet, Pick
<1>2. ASSUME NEW d \in Docs PROVE e(d) = f[d]
  BY QtyIsDue DEF QtyDue
<1> HIDE DEF f, e
<1>3. \A u \in SUBSET Docs : u # {} => e(Pick(u)) = f[Pick(u)]
  BY <1>2 DEF Pick
<1>4. ASSUME NEW iter PROVE A(iter) <=> Sums(iter, f, Docs)
  <2>1. [u \in SUBSET Docs |-> IF u = {} THEN 0 ELSE e(Pick(u)) + iter[u \ {Pick(u)}]]
        = [u \in SUBSET Docs |-> IF u = {} THEN 0 ELSE f[Pick(u)] + iter[u \ {Pick(u)}]]
    BY <1>3
  <2> QED
    BY <2>1 DEF Sums
<1> HIDE DEF A
<1>5. (CHOOSE iter : A(iter)) = (CHOOSE iter : Sums(iter, f, Docs))
  BY <1>4, Zenon
<1> QED
  BY <1>1, <1>5, SumIsFold DEF f, Fold

\* And its value.
LEMMA OutstandingValueDue ==
    ASSUME NEW b, \A d \in Docs : Traced(moves[d])
    PROVE  OutstandingValue(b) = SumOf(ValueDue(moves, b), Docs)
<1> DEFINE f == ValueDue(moves, b)
           e(d) == ValueOf(moves[d], b)
           A(iter) == iter = [u \in SUBSET Docs |-> IF u = {} THEN 0 ELSE e(Pick(u)) + iter[u \ {Pick(u)}]]
<1>1. OutstandingValue(b) = (CHOOSE iter : A(iter))[Docs]
  <2>1. OutstandingValue(b) = MapThenSumSet(LAMBDA d : ValueOf(moves[d], b), Docs)
    BY DEF OutstandingValue, ValueOf, OutBatch, Originals, OutOf, Outstanding, ReturnedOf, AllocTotal,
           LeftOf, BackOf, OfKind, Returns, OriginalCost
  <2> QED
    BY <2>1 DEF MapThenSumSet, MapThenFoldSet, Pick
<1>2. ASSUME NEW d \in Docs PROVE e(d) = f[d]
  BY ValueIsDue DEF ValueDue
<1> HIDE DEF f, e
<1>3. \A u \in SUBSET Docs : u # {} => e(Pick(u)) = f[Pick(u)]
  BY <1>2 DEF Pick
<1>4. ASSUME NEW iter PROVE A(iter) <=> Sums(iter, f, Docs)
  <2>1. [u \in SUBSET Docs |-> IF u = {} THEN 0 ELSE e(Pick(u)) + iter[u \ {Pick(u)}]]
        = [u \in SUBSET Docs |-> IF u = {} THEN 0 ELSE f[Pick(u)] + iter[u \ {Pick(u)}]]
    BY <1>3
  <2> QED
    BY <2>1 DEF Sums
<1> HIDE DEF A
<1>5. (CHOOSE iter : A(iter)) = (CHOOSE iter : Sums(iter, f, Docs))
  BY <1>4, Zenon
<1> QED
  BY <1>1, <1>5, SumIsFold DEF f, Fold

\* What a movement carries of a batch at one weight is that weight times its total;
\* it has no key of a batch it carries nothing of.
LEMMA CarriedAt ==
    ASSUME NEW m \in MovementRecord, IsFiniteSet(DOMAIN m.alloc), NEW b,
           m.total[b] = BatchTotal(m.alloc, b), \A k \in DOMAIN m.alloc : m.alloc[k] > 0
    PROVE  /\ m.total[b] \in Nat /\ (m.total[b] = 0 => KeysOf(m, b) = {})
           /\ \A c \in Int : \A v : (\A k \in KeysOf(m, b) : v[k] = c) => Carried(m, v, b) = c * m.total[b]
<1> DEFINE K == KeysOf(m, b)
           a == m.alloc
<1>1. IsFiniteSet(K) /\ K \subseteq DOMAIN m.alloc /\ \A k \in K : a[k] \in Int /\ a[k] > 0
  BY KeysType
<1>2. m.total[b] = SumOf(a, K)
  BY DEF BatchTotal, KeysOf, SumOf
<1> HIDE DEF K
<1>3. SumOf(a, K) \in Int /\ SumOf(a, K) >= 0
  <2> HIDE DEF a
  <2>1. \A k \in K : a[k] \in Int
    BY <1>1
  <2>2. \A k \in K : a[k] >= 0
    BY <1>1
  <2> QED
    BY <1>1, <2>1, <2>2, SumType
<1>4. ASSUME m.total[b] = 0 PROVE K = {}
  <2>1. SUFFICES ASSUME NEW k \in K PROVE FALSE
    OBVIOUS
  <2> HIDE DEF a
  <2>2. \A y \in K : a[y] \in Int /\ a[y] >= 0
    BY <1>1
  <2>3. a[k] <= SumOf(a, K)
    BY <1>1, <2>2, SumAtLeast
  <2>4. SumOf(a, K) = 0
    BY <1>2, <1>4
  <2>5. a[k] \in Int /\ a[k] > 0
    BY <1>1
  <2> QED
    BY <2>3, <2>4, <2>5
<1>5. ASSUME NEW c \in Int, NEW v, \A k \in K : v[k] = c PROVE Carried(m, v, b) = c * m.total[b]
  <2> DEFINE f == [k \in DOMAIN m.alloc |-> m.alloc[k] * v[k]]
  <2>1. ASSUME NEW k \in K PROVE f[k] = c * a[k]
    <3>1. f[k] = m.alloc[k] * v[k]
      BY <1>1
    <3>2. v[k] = c /\ a[k] \in Int
      BY <1>1, <1>5
    <3> QED
      BY <3>1, <3>2
  <2>2. Carried(m, v, b) = SumOf(f, K)
    BY DEF Carried, K
  <2> HIDE DEF f, a
  <2>3. \A k \in K : f[k] = c * a[k]
    BY <2>1
  <2>4. \A k \in K : a[k] \in Int
    BY <1>1
  <2>5. SumOf(f, K) = c * SumOf(a, K)
    BY <1>1, <2>3, <2>4, SumScale
  <2> QED
    BY <1>2, <2>2, <2>5
<1> QED
  BY <1>2, <1>3, <1>4, <1>5 DEF K

\* The value of a return is what it carries at the costs of its originals.
LEMMA ReturnCarried ==
    ASSUME NEW d \in Docs, NEW m \in MovementRecord, NEW b \in Batches,
           NEW v, \A k \in KeysOf(m, b) : v[k] = OriginalCost(d, k.origin, b)
    PROVE  MapThenSumSet(LAMBDA k : m.alloc[k] * OriginalCost(d, k.origin, b),
                         {k \in DOMAIN m.alloc : k.batch = b}) = Carried(m, v, b)
<1> DEFINE S == KeysOf(m, b)
           f == [k \in DOMAIN m.alloc |-> m.alloc[k] * v[k]]
           e(k) == m.alloc[k] * OriginalCost(d, k.origin, b)
           sum == MapThenSumSet(LAMBDA k : m.alloc[k] * OriginalCost(d, k.origin, b),
                                {k \in DOMAIN m.alloc : k.batch = b})
           A(iter) == iter = [u \in SUBSET S |-> IF u = {} THEN 0 ELSE e(Pick(u)) + iter[u \ {Pick(u)}]]
<1>1. sum = (CHOOSE iter : A(iter))[S]
  BY DEF MapThenSumSet, MapThenFoldSet, Pick, KeysOf
<1>2. ASSUME NEW k \in S PROVE e(k) = f[k]
  <2>1. k \in DOMAIN m.alloc
    BY DEF KeysOf
  <2> QED
    BY <2>1
<1>3. Carried(m, v, b) = SumOf(f, S)
  BY DEF Carried
<1> HIDE DEF f, e, S, sum
<1>4. \A u \in SUBSET S : u # {} => e(Pick(u)) = f[Pick(u)]
  BY <1>2 DEF Pick
<1>5. ASSUME NEW iter PROVE A(iter) <=> Sums(iter, f, S)
  <2>1. [u \in SUBSET S |-> IF u = {} THEN 0 ELSE e(Pick(u)) + iter[u \ {Pick(u)}]]
        = [u \in SUBSET S |-> IF u = {} THEN 0 ELSE f[Pick(u)] + iter[u \ {Pick(u)}]]
    BY <1>4
  <2> QED
    BY <2>1 DEF Sums
<1> HIDE DEF A
<1>6. (CHOOSE iter : A(iter)) = (CHOOSE iter : Sums(iter, f, S))
  BY <1>5, Zenon
<1>7. sum = SumOf(f, S)
  BY <1>1, <1>6, SumIsFold DEF Fold
<1> QED
  BY <1>3, <1>7 DEF sum

\* Movements keep their costs, and a new one brings its own.
LEMMA CostsGrow ==
    ASSUME NEW s, Traced(s), NEW m \in MovementRecord, IsFiniteSet(DOMAIN m.alloc), NEW b
    PROVE  /\ \A o \in OutBatch(s, b) : /\ Costs(Grown(s, m), b)[o[1]] = Costs(s, b)[o[1]]
                                        /\ Units(Grown(s, m))[o[1]] = Units(s)[o[1]]
           /\ Costs(Grown(s, m), b)[Len(s) + 1] = m.value[b] \div m.total[b]
           /\ Units(Grown(s, m))[Len(s) + 1] = 1
<1> DEFINE t == Grown(s, m)
           n == Len(s) + 1
<1>1. /\ Len(s) \in Nat /\ DOMAIN s = 1..Len(s) /\ DOMAIN t = 1..n
      /\ \A i \in DOMAIN s : t[i] = s[i]
      /\ t[n] = m
  BY AppendHistory DEF Traced
<1>2. n \in DOMAIN t /\ DOMAIN s \subseteq DOMAIN t
  BY <1>1
<1> HIDE DEF t, n
<1>3. ASSUME NEW o \in OutBatch(s, b)
      PROVE  Costs(t, b)[o[1]] = Costs(s, b)[o[1]] /\ Units(t)[o[1]] = Units(s)[o[1]]
  <2>1. o[1] \in DOMAIN s
    BY OutType DEF OutBatch, Traced
  <2>2. o[1] \in DOMAIN t /\ t[o[1]] = s[o[1]]
    BY <1>1, <1>2, <2>1
  <2> QED
    BY <2>1, <2>2 DEF Costs, Units
<1>4. Costs(t, b)[n] = m.value[b] \div m.total[b] /\ Units(t)[n] = 1
  BY <1>1, <1>2 DEF Costs, Units
<1> QED
  BY <1>3, <1>4 DEF t, n

\* Issued at the average of a stock that divides exactly, a batch has a unit cost.
LEMMA IssueCost ==
    ASSUME NEW d \in Docs, NEW kind, kind # "RETURN", NEW m \in MovementRecord, NEW b \in Batches,
           stock \in [Batches -> Balance], Exact(kind, stock, m.total),
           m.value = MovedValue(d, kind, m.alloc, stock, m.total),
           m.total[b] \in 0..stock[b].qty
    PROVE  /\ m.total[b] = 0 => m.value[b] = 0
           /\ m.total[b] # 0 => /\ m.value[b] \div m.total[b] \in Nat
                                /\ m.value[b] = (m.value[b] \div m.total[b]) * m.total[b]
<1> DEFINE a == stock[b].value
           q == stock[b].qty
           t == m.total[b]
           v == m.value[b]
<1>1. a \in Nat /\ q \in Nat /\ t \in 0..q
  BY DEF Balance
<1>2. v = IF t = 0 THEN 0 ELSE (t * a) \div q
  BY DEF MovedValue
<1>3. q > 0 => a % q = 0
  BY DEF Exact
<1> HIDE DEF a, q, t, v
<1>4. ASSUME t # 0 PROVE v \div t \in Nat /\ v = (v \div t) * t
  <2>1. q > 0 /\ t > 0 /\ t \in Nat /\ a % q = 0
    BY <1>1, <1>3, <1>4
  <2>2. /\ a \div q \in Nat /\ (t * a) \div q = t * (a \div q)
        /\ (t * (a \div q)) \div t = a \div q
    BY <1>1, <2>1, CostExact
  <2> DEFINE c == a \div q
  <2>3. c \in Nat /\ v = t * c /\ v \div t = c
    BY <1>2, <1>4, <2>2
  <2> HIDE DEF c
  <2> QED
    BY <1>1, <2>1, <2>3
<1> QED
  BY <1>2, <1>4 DEF t, v

\* An issue or a supplement makes due what it takes from stock.
LEMMA IssueDue ==
    ASSUME TypeInv, NEW d \in Docs, NEW kind \in MovementKinds, kind # "RETURN", NEW m \in MovementRecord,
           m.kind = kind, Accepted(d, kind, m), CustodyTransfer(kind, m.total, m.value),
           Traced(moves[d]), NEW b \in Batches, Weights(moves[d], Costs(moves[d], b), b)
    PROVE  LET s == moves[d]
               t == Grown(s, m)
           IN  /\ Weights(t, Costs(t, b), b)
               /\ Due(t, Units(t), b) = Due(s, Units(s), b) + m.total[b]
               /\ Due(t, Costs(t, b), b) = Due(s, Costs(s, b), b) + m.value[b]
<1> DEFINE s == moves[d]
           t == Grown(s, m)
           n == Len(s) + 1
           c == m.value[b] \div m.total[b]
           K == KeysOf(m, b)
<1>1. Traced(s) /\ History(s)
  BY DEF Traced
<1>2. /\ IsFiniteSet(DOMAIN m.alloc)
      /\ \A k \in DOMAIN m.alloc : m.alloc[k] > 0
      /\ \A k \in DOMAIN m.alloc : k.origin = 0
  BY <1>1, AcceptedOf
<1>3. \A k \in DOMAIN m.alloc : m.alloc[k] > 0 /\ k.origin = 0
  BY <1>2
<1>4. /\ Exact(kind, stock, m.total) /\ m.value = MovedValue(d, kind, m.alloc, stock, m.total)
      /\ m.total = [a \in Batches |-> BatchTotal(m.alloc, a)]
  BY DEF Accepted
<1>5. m.total[b] \in 0..stock[b].qty /\ stock \in [Batches -> Balance]
  BY DEF CustodyTransfer, CanTransfer, TypeInv, StockTypes
<1>6. m.total[b] = BatchTotal(m.alloc, b)
  BY <1>4
<1>7. /\ m.total[b] \in Nat /\ (m.total[b] = 0 => K = {})
      /\ \A x \in Int : \A v : (\A k \in K : v[k] = x) => Carried(m, v, b) = x * m.total[b]
  BY <1>2, <1>6, CarriedAt
<1>8. /\ m.total[b] = 0 => m.value[b] = 0
      /\ m.total[b] # 0 => c \in Nat /\ m.value[b] = c * m.total[b]
  BY <1>4, <1>5, IssueCost
<1>9. /\ \A o \in OutBatch(s, b) : Costs(t, b)[o[1]] = Costs(s, b)[o[1]]
      /\ \A o \in OutBatch(s, b) : Units(t)[o[1]] = Units(s)[o[1]]
      /\ Costs(t, b)[n] = c /\ Units(t)[n] = 1
  BY <1>1, <1>2, CostsGrow
<1>10. Traced(t) /\ OutOf(t) = OutOf(s) \union ({n} \X DOMAIN m.alloc)
  BY <1>1, <1>2, <1>3, OutGoes
<1>11. OutBatch(t, b) = OutBatch(s, b) \union ({n} \X K)
  BY <1>10 DEF OutBatch, KeysOf
<1>12. Weights(s, Units(s), b) /\ Weights(t, Units(t), b)
  BY <1>1, <1>10, UnitWeights
<1> HIDE DEF s, t, n, c, K
<1>13. Weights(s, Costs(s, b), b)
  BY DEF s
<1>14. Weights(t, Costs(t, b), b)
  <2> SUFFICES ASSUME NEW o \in OutBatch(t, b) PROVE Costs(t, b)[o[1]] \in Int
    BY DEF Weights
  <2>1. CASE o \in OutBatch(s, b)
    BY <1>9, <1>13, <2>1 DEF Weights
  <2>2. CASE o \in {n} \X K
    <3>1. o[1] = n /\ K # {}
      BY <2>2
    <3> QED
      BY <1>7, <1>8, <1>9, <3>1
  <2> QED
    BY <1>11, <2>1, <2>2
<1>15. Due(t, Units(t), b) = Due(s, Units(s), b) + m.total[b]
  <2> DEFINE v == [k \in K |-> 1]
             w == Units(s)
             x == Units(t)
  <2>1. \A k \in K : v[k] = 1
    OBVIOUS
  <2>2. Carried(m, v, b) = m.total[b]
    <3>1. Carried(m, v, b) = 1 * m.total[b]
      BY <1>7, <2>1
    <3> QED
      BY <1>7, <3>1
  <2>3. \A k \in KeysOf(m, b) : v[k] = x[Len(s) + 1]
    BY <1>9, <2>1 DEF K, n
  <2>4. Weights(s, w, b) /\ Weights(Grown(s, m), x, b) /\ \A o \in OutBatch(s, b) : x[o[1]] = w[o[1]]
    BY <1>9, <1>12 DEF t
  <2> HIDE DEF v, w, x
  <2>5. m.kind # "RETURN"
    OBVIOUS
  <2>6. Due(Grown(s, m), x, b) = Due(s, w, b) + Carried(m, v, b)
    BY <1>1, <1>2, <1>3, <2>3, <2>4, <2>5, DueGoes
  <2> QED
    BY <2>2, <2>6 DEF w, x, t
<1>16. Due(t, Costs(t, b), b) = Due(s, Costs(s, b), b) + m.value[b]
  <2> DEFINE v == [k \in K |-> c]
             w == Costs(s, b)
             x == Costs(t, b)
  <2>1. \A k \in K : v[k] = c
    OBVIOUS
  <2>2. Carried(m, v, b) = m.value[b]
    <3>1. CASE m.total[b] # 0
      BY <1>7, <1>8, <2>1, <3>1
    <3>2. CASE m.total[b] = 0
      <4>1. \A k \in K : v[k] = 0
        BY <1>7, <3>2
      <4>2. Carried(m, v, b) = 0 * m.total[b]
        BY <1>7, <4>1
      <4> QED
        BY <1>7, <1>8, <3>2, <4>2
    <3> QED
      BY <3>1, <3>2
  <2>3. \A k \in KeysOf(m, b) : v[k] = x[Len(s) + 1]
    BY <1>9, <2>1 DEF K, n
  <2>4. Weights(s, w, b) /\ Weights(Grown(s, m), x, b) /\ \A o \in OutBatch(s, b) : x[o[1]] = w[o[1]]
    BY <1>9, <1>13, <1>14 DEF t
  <2> HIDE DEF v, w, x
  <2>5. m.kind # "RETURN"
    OBVIOUS
  <2>6. Due(Grown(s, m), x, b) = Due(s, w, b) + Carried(m, v, b)
    BY <1>1, <1>2, <1>3, <2>3, <2>4, <2>5, DueGoes
  <2> QED
    BY <2>2, <2>6 DEF w, x, t
<1> QED
  BY <1>14, <1>15, <1>16 DEF s, t

\* A return takes from what is due what it gives back to stock.
LEMMA ReturnDue ==
    ASSUME TypeInv, NEW d \in Docs, NEW m \in MovementRecord,
           m.kind = "RETURN", Accepted(d, "RETURN", m),
           Traced(moves[d]), NEW b \in Batches, Weights(moves[d], Costs(moves[d], b), b)
    PROVE  LET s == moves[d]
               t == Grown(s, m)
           IN  /\ Weights(t, Costs(t, b), b)
               /\ Due(t, Units(t), b) = Due(s, Units(s), b) - m.total[b]
               /\ Due(t, Costs(t, b), b) = Due(s, Costs(s, b), b) - m.value[b]
<1> DEFINE s == moves[d]
           t == Grown(s, m)
           K == KeysOf(m, b)
<1>1. Traced(s) /\ History(s) /\ "RETURN" \in MovementKinds
  BY DEF Traced, MovementKinds
<1>2. /\ IsFiniteSet(DOMAIN m.alloc)
      /\ \A k \in DOMAIN m.alloc : m.alloc[k] > 0
      /\ \A r \in DOMAIN m.alloc : /\ Back(r) \in OutOf(s)
                                   /\ m.alloc[r] <= LeftOf(s, Back(r)[1], Back(r)[2])
  BY <1>1, AcceptedOf
<1>3. /\ m.value = MovedValue(d, "RETURN", m.alloc, pending, m.total)
      /\ m.total = [a \in Batches |-> BatchTotal(m.alloc, a)]
  BY DEF Accepted
<1>4. m.total[b] = BatchTotal(m.alloc, b)
  BY <1>3
<1>5. /\ m.total[b] \in Nat /\ (m.total[b] = 0 => K = {})
      /\ \A x \in Int : \A v : (\A k \in K : v[k] = x) => Carried(m, v, b) = x * m.total[b]
  BY <1>2, <1>4, CarriedAt
<1>6. /\ \A o \in OutBatch(s, b) : Costs(t, b)[o[1]] = Costs(s, b)[o[1]]
      /\ \A o \in OutBatch(s, b) : Units(t)[o[1]] = Units(s)[o[1]]
  BY <1>1, <1>2, CostsGrow
<1>7. Traced(t) /\ OutOf(t) = OutOf(s)
  BY <1>1, <1>2, BackComes
<1>8. OutBatch(t, b) = OutBatch(s, b)
  BY <1>7 DEF OutBatch
<1>9. Weights(s, Units(s), b) /\ Weights(t, Units(t), b)
  BY <1>1, <1>7, UnitWeights
<1>10. ASSUME NEW r \in K
       PROVE  /\ r.origin \in DOMAIN s /\ Back(r) \in OutBatch(s, b) /\ Back(r)[1] = r.origin
              /\ Units(s)[r.origin] = 1
  <2>1. r \in DOMAIN m.alloc /\ r \in AllocKey /\ r.batch = b
    BY <1>2, KeysType
  <2>2. Back(r) \in OutOf(s) /\ Back(r)[1] = r.origin /\ Back(r)[2].batch = b
    BY <1>2, <2>1, ThereAndBack
  <2>3. Back(r)[1] \in DOMAIN s
    BY <1>1, <2>2, OutType
  <2> QED
    BY <2>2, <2>3 DEF OutBatch, Units
<1>11. ASSUME NEW r \in K PROVE OriginalCost(d, r.origin, b) = Costs(s, b)[r.origin]
  BY <1>10 DEF OriginalCost, Costs
<1> HIDE DEF s, t, K
<1>12. Weights(s, Costs(s, b), b)
  BY DEF s
<1>13. Weights(t, Costs(t, b), b)
  BY <1>6, <1>8, <1>12 DEF Weights
<1>14. Due(t, Units(t), b) = Due(s, Units(s), b) - m.total[b]
  <2> DEFINE v == [k \in K |-> 1]
             w == Units(s)
             x == Units(t)
  <2>1. \A k \in K : v[k] = 1
    OBVIOUS
  <2>2. Carried(m, v, b) = m.total[b]
    <3>1. Carried(m, v, b) = 1 * m.total[b]
      BY <1>5, <2>1
    <3> QED
      BY <1>5, <3>1
  <2>3. \A r \in KeysOf(m, b) : v[r] = w[r.origin]
    BY <1>10, <2>1 DEF K
  <2>4. Weights(s, w, b) /\ Weights(Grown(s, m), x, b) /\ \A o \in OutBatch(s, b) : x[o[1]] = w[o[1]]
    BY <1>6, <1>9 DEF t
  <2> HIDE DEF v, w, x
  <2>5. Due(Grown(s, m), x, b) = Due(s, w, b) - Carried(m, v, b)
    BY <1>1, <1>2, <2>3, <2>4, DueComes
  <2> QED
    BY <2>2, <2>5 DEF w, x, t
<1>15. Due(t, Costs(t, b), b) = Due(s, Costs(s, b), b) - m.value[b]
  <2> DEFINE w == Costs(s, b)
             x == Costs(t, b)
             v == [k \in K |-> w[k.origin]]
  <2>1. \A k \in K : v[k] = w[k.origin]
    OBVIOUS
  <2>2. Carried(m, v, b) = m.value[b]
    <3>1. CASE m.total[b] # 0
      <4>1. \A k \in KeysOf(m, b) : v[k] = OriginalCost(d, k.origin, b)
        BY <1>11, <2>1 DEF K
      <4>2. m.value[b] = MapThenSumSet(LAMBDA k : m.alloc[k] * OriginalCost(d, k.origin, b),
                                       {k \in DOMAIN m.alloc : k.batch = b})
        BY <1>3, <3>1, Zenon DEF MovedValue
      <4> HIDE DEF v, w
      <4>3. MapThenSumSet(LAMBDA k : m.alloc[k] * OriginalCost(d, k.origin, b),
                          {k \in DOMAIN m.alloc : k.batch = b}) = Carried(m, v, b)
        BY <4>1, ReturnCarried
      <4> QED
        BY <4>2, <4>3
    <3>2. CASE m.total[b] = 0
      <4>1. \A k \in K : v[k] = 0
        BY <1>5, <3>2
      <4>2. Carried(m, v, b) = 0 * m.total[b]
        BY <1>5, <4>1
      <4>3. m.value[b] = 0
        BY <1>3, <3>2 DEF MovedValue
      <4> QED
        BY <1>5, <3>2, <4>2, <4>3
    <3> QED
      BY <3>1, <3>2
  <2>3. \A r \in KeysOf(m, b) : v[r] = w[r.origin]
    BY <2>1 DEF K
  <2>4. Weights(s, w, b) /\ Weights(Grown(s, m), x, b) /\ \A o \in OutBatch(s, b) : x[o[1]] = w[o[1]]
    BY <1>6, <1>12, <1>13 DEF t
  <2> HIDE DEF v, w, x
  <2>5. Due(Grown(s, m), x, b) = Due(s, w, b) - Carried(m, v, b)
    BY <1>1, <1>2, <2>3, <2>4, DueComes
  <2> QED
    BY <2>2, <2>5 DEF w, x, t
<1> QED
  BY <1>13, <1>14, <1>15 DEF s, t

-----------------------------------------------------------------------------
(* The pending balance backs what the documents have outstanding.             *)

\* Every movement that went out has a unit cost, and the balance is what is due.
Costed(d) == \A b \in Batches : Weights(moves[d], Costs(moves[d], b), b)
PendingInv ==
    /\ \A d \in Docs : Costed(d)
    /\ \A b \in Batches : /\ pending[b].qty = SumOf(QtyDue(moves, b), Docs)
                          /\ pending[b].value = SumOf(ValueDue(moves, b), Docs)

\* Nothing is due of a document without movements.
LEMMA NothingDue == \A w, b : Weights(<<>>, w, b) /\ Due(<<>>, w, b) = 0
<1>1. \A b : OutBatch(<<>>, b) = {}
  BY NoMovements DEF OutBatch
<1> QED
  BY <1>1, SumEmpty DEF Weights, Due

\* Nothing is pending at first.
LEMMA InitPending == Init => PendingInv
<1> SUFFICES ASSUME Init PROVE PendingInv
  OBVIOUS
<1>1. \A d \in Docs : moves[d] = <<>>
  BY DEF Init
<1>2. \A d \in Docs : Costed(d)
  BY <1>1, NothingDue DEF Costed
<1>3. IsFiniteSet(Docs)
  BY ConstantsAssumption DEF ConstantsAssumption
<1>4. ASSUME NEW b \in Batches
      PROVE  SumOf(QtyDue(moves, b), Docs) = 0 /\ SumOf(ValueDue(moves, b), Docs) = 0
  <2> DEFINE f == QtyDue(moves, b)
             g == ValueDue(moves, b)
  <2>1. \A d \in Docs : f[d] = 0 /\ g[d] = 0
    BY <1>1, NothingDue DEF QtyDue, ValueDue
  <2> HIDE DEF f, g
  <2>2. SumOf(f, Docs) = 0 /\ SumOf(g, Docs) = 0
    BY <1>3, <2>1, SumZero
  <2> QED
    BY <2>2 DEF f, g
<1>5. \A b \in Batches : pending[b].qty = 0 /\ pending[b].value = 0
  BY DEF Init
<1> QED
  BY <1>2, <1>4, <1>5 DEF PendingInv

\* What all documents have due changes with the one that moves.
LEMMA AllDueChange ==
    ASSUME TypeInv, \A d \in Docs : Traced(moves[d]), \A d \in Docs : Traced(moves'[d]),
           NEW b \in Batches, NEW d \in Docs, \A e \in Docs \ {d} : moves'[e] = moves[e],
           \A e \in Docs : Weights(moves[e], Costs(moves[e], b), b),
           \A e \in Docs : Weights(moves'[e], Costs(moves'[e], b), b)
    PROVE  /\ SumOf(QtyDue(moves', b), Docs) = SumOf(QtyDue(moves, b), Docs)
                 - Due(moves[d], Units(moves[d]), b) + Due(moves'[d], Units(moves'[d]), b)
           /\ SumOf(ValueDue(moves', b), Docs) = SumOf(ValueDue(moves, b), Docs)
                 - Due(moves[d], Costs(moves[d], b), b) + Due(moves'[d], Costs(moves'[d], b), b)
           /\ SumOf(QtyDue(moves, b), Docs) \in Int /\ SumOf(ValueDue(moves, b), Docs) \in Int
           /\ Due(moves[d], Units(moves[d]), b) \in Int /\ Due(moves[d], Costs(moves[d], b), b) \in Int
<1> DEFINE f == QtyDue(moves, b)
           g == QtyDue(moves', b)
           h == ValueDue(moves, b)
           i == ValueDue(moves', b)
<1>1. IsFiniteSet(Docs)
  BY ConstantsAssumption DEF ConstantsAssumption
<1>2. ASSUME NEW e \in Docs
      PROVE  f[e] \in Int /\ h[e] \in Int /\ f[e] = Due(moves[e], Units(moves[e]), b)
             /\ h[e] = Due(moves[e], Costs(moves[e], b), b)
  <2>1. f[e] = Due(moves[e], Units(moves[e]), b) /\ h[e] = Due(moves[e], Costs(moves[e], b), b)
    BY DEF QtyDue, ValueDue
  <2>2. Weights(moves[e], Units(moves[e]), b) /\ Weights(moves[e], Costs(moves[e], b), b) /\ Traced(moves[e])
    BY UnitWeights
  <2> QED
    BY <2>1, <2>2, DueType
<1>3. ASSUME NEW e \in Docs
      PROVE  g[e] \in Int /\ i[e] \in Int /\ g[e] = Due(moves'[e], Units(moves'[e]), b)
             /\ i[e] = Due(moves'[e], Costs(moves'[e], b), b)
  <2>1. g[e] = Due(moves'[e], Units(moves'[e]), b) /\ i[e] = Due(moves'[e], Costs(moves'[e], b), b)
    BY DEF QtyDue, ValueDue
  <2>2. Weights(moves'[e], Units(moves'[e]), b) /\ Weights(moves'[e], Costs(moves'[e], b), b) /\ Traced(moves'[e])
    BY UnitWeights
  <2> QED
    BY <2>1, <2>2, DueType
<1>4. \A e \in Docs \ {d} : f[e] = g[e] /\ h[e] = i[e]
  BY <1>2, <1>3
<1> HIDE DEF f, g, h, i
<1>5. \A e \in Docs : f[e] \in Int /\ g[e] \in Int
  BY <1>2, <1>3
<1>6. \A e \in Docs : h[e] \in Int /\ i[e] \in Int
  BY <1>2, <1>3
<1>7. \A e \in Docs \ {d} : f[e] = g[e]
  BY <1>4
<1>8. \A e \in Docs \ {d} : h[e] = i[e]
  BY <1>4
<1>9. SumOf(g, Docs) = SumOf(f, Docs) - f[d] + g[d]
  BY <1>1, <1>5, <1>7, ChangeSum DEF Changes
<1>10. SumOf(i, Docs) = SumOf(h, Docs) - h[d] + i[d]
  BY <1>1, <1>6, <1>8, ChangeSum DEF Changes
<1>11. SumOf(f, Docs) \in Int /\ SumOf(h, Docs) \in Int
  BY <1>1, <1>5, <1>6, SumType
<1> QED
  BY <1>2, <1>3, <1>9, <1>10, <1>11 DEF f, g, h, i

\* A confirmation changes what is due of each batch by what it moves.
LEMMA ConfirmPending ==
    ASSUME TypeInv, AllocInv, AllocInv', PendingInv, NEW d \in Docs, NEW kind \in MovementKinds,
           NEW m \in MovementRecord, m.kind = kind, Accepted(d, kind, m),
           CustodyTransfer(kind, m.total, m.value),
           moves'[d] = Grown(moves[d], m), \A e \in Docs \ {d} : moves'[e] = moves[e]
    PROVE  PendingInv'
<1>1. \A e \in Docs : Traced(moves[e]) /\ Traced(moves'[e])
  BY DEF AllocInv
<1>2. ASSUME NEW b \in Batches
      PROVE  /\ Weights(moves[d], Costs(moves[d], b), b)
             /\ Weights(moves'[d], Costs(moves'[d], b), b)
             /\ kind # "RETURN" => /\ Due(moves'[d], Units(moves'[d]), b)
                                        = Due(moves[d], Units(moves[d]), b) + m.total[b]
                                   /\ Due(moves'[d], Costs(moves'[d], b), b)
                                        = Due(moves[d], Costs(moves[d], b), b) + m.value[b]
             /\ kind = "RETURN" => /\ Due(moves'[d], Units(moves'[d]), b)
                                        = Due(moves[d], Units(moves[d]), b) - m.total[b]
                                   /\ Due(moves'[d], Costs(moves'[d], b), b)
                                        = Due(moves[d], Costs(moves[d], b), b) - m.value[b]
  <2>1. Weights(moves[d], Costs(moves[d], b), b) /\ Traced(moves[d])
    BY <1>1 DEF PendingInv, Costed
  <2>2. CASE kind = "RETURN"
    BY <2>1, <2>2, ReturnDue
  <2>3. CASE kind # "RETURN"
    BY <2>1, <2>3, IssueDue
  <2> QED
    BY <2>1, <2>2, <2>3
<1>3. ASSUME NEW e \in Docs, NEW b \in Batches
      PROVE  Weights(moves[e], Costs(moves[e], b), b) /\ Weights(moves'[e], Costs(moves'[e], b), b)
  <2>1. Weights(moves[e], Costs(moves[e], b), b)
    BY DEF PendingInv, Costed
  <2>2. CASE e = d
    BY <1>2, <2>1, <2>2
  <2>3. CASE e # d
    <3>1. moves'[e] = moves[e]
      BY <2>3
    <3> QED
      BY <2>1, <3>1
  <2> QED
    BY <2>2, <2>3
<1>4. ASSUME NEW b \in Batches
      PROVE  /\ pending'[b].qty = SumOf(QtyDue(moves', b), Docs)
             /\ pending'[b].value = SumOf(ValueDue(moves', b), Docs)
  <2> DEFINE qty == SumOf(QtyDue(moves, b), Docs)
             value == SumOf(ValueDue(moves, b), Docs)
             newQty == SumOf(QtyDue(moves', b), Docs)
             newValue == SumOf(ValueDue(moves', b), Docs)
             dq == Due(moves[d], Units(moves[d]), b)
             dv == Due(moves[d], Costs(moves[d], b), b)
             newDq == Due(moves'[d], Units(moves'[d]), b)
             newDv == Due(moves'[d], Costs(moves'[d], b), b)
  <2>1. newQty = qty - dq + newDq /\ newValue = value - dv + newDv
    BY <1>1, <1>3, AllDueChange
  <2>2. qty \in Int /\ value \in Int /\ dq \in Int /\ dv \in Int
    BY <1>1, <1>3, AllDueChange
  <2>3. pending[b].qty = qty /\ pending[b].value = value
    BY DEF PendingInv
  <2>4. /\ kind # "RETURN" => newDq = dq + m.total[b] /\ newDv = dv + m.value[b]
        /\ kind = "RETURN" => newDq = dq - m.total[b] /\ newDv = dv - m.value[b]
    BY <1>2
  <2>5. m.total[b] \in Nat /\ m.value[b] \in Nat
    BY DEF MovementRecord
  <2>6. /\ kind # "RETURN" => /\ pending'[b].qty = pending[b].qty + m.total[b]
                              /\ pending'[b].value = pending[b].value + m.value[b]
        /\ kind = "RETURN" => /\ pending'[b].qty = pending[b].qty - m.total[b]
                              /\ pending'[b].value = pending[b].value - m.value[b]
    BY DEF CustodyTransfer, Debit, Credit
  <2> HIDE DEF qty, value, newQty, newValue, dq, dv, newDq, newDv
  <2>7. pending'[b].qty = newQty /\ pending'[b].value = newValue
    <3>1. CASE kind = "RETURN"
      BY <2>1, <2>2, <2>3, <2>4, <2>5, <2>6, <3>1
    <3>2. CASE kind # "RETURN"
      BY <2>1, <2>2, <2>3, <2>4, <2>5, <2>6, <3>2
    <3> QED
      BY <3>1, <3>2
  <2> QED
    BY <2>7 DEF newQty, newValue
<1> QED
  BY <1>3, <1>4 DEF PendingInv, Costed

\* Only confirmations move pending custody or documents' movements.
LEMMA StepPending == TypeInv /\ AllocInv /\ AllocInv' /\ PendingInv /\ [Next]_vars => PendingInv'
<1> SUFFICES ASSUME TypeInv, AllocInv, AllocInv', PendingInv, [Next]_vars PROVE PendingInv'
  OBVIOUS
<1>1. ASSUME moves' = moves, pending' = pending PROVE PendingInv'
  BY <1>1 DEF PendingInv, Costed
<1>2. CASE DocsAlone
  BY <1>1, <1>2 DEF DocsAlone
<1>3. ASSUME NEW c \in Commands, NEW d \in Docs, Dispatch(c, d) PROVE PendingInv'
  BY <1>1, <1>3, DispatchFreezes DEF Freezes, stockVars
<1>4. ASSUME NEW c \in Commands, NEW d \in Docs, Withdraw(c, d) PROVE PendingInv'
  BY <1>1, <1>4 DEF Withdraw, stockVars
<1>5. ASSUME NEW c \in Commands, NEW d \in Docs, NEW kind \in MovementKinds, Confirm(c, d, kind)
      PROVE  PendingInv'
  <2>1. PICK m \in MovementRecord :
           Moves(c, d, kind, m) /\ Accepted(d, kind, m) /\ Recorded(c, d, kind, m)
    BY <1>5, ConfirmDoes
  <2>2. moves' = [moves EXCEPT ![d] = Append(@, m)] /\ CustodyTransfer(kind, m.total, m.value)
    BY <2>1 DEF Moves
  <2>3. moves'[d] = Grown(moves[d], m) /\ \A e \in Docs \ {d} : moves'[e] = moves[e]
    BY <2>2 DEF TypeInv, DocTypes, Grown
  <2>4. m.kind = kind /\ Accepted(d, kind, m)
    BY <2>1 DEF Recorded
  <2> QED
    BY <2>2, <2>3, <2>4, ConfirmPending
<1> QED
  BY <1>2, <1>3, <1>4, <1>5, DocumentSteps

\* The pending-consumption balance of every batch is exactly what the documents
\* have outstanding of it, at the cost each allocation was issued at.
THEOREM PendingIsBacked == Spec => []PendingBacksOutstanding
<1>1. Init => PendingInv
  BY InitPending
<1>2. TypeInv /\ AllocInv /\ AllocInv' /\ PendingInv /\ [Next]_vars => PendingInv'
  BY StepPending
<1>3. AllocInv /\ PendingInv => PendingBacksOutstanding
  BY OutstandingQtyDue, OutstandingValueDue DEF AllocInv, PendingInv, PendingBacksOutstanding
<1>4. Spec => []TypeInv
  BY AlwaysTyped
<1>5. Spec => []AllocInv
  BY AlwaysBounded
<1> QED
  BY <1>1, <1>2, <1>3, <1>4, <1>5, PTL DEF Spec
==============================================================================
