------------------------------ MODULE FiniteSums ------------------------------
(***************************************************************************)
(* Facts about the sums of the community modules (MapThenSumSet) over finite *)
(* sets, for the proofs of invariants that count or add up.                 *)
(*                                                                         *)
(* The sum is a recursive function on the subsets of the set.  Its facts are  *)
(* proved by a minimal counterexample: the order of the finite subsets is     *)
(* well founded, which the library states of sets, so that no operator has to *)
(* be instantiated.                                                         *)
(***************************************************************************)
EXTENDS Integers, FiniteSets, FiniteSetsExt, FiniteSetTheorems, WellFoundedInduction, TLAPS

\* The element that the fold takes first.
Pick(s) == CHOOSE x \in s : TRUE

\* The sum of a function over a set.
SumOf(f, S) == MapThenSumSet(LAMBDA x : f[x], S)

\* iter is the recursive function of that fold on the subsets of S.
Sums(iter, f, S) ==
    iter = [s \in SUBSET S |-> IF s = {} THEN 0 ELSE f[Pick(s)] + iter[s \ {Pick(s)}]]
Fold(f, S) == CHOOSE iter : Sums(iter, f, S)

-----------------------------------------------------------------------------
\* A set of subsets of a finite set has one that is minimal.
LEMMA FiniteMinimal ==
    ASSUME NEW S, IsFiniteSet(S), NEW Bad, Bad \subseteq SUBSET S, Bad # {}
    PROVE  \E T \in Bad : IsFiniteSet(T) /\ \A U \in SUBSET T : U # T => U \notin Bad
<1> DEFINE R == StrictSubsetOrdering(S)
<1>1. IsWellFoundedOn(R, FiniteSubsetsOf(S)) /\ FiniteSubsetsOf(S) = SUBSET S
  BY FS_StrictSubsetOrderingWellFounded, FS_FiniteSubsetsOfFinite
<1>2. PICK T \in Bad : \A U \in Bad : ~(<<U, T>> \in R)
  <2> HIDE DEF R
  <2> QED
    BY <1>1, WFMin
<1>3. \A U \in SUBSET T : U # T => U \notin Bad
  BY <1>2 DEF StrictSubsetOrdering
<1>4. IsFiniteSet(T)
  BY FS_Subset
<1> QED
  BY <1>3, <1>4

\* Two recursive functions for the same sum agree.
LEMMA SumsUnique ==
    ASSUME NEW S, IsFiniteSet(S), NEW f, NEW i, NEW j, Sums(i, f, S), Sums(j, f, S)
    PROVE  i = j
<1> DEFINE Bad == {T \in SUBSET S : i[T] # j[T]}
<1>1. Bad = {}
  <2>1. SUFFICES ASSUME Bad # {} PROVE FALSE
    OBVIOUS
  <2>2. PICK T \in Bad : \A U \in SUBSET T : U # T => U \notin Bad
    <3>1. Bad \subseteq SUBSET S
      OBVIOUS
    <3> HIDE DEF Bad
    <3> QED
      BY <2>1, <3>1, FiniteMinimal
  <2>3. T # {} /\ i[T] = f[Pick(T)] + i[T \ {Pick(T)}] /\ j[T] = f[Pick(T)] + j[T \ {Pick(T)}]
    BY <2>2 DEF Sums
  <2>4. Pick(T) \in T
    BY <2>3 DEF Pick
  <2>5. i[T \ {Pick(T)}] = j[T \ {Pick(T)}]
    BY <2>2, <2>4
  <2> QED
    BY <2>2, <2>3, <2>5
<1>2. \A T \in SUBSET S : i[T] = j[T]
  BY <1>1
<1> QED
  BY <1>2 DEF Sums

\* A recursive function for a set serves its subsets.
LEMMA SumsRestrict ==
    ASSUME NEW S, NEW U \in SUBSET S, NEW f, NEW i, Sums(i, f, S)
    PROVE  Sums([s \in SUBSET U |-> i[s]], f, U)
<1> DEFINE r == [s \in SUBSET U |-> i[s]]
<1>1. \A s \in SUBSET U : s \in SUBSET S /\ s \ {Pick(s)} \in SUBSET U
  OBVIOUS
<1>2. \A s \in SUBSET U : r[s] = IF s = {} THEN 0 ELSE f[Pick(s)] + r[s \ {Pick(s)}]
  BY <1>1 DEF Sums
<1> HIDE DEF r
<1>3. r = [s \in SUBSET U |-> r[s]]
  BY DEF r
<1>4. r = [s \in SUBSET U |-> IF s = {} THEN 0 ELSE f[Pick(s)] + r[s \ {Pick(s)}]]
  BY <1>2, <1>3
<1> QED
  BY <1>4 DEF Sums, r

\* The recursive function exists.
LEMMA SumsExists ==
    ASSUME NEW S, IsFiniteSet(S), NEW f
    PROVE  Sums(Fold(f, S), f, S)
<1> DEFINE Bad == {T \in SUBSET S : ~Sums(Fold(f, T), f, T)}
<1>1. SUFFICES ASSUME Bad # {} PROVE FALSE
  OBVIOUS
<1>2. PICK T \in Bad : IsFiniteSet(T) /\ \A U \in SUBSET T : U # T => U \notin Bad
  <2>1. Bad \subseteq SUBSET S
    OBVIOUS
  <2> HIDE DEF Bad
  <2> QED
    BY <1>1, <2>1, FiniteMinimal
<1>3. \A U \in SUBSET T : U # T => Sums(Fold(f, U), f, U)
  BY <1>2
\* On what is smaller than T, the functions of different sets agree.
<1>4. ASSUME NEW U \in SUBSET T, U # T, NEW s \in SUBSET U PROVE Fold(f, s)[s] = Fold(f, U)[s]
  <2>1. Sums(Fold(f, s), f, s) /\ Sums(Fold(f, U), f, U)
    BY <1>3, <1>4
  <2>2. Sums([t \in SUBSET s |-> Fold(f, U)[t]], f, s)
    BY <2>1, SumsRestrict
  <2>3. IsFiniteSet(s)
    BY <1>2, FS_Subset
  <2>4. Fold(f, s) = [t \in SUBSET s |-> Fold(f, U)[t]]
    BY <2>1, <2>2, <2>3, SumsUnique
  <2> QED
    BY <2>4
<1> DEFINE V(U) == Fold(f, U)[U]
<1>5. ASSUME NEW U \in SUBSET T, U # T
      PROVE  V(U) = IF U = {} THEN 0 ELSE f[Pick(U)] + V(U \ {Pick(U)})
  <2>1. Fold(f, U)[U] = IF U = {} THEN 0 ELSE f[Pick(U)] + Fold(f, U)[U \ {Pick(U)}]
    BY <1>3, <1>5 DEF Sums
  <2>2. Fold(f, U \ {Pick(U)})[U \ {Pick(U)}] = Fold(f, U)[U \ {Pick(U)}]
    BY <1>4, <1>5
  <2> QED
    BY <2>1, <2>2
\* So they extend to T.
<1> DEFINE w == IF T = {} THEN 0 ELSE f[Pick(T)] + V(T \ {Pick(T)})
           r == [s \in SUBSET T |-> IF s = T THEN w ELSE V(s)]
<1>6. \A s \in SUBSET T : s # {} => /\ Pick(s) \in s /\ s \ {Pick(s)} \in SUBSET T
                                    /\ s \ {Pick(s)} # T /\ s \ {Pick(s)} # s
  BY DEF Pick
<1> HIDE DEF V
<1>7. \A s \in SUBSET T : r[s] = IF s = {} THEN 0 ELSE f[Pick(s)] + r[s \ {Pick(s)}]
  BY <1>5, <1>6
<1> HIDE DEF r
<1>8. r = [s \in SUBSET T |-> r[s]]
  BY DEF r
<1>9. r = [s \in SUBSET T |-> IF s = {} THEN 0 ELSE f[Pick(s)] + r[s \ {Pick(s)}]]
  BY <1>7, <1>8
<1>10. \E iter : Sums(iter, f, T)
  BY <1>9 DEF Sums
<1> QED
  BY <1>2, <1>10 DEF Fold

-----------------------------------------------------------------------------
\* The sum is the value of the recursive function.
LEMMA SumIsFold ==
    ASSUME NEW f, NEW S
    PROVE  SumOf(f, S) = Fold(f, S)[S]
BY DEF SumOf, MapThenSumSet, MapThenFoldSet, Sums, Pick, Fold

\* How a sum unfolds.
LEMMA SumUnfolds ==
    ASSUME NEW S, IsFiniteSet(S), NEW f
    PROVE  SumOf(f, S) = IF S = {} THEN 0 ELSE f[Pick(S)] + SumOf(f, S \ {Pick(S)})
<1> DEFINE U == S \ {Pick(S)}
<1>1. SumOf(f, S) = Fold(f, S)[S] /\ SumOf(f, U) = Fold(f, U)[U]
  BY SumIsFold
<1> U \in SUBSET S
  OBVIOUS
<1>2. IsFiniteSet(U)
  BY FS_Subset
<1>3. Sums(Fold(f, S), f, S) /\ Sums(Fold(f, U), f, U)
  BY <1>2, SumsExists
<1> HIDE DEF U
<1>4. Sums([t \in SUBSET U |-> Fold(f, S)[t]], f, U)
  BY <1>3, SumsRestrict
<1>5. Fold(f, U) = [t \in SUBSET U |-> Fold(f, S)[t]]
  BY <1>2, <1>3, <1>4, SumsUnique
<1>6. Fold(f, U)[U] = Fold(f, S)[U]
  BY <1>5
<1>7. Fold(f, S)[S] = IF S = {} THEN 0 ELSE f[Pick(S)] + Fold(f, S)[U]
  BY <1>3 DEF Sums, U
<1> QED
  BY <1>1, <1>6, <1>7 DEF U

\* A sum over nothing.
LEMMA SumEmpty == \A f : SumOf(f, {}) = 0
  BY FS_EmptySet, SumUnfolds

\* A sum of integers is one, and of naturals a natural.
LEMMA SumType ==
    ASSUME NEW S, IsFiniteSet(S), NEW f, \A x \in S : f[x] \in Int
    PROVE  SumOf(f, S) \in Int /\ ((\A x \in S : f[x] >= 0) => SumOf(f, S) >= 0)
<1> DEFINE Good(T) == SumOf(f, T) \in Int /\ ((\A x \in T : f[x] >= 0) => SumOf(f, T) >= 0)
           Bad == {T \in SUBSET S : ~Good(T)}
<1>1. SUFFICES ASSUME Bad # {} PROVE FALSE
  OBVIOUS
<1>2. PICK T \in Bad : IsFiniteSet(T) /\ \A U \in SUBSET T : U # T => U \notin Bad
  <2>1. Bad \subseteq SUBSET S
    OBVIOUS
  <2> HIDE DEF Bad
  <2> QED
    BY <1>1, <2>1, FiniteMinimal
<1>3. T \in SUBSET S /\ ~Good(T) /\ \A U \in SUBSET T : U # T => Good(U)
  BY <1>2
<1>4. CASE T = {}
  BY <1>3, <1>4, SumEmpty
<1>5. CASE T # {}
  <2>1. SumOf(f, T) = f[Pick(T)] + SumOf(f, T \ {Pick(T)})
    BY <1>2, <1>5, SumUnfolds
  <2>2. Pick(T) \in T
    BY <1>5 DEF Pick
  <2>3. Good(T \ {Pick(T)})
    BY <1>3, <2>2
  <2> QED
    BY <1>3, <2>1, <2>2, <2>3
<1> QED
  BY <1>4, <1>5

\* Any element may be taken out of a sum.
LEMMA SumRemove ==
    ASSUME NEW S, IsFiniteSet(S), NEW f, \A x \in S : f[x] \in Int, NEW y \in S
    PROVE  SumOf(f, S) = f[y] + SumOf(f, S \ {y})
<1> DEFINE Good(T) == \A x \in T : SumOf(f, T) = f[x] + SumOf(f, T \ {x})
           Bad == {T \in SUBSET S : ~Good(T)}
<1>1. SUFFICES ASSUME Bad # {} PROVE FALSE
  OBVIOUS
<1>2. PICK T \in Bad : IsFiniteSet(T) /\ \A U \in SUBSET T : U # T => U \notin Bad
  <2>1. Bad \subseteq SUBSET S
    OBVIOUS
  <2> HIDE DEF Bad
  <2> QED
    BY <1>1, <2>1, FiniteMinimal
<1>3. T \in SUBSET S /\ ~Good(T) /\ \A U \in SUBSET T : U # T => Good(U)
  BY <1>2
<1>4. \A U \in SUBSET T : IsFiniteSet(U) /\ SumOf(f, U) \in Int
  BY <1>3, FS_Subset, SumType
<1>5. PICK x \in T : SumOf(f, T) # f[x] + SumOf(f, T \ {x})
  BY <1>3
<1> DEFINE p == Pick(T)
<1>6. p \in T /\ SumOf(f, T) = f[p] + SumOf(f, T \ {p})
  BY <1>4, <1>5, SumUnfolds DEF Pick
<1>7. p # x
  BY <1>5, <1>6
<1> HIDE DEF p, Bad
<1>8. SumOf(f, T \ {p}) = f[x] + SumOf(f, (T \ {p}) \ {x})
  BY <1>3, <1>5, <1>6, <1>7
<1>9. SumOf(f, T \ {x}) = f[p] + SumOf(f, (T \ {x}) \ {p})
  BY <1>3, <1>5, <1>6, <1>7
<1>10. (T \ {x}) \ {p} = (T \ {p}) \ {x}
  OBVIOUS
<1>11. f[x] \in Int /\ f[p] \in Int /\ SumOf(f, (T \ {p}) \ {x}) \in Int
  BY <1>3, <1>4, <1>5, <1>6
<1> DEFINE rest == SumOf(f, (T \ {p}) \ {x})
<1>12. /\ SumOf(f, T) = f[p] + (f[x] + rest) /\ f[x] + SumOf(f, T \ {x}) = f[x] + (f[p] + rest)
       /\ rest \in Int
  BY <1>6, <1>8, <1>9, <1>10, <1>11
<1> HIDE DEF rest
<1>13. SumOf(f, T) = f[x] + SumOf(f, T \ {x})
  BY <1>11, <1>12
<1> QED
  BY <1>5, <1>13

\* An element is put into a sum.
LEMMA SumAdd ==
    ASSUME NEW S, IsFiniteSet(S), NEW f, NEW y, y \notin S, \A x \in S \union {y} : f[x] \in Int
    PROVE  SumOf(f, S \union {y}) = f[y] + SumOf(f, S)
<1>1. IsFiniteSet(S \union {y}) /\ (S \union {y}) \ {y} = S
  BY FS_AddElement
<1>2. SumOf(f, S \union {y}) = f[y] + SumOf(f, (S \union {y}) \ {y})
  BY <1>1, SumRemove
<1> QED
  BY <1>1, <1>2

\* Only the function's values on the set matter.
LEMMA SumSame ==
    ASSUME NEW S, IsFiniteSet(S), NEW f, NEW g, \A x \in S : f[x] = g[x]
    PROVE  SumOf(f, S) = SumOf(g, S)
<1> DEFINE Bad == {T \in SUBSET S : SumOf(f, T) # SumOf(g, T)}
<1>1. SUFFICES ASSUME Bad # {} PROVE FALSE
  OBVIOUS
<1>2. PICK T \in Bad : IsFiniteSet(T) /\ \A U \in SUBSET T : U # T => U \notin Bad
  <2>1. Bad \subseteq SUBSET S
    OBVIOUS
  <2> HIDE DEF Bad
  <2> QED
    BY <1>1, <2>1, FiniteMinimal
<1>3. T # {}
  BY <1>2, SumEmpty
<1>4. Pick(T) \in T
  BY <1>3 DEF Pick
<1>5. SumOf(f, T \ {Pick(T)}) = SumOf(g, T \ {Pick(T)})
  BY <1>2, <1>4
<1>6. /\ SumOf(f, T) = f[Pick(T)] + SumOf(f, T \ {Pick(T)})
      /\ SumOf(g, T) = g[Pick(T)] + SumOf(g, T \ {Pick(T)})
  BY <1>2, <1>3, SumUnfolds
<1> QED
  BY <1>2, <1>4, <1>5, <1>6

\* One value changes.
LEMMA SumChange ==
    ASSUME NEW S, IsFiniteSet(S), NEW f, NEW g, NEW y \in S,
           \A x \in S : f[x] \in Int /\ g[x] \in Int, \A x \in S \ {y} : f[x] = g[x]
    PROVE  SumOf(g, S) = SumOf(f, S) - f[y] + g[y]
<1>1. IsFiniteSet(S \ {y})
  BY FS_Subset
<1>2. SumOf(f, S \ {y}) = SumOf(g, S \ {y}) /\ SumOf(f, S \ {y}) \in Int
  BY <1>1, SumSame, SumType
<1>3. SumOf(f, S) = f[y] + SumOf(f, S \ {y}) /\ SumOf(g, S) = g[y] + SumOf(g, S \ {y})
  BY SumRemove
<1> QED
  BY <1>2, <1>3

\* Those hypotheses as one predicate: f and g differ at y only.
Changes(f, g, y, S) ==
    /\ IsFiniteSet(S) /\ y \in S
    /\ \A x \in S : f[x] \in Int /\ g[x] \in Int
    /\ \A x \in S \ {y} : f[x] = g[x]

\* One value changes, by that predicate.
LEMMA ChangeSum ==
    ASSUME NEW f, NEW g, NEW y, NEW S, Changes(f, g, y, S)
    PROVE  SumOf(g, S) = SumOf(f, S) - f[y] + g[y]
<1>1. /\ IsFiniteSet(S) /\ y \in S
      /\ \A x \in S : f[x] \in Int /\ g[x] \in Int
      /\ \A x \in S \ {y} : f[x] = g[x]
  BY DEF Changes
<1> QED
  BY <1>1, SumChange

\* A sum is zero when all its values are.
LEMMA SumZero ==
    ASSUME NEW S, IsFiniteSet(S), NEW f, \A x \in S : f[x] = 0
    PROVE  SumOf(f, S) = 0
<1> DEFINE Bad == {T \in SUBSET S : SumOf(f, T) # 0}
<1>1. SUFFICES ASSUME Bad # {} PROVE FALSE
  OBVIOUS
<1>2. PICK T \in Bad : IsFiniteSet(T) /\ \A U \in SUBSET T : U # T => U \notin Bad
  <2>1. Bad \subseteq SUBSET S
    OBVIOUS
  <2> HIDE DEF Bad
  <2> QED
    BY <1>1, <2>1, FiniteMinimal
<1>3. T # {}
  BY <1>2, SumEmpty
<1>4. Pick(T) \in T
  BY <1>3 DEF Pick
<1>5. SumOf(f, T \ {Pick(T)}) = 0
  BY <1>2, <1>4
<1>6. SumOf(f, T) = f[Pick(T)] + SumOf(f, T \ {Pick(T)})
  BY <1>2, <1>3, SumUnfolds
<1> QED
  BY <1>2, <1>4, <1>5, <1>6

\* A sum grows by one element, and its other terms are the same.
LEMMA SumGrow ==
    ASSUME NEW S, IsFiniteSet(S), NEW f, NEW g, NEW y, y \notin S,
           \A x \in S : f[x] \in Int, \A x \in S : g[x] = f[x], g[y] \in Int
    PROVE  SumOf(g, S \union {y}) = SumOf(f, S) + g[y]
<1>1. SumOf(g, S) = SumOf(f, S) /\ SumOf(f, S) \in Int
  BY SumSame, SumType
<1>2. SumOf(g, S \union {y}) = g[y] + SumOf(g, S)
  <2>1. \A x \in S \union {y} : g[x] \in Int
    OBVIOUS
  <2> QED
    BY <2>1, SumAdd
<1> QED
  BY <1>1, <1>2

\* What is zero can be left out of a sum.
LEMMA SumExtend ==
    ASSUME NEW S, IsFiniteSet(S), NEW T \in SUBSET S, NEW f, \A x \in S : f[x] \in Int,
           \A x \in S \ T : f[x] = 0
    PROVE  SumOf(f, S) = SumOf(f, T)
<1> DEFINE Good(U) == SumOf(f, T \union U) = SumOf(f, T)
           Bad == {U \in SUBSET (S \ T) : ~Good(U)}
<1>1. IsFiniteSet(S \ T)
  BY FS_Subset
<1>2. Bad = {}
  <2>1. SUFFICES ASSUME Bad # {} PROVE FALSE
    OBVIOUS
  <2>2. PICK U \in Bad : IsFiniteSet(U) /\ \A V \in SUBSET U : V # U => V \notin Bad
    <3>1. Bad \subseteq SUBSET (S \ T)
      OBVIOUS
    <3> HIDE DEF Bad
    <3> QED
      BY <1>1, <2>1, <3>1, FiniteMinimal
  <2>3. U \in SUBSET (S \ T) /\ ~Good(U) /\ \A V \in SUBSET U : V # U => Good(V)
    BY <2>2
  <2>4. CASE U = {}
    <3>1. T \union U = T
      BY <2>4
    <3> QED
      BY <2>3, <3>1
  <2>5. CASE U # {}
    <3> DEFINE p == Pick(U)
    <3>1. p \in U
      BY <2>5 DEF Pick
    <3> HIDE DEF p
    <3> DEFINE R == T \union (U \ {p})
    <3>2. Good(U \ {p})
      BY <2>3, <3>1
    <3>3. R \union {p} = T \union U /\ p \notin R /\ R \in SUBSET S /\ p \in S /\ f[p] = 0
      BY <2>3, <3>1
    <3>4. IsFiniteSet(R) /\ \A x \in R \union {p} : f[x] \in Int
      BY <3>3, FS_Subset
    <3> HIDE DEF R
    <3>5. SumOf(f, R \union {p}) = f[p] + SumOf(f, R)
      BY <3>3, <3>4, SumAdd
    <3>6. SumOf(f, R) \in Int
      BY <3>4, SumType
    <3>7. SumOf(f, T \union U) = SumOf(f, R)
      <4>1. SumOf(f, R \union {p}) = SumOf(f, R)
        BY <3>3, <3>5, <3>6
      <4> QED
        BY <3>3, <4>1
    <3> QED
      BY <2>3, <3>2, <3>7 DEF R
  <2> QED
    BY <2>4, <2>5
<1>3. T \union (S \ T) = S /\ Good(S \ T)
  BY <1>2
<1> QED
  BY <1>3

\* The terms of O change by the values of a at the elements that e sends there.
LEMMA SumSpread ==
    ASSUME NEW O, IsFiniteSet(O), NEW K, IsFiniteSet(K), NEW e \in [K -> O],
           \A r \in K, s \in K : e[r] = e[s] => r = s,
           NEW f, NEW g, NEW a,
           \A o \in O : f[o] \in Int, \A o \in O : g[o] \in Int, \A r \in K : a[r] \in Int,
           \A r \in K : g[e[r]] = f[e[r]] + a[r],
           \A o \in O : (\A r \in K : e[r] # o) => g[o] = f[o]
    PROVE  SumOf(g, O) = SumOf(f, O) + SumOf(a, K)
<1> DEFINE h(T) == [o \in O |-> IF \E r \in T : e[r] = o THEN g[o] ELSE f[o]]
           Good(T) == SumOf(h(T), O) = SumOf(f, O) + SumOf(a, T)
           Bad == {T \in SUBSET K : ~Good(T)}
<1>1. \A T \in SUBSET K : \A o \in O : h(T)[o] \in Int
  OBVIOUS
<1>2. Bad = {}
  <2>1. SUFFICES ASSUME Bad # {} PROVE FALSE
    OBVIOUS
  <2>2. PICK T \in Bad : IsFiniteSet(T) /\ \A U \in SUBSET T : U # T => U \notin Bad
    <3>1. Bad \subseteq SUBSET K
      OBVIOUS
    <3> HIDE DEF Bad
    <3> QED
      BY <2>1, <3>1, FiniteMinimal
  <2>3. T \in SUBSET K /\ ~Good(T) /\ \A U \in SUBSET T : U # T => Good(U)
    BY <2>2
  <2>4. SumOf(f, O) \in Int
    BY SumType
  <2>5. CASE T = {}
    <3>1. \A o \in O : h(T)[o] = f[o]
      BY <2>5
    <3>2. SumOf(a, T) = 0
      BY <2>5, SumEmpty
    <3> HIDE DEF h
    <3>3. SumOf(h(T), O) = SumOf(f, O)
      BY <3>1, SumSame
    <3> QED
      BY <2>3, <2>4, <3>2, <3>3
  <2>6. CASE T # {}
    <3> DEFINE p == Pick(T)
    <3>1. p \in T /\ p \in K
      BY <2>3, <2>6 DEF Pick
    <3> HIDE DEF p
    <3> DEFINE U == T \ {p}
    <3>2. Good(U) /\ U \in SUBSET K
      BY <2>3, <3>1
    <3>3. \A o \in O \ {e[p]} : h(T)[o] = h(U)[o]
      BY <2>3, <3>1
    <3>4. h(T)[e[p]] = g[e[p]] /\ h(U)[e[p]] = f[e[p]] /\ e[p] \in O
      <4>1. \A r \in U : e[r] # e[p]
        BY <2>3, <3>1
      <4> QED
        BY <3>1, <4>1
    <3>5. \A o \in O : h(T)[o] \in Int /\ h(U)[o] \in Int
      BY <1>1, <2>3, <3>2
    <3> HIDE DEF h
    <3>6. SumOf(h(T), O) = SumOf(h(U), O) - h(U)[e[p]] + h(T)[e[p]]
      <4> DEFINE before == h(U)
                 after == h(T)
                 y == e[p]
      <4>1. /\ y \in O /\ \A o \in O \ {y} : before[o] = after[o]
            /\ \A o \in O : before[o] \in Int /\ after[o] \in Int
        BY <3>3, <3>4, <3>5
      <4> HIDE DEF before, after, y
      <4>2. SumOf(after, O) = SumOf(before, O) - before[y] + after[y]
        BY <4>1, SumChange
      <4> QED
        BY <4>2 DEF before, after, y
    <3>7. SumOf(a, T) = a[p] + SumOf(a, U)
      <4>1. \A x \in T : a[x] \in Int
        BY <2>3
      <4> QED
        BY <2>2, <3>1, <4>1, SumRemove
    <3>8. g[e[p]] = f[e[p]] + a[p] /\ a[p] \in Int /\ f[e[p]] \in Int
      BY <3>1, <3>4
    <3>9. SumOf(a, U) \in Int /\ SumOf(h(U), O) = SumOf(f, O) + SumOf(a, U)
      <4>1. IsFiniteSet(U) /\ \A x \in U : a[x] \in Int
        BY <2>2, <3>2, FS_Subset
      <4> QED
        BY <3>2, <4>1, SumType
    <3>10. SumOf(h(T), O) = SumOf(f, O) + SumOf(a, T)
      BY <2>4, <3>4, <3>6, <3>7, <3>8, <3>9
    <3> QED
      BY <2>3, <3>10
  <2> QED
    BY <2>5, <2>6
<1>3. Good(K)
  BY <1>2
<1>4. \A o \in O : h(K)[o] = g[o]
  OBVIOUS
<1> HIDE DEF h
<1>5. SumOf(h(K), O) = SumOf(g, O)
  BY <1>4, SumSame
<1> QED
  BY <1>3, <1>5

\* Those hypotheses as one predicate.
Spreads(e, f, g, a, O, K) ==
    /\ IsFiniteSet(O) /\ IsFiniteSet(K) /\ e \in [K -> O]
    /\ \A r \in K, s \in K : e[r] = e[s] => r = s
    /\ \A o \in O : f[o] \in Int
    /\ \A o \in O : g[o] \in Int
    /\ \A r \in K : a[r] \in Int
    /\ \A r \in K : g[e[r]] = f[e[r]] + a[r]
    /\ \A o \in O : (\A r \in K : e[r] # o) => g[o] = f[o]

\* The terms change where e sends the values of a, by that predicate.
LEMMA SpreadSum ==
    ASSUME NEW e, NEW f, NEW g, NEW a, NEW O, NEW K, Spreads(e, f, g, a, O, K)
    PROVE  SumOf(g, O) = SumOf(f, O) + SumOf(a, K)
<1>1. /\ IsFiniteSet(O) /\ IsFiniteSet(K) /\ e \in [K -> O]
      /\ \A r \in K, s \in K : e[r] = e[s] => r = s
      /\ \A o \in O : f[o] \in Int
      /\ \A o \in O : g[o] \in Int
      /\ \A r \in K : a[r] \in Int
      /\ \A r \in K : g[e[r]] = f[e[r]] + a[r]
      /\ \A o \in O : (\A r \in K : e[r] # o) => g[o] = f[o]
  BY DEF Spreads
<1> QED
  BY <1>1, SumSpread

\* A common factor can be taken out.
LEMMA SumScale ==
    ASSUME NEW S, IsFiniteSet(S), NEW f, NEW a, NEW c \in Int,
           \A x \in S : f[x] \in Int, \A x \in S : a[x] = c * f[x]
    PROVE  SumOf(a, S) = c * SumOf(f, S)
<1> DEFINE Bad == {T \in SUBSET S : SumOf(a, T) # c * SumOf(f, T)}
<1>1. SUFFICES ASSUME Bad # {} PROVE FALSE
  OBVIOUS
<1>2. PICK T \in Bad : IsFiniteSet(T) /\ \A U \in SUBSET T : U # T => U \notin Bad
  <2>1. Bad \subseteq SUBSET S
    OBVIOUS
  <2> HIDE DEF Bad
  <2> QED
    BY <1>1, <2>1, FiniteMinimal
<1>3. T # {}
  <2>1. c * 0 = 0 /\ SumOf(a, {}) = 0 /\ SumOf(f, {}) = 0
    BY SumEmpty
  <2> QED
    BY <1>2, <2>1
<1> DEFINE p == Pick(T)
           U == T \ {p}
<1>4. p \in T /\ U \in SUBSET S /\ SumOf(a, U) = c * SumOf(f, U)
  BY <1>2, <1>3 DEF Pick
<1>5. SumOf(a, T) = a[p] + SumOf(a, U) /\ SumOf(f, T) = f[p] + SumOf(f, U)
  BY <1>2, <1>3, SumUnfolds
<1>6. f[p] \in Int /\ a[p] = c * f[p] /\ SumOf(f, U) \in Int
  <2>1. IsFiniteSet(U) /\ \A x \in U : f[x] \in Int
    BY <1>2, <1>4, FS_Subset
  <2> QED
    BY <1>2, <1>4, <2>1, SumType
<1>7. SumOf(a, T) # c * SumOf(f, T)
  BY <1>2
<1> HIDE DEF p, U, Bad
<1> QED
  BY <1>4, <1>5, <1>6, <1>7

\* No term exceeds a sum of natural numbers.
LEMMA SumAtLeast ==
    ASSUME NEW S, IsFiniteSet(S), NEW f, \A x \in S : f[x] \in Int /\ f[x] >= 0, NEW y \in S
    PROVE  f[y] <= SumOf(f, S)
<1>1. IsFiniteSet(S \ {y}) /\ \A x \in S \ {y} : f[x] \in Int /\ f[x] >= 0
  BY FS_Subset
<1>2. SumOf(f, S \ {y}) \in Int /\ SumOf(f, S \ {y}) >= 0
  BY <1>1, SumType
<1>3. SumOf(f, S) = f[y] + SumOf(f, S \ {y})
  BY SumRemove
<1> QED
  BY <1>2, <1>3

===============================================================================
