--------------------------- MODULE ArithmeticProofs ---------------------------
(***************************************************************************)
(* Lemmas about the arithmetic of the programs, used by the proofs about   *)
(* them: the wrapping operations of U64, and sums over finite sets.        *)
(***************************************************************************)
EXTENDS U64, Functions, FiniteSetTheorems, WellFoundedInduction, TLAPS

\* Division with remainder: every integer is a multiple of a positive m plus a
\* remainder below m (the recording and claiming code divides with / and %).
LEMMA DivMod ==
    ASSUME NEW m \in Nat \ {0}, NEW x \in Int
    PROVE  /\ x \div m \in Int
           /\ x % m \in 0..m-1
           /\ x = m * (x \div m) + (x % m)
  OBVIOUS

\* The remainder is unique.
LEMMA RemainderUnique ==
    \A m \in Nat \ {0}, q, x \in Int : \A r \in 0..m-1 :
      x = m * q + r => x % m = r
<1> SUFFICES ASSUME NEW m \in Nat \ {0}, NEW q \in Int, NEW x \in Int,
                    NEW r \in 0..m-1, x = m * q + r
             PROVE  x % m = r
  OBVIOUS
<1>1. PICK e \in Int, s \in 0..m-1 : x % m = s /\ x = m * e + s
  BY DivMod
<1> DEFINE d == q - e
<1>2. d \in Int /\ m * d = s - r
  BY <1>1
<1> HIDE DEF d
<1>3. s - r < m /\ s - r > -m
  OBVIOUS
<1>4. d = 0
  BY <1>2, <1>3
<1>. QED
  BY <1>1, <1>2, <1>4

\* So is the quotient.
LEMMA QuotientUnique ==
    ASSUME NEW m \in Nat \ {0}, NEW q \in Int, NEW r \in 0..m-1, NEW x \in Int,
           x = m * q + r
    PROVE  x \div m = q
<1> DEFINE e == x \div m
           s == x % m
           d == e - q
<1>1. e \in Int /\ s \in 0..m-1 /\ x = m * e + s
  BY DivMod
<1> HIDE DEF e, s
<1>2. d \in Int /\ m * d = r - s
  BY <1>1
<1> HIDE DEF d
<1>3. m * d < m /\ m * d > -m
  BY <1>1, <1>2
<1>4. d = 0
  BY <1>2, <1>3
<1>5. e = q
  BY <1>1, <1>4 DEF d
<1>. QED
  BY <1>5 DEF e

\* Adding a multiple of m does not change the remainder.
LEMMA RemainderShift ==
    ASSUME NEW m \in Nat \ {0}, NEW x \in Int, NEW k \in Int, NEW y \in Int,
           y = x + m * k
    PROVE  y % m = x % m
<1>1. PICK e \in Int, s \in 0..m-1 : x % m = s /\ x = m * e + s
  BY DivMod
<1> DEFINE j == e + k
<1>2. j \in Int /\ y = m * j + s
  BY <1>1
<1> HIDE DEF j
<1>3. y % m = s
  BY <1>2, RemainderUnique, ZenonT(30)
<1>. QED
  BY <1>1, <1>3

\* What is stored is a u64, whichever the build.
LEMMA WrapType == \A x \in Int : Wrap(x) \in U64
  BY U64Assumption, DivMod DEF Wrap, U64

\* A result that is a u64 is stored as it is.
LEMMA WrapFits == \A x \in U64 : Wrap(x) = x
<1> SUFFICES ASSUME NEW x \in U64
             PROVE  Wrap(x) = x
  OBVIOUS
<1>1. U64Max + 1 \in Nat \ {0} /\ x \in 0..(U64Max + 1) - 1
  BY U64Assumption DEF U64
<1>2. x = (U64Max + 1) * 0 + x
  BY <1>1
<1>3. x % (U64Max + 1) = x
  BY <1>1, <1>2, RemainderUnique
<1>. QED
  BY <1>3 DEF Wrap

\* Wrapping a sum of which one term was wrapped already gives what wrapping
\* the exact sum gives, also when that term is counted k times: a chain of +=
\* loses nothing but multiples of the width.
LEMMA WrapAbsorbs ==
    \A a, b, k \in Int : Wrap(a + k * Wrap(b)) = Wrap(a + k * b)
<1> SUFFICES ASSUME NEW a \in Int, NEW b \in Int, NEW k \in Int
             PROVE  Wrap(a + k * Wrap(b)) = Wrap(a + k * b)
  OBVIOUS
<1> DEFINE m == U64Max + 1
<1>1. m \in Nat \ {0}
  BY U64Assumption
<1>2. Wrap(b) = b % m
  BY DEF Wrap
<1> HIDE DEF m
<1>3. PICK q \in Int, r \in 0..m-1 : b % m = r /\ b = m * q + r
  BY <1>1, DivMod
<1>4. k * q \in Int /\ k * b = k * r + m * (k * q)
  BY <1>1, <1>3
<1>5. k * b \in Int /\ k * r \in Int
  OBVIOUS
<1>6. /\ a + k * r \in Int
      /\ a + k * b \in Int
      /\ a + k * b = (a + k * r) + m * (k * q)
  BY <1>4, <1>5, <1>1
<1>7. (a + k * b) % m = (a + k * r) % m
  <2>1. ASSUME NEW x \in Int, NEW y \in Int, NEW z \in Int, x = y + m * z
        PROVE  x % m = y % m
    BY <1>1, <2>1, RemainderShift
  <2>. QED
    BY <1>4, <1>6, <2>1, Zenon
<1>. QED
  BY <1>2, <1>3, <1>7 DEF Wrap, m

\* The instance of it an addition uses.
LEMMA WrapSum == \A a, b \in Int : Wrap(a + Wrap(b)) = Wrap(a + b)
<1> SUFFICES ASSUME NEW a \in Int, NEW b \in Int
             PROVE  Wrap(a + Wrap(b)) = Wrap(a + b)
  OBVIOUS
<1>1. Wrap(a + 1 * Wrap(b)) = Wrap(a + 1 * b)
  BY WrapAbsorbs
<1>2. 1 * Wrap(b) = Wrap(b) /\ 1 * b = b
  BY WrapType DEF U64
<1>. QED
  BY <1>1, <1>2
--------------------------------------------------------------------------------
(***************************************************************************)
(* Sums over finite sets.  SumFunctionOnSet is a fold, that is a recursive *)
(* function; what follows shows that it is the one function that adds up,  *)
(* whatever the order in which the fold takes the elements.                *)
(***************************************************************************)

\* Induction over the subsets of a finite set, in the form the provers can use:
\* a non-empty set of subsets has a member none of whose strict subsets is in it.
LEMMA SmallestSubset ==
    ASSUME NEW S, IsFiniteSet(S), NEW TT \in SUBSET SUBSET S, TT # {}
    PROVE  \E T \in TT : \A U \in SUBSET T : U \in TT => U = T
<1>1. IsWellFoundedOn(StrictSubsetOrdering(S), SUBSET S)
  BY FS_StrictSubsetOrderingWellFounded, FS_FiniteSubsetsOfFinite
<1>2. PICK T \in TT : \A U \in TT : <<U, T>> \notin StrictSubsetOrdering(S)
  BY <1>1, WFMin
<1>. QED
  BY <1>2 DEF StrictSubsetOrdering

\* g gives, for every subset of S, what the values of f on it add up to.
Additive(f, S, g) ==
    /\ g \in [SUBSET S -> Int]
    /\ g[{}] = 0
    /\ \A T \in SUBSET S : \A x \in S \ T : g[T \cup {x}] = g[T] + f[x]

\* The sums over the subsets of a set with one element more.
LEMMA AdditiveOneMore ==
    ASSUME NEW S, NEW x, x \notin S, NEW f, f[x] \in Int,
           \A y \in S : f[y] \in Int,
           NEW g, Additive(f, S, g)
    PROVE  Additive(f, S \cup {x},
                    [U \in SUBSET (S \cup {x}) |->
                       IF x \in U THEN g[U \ {x}] + f[x] ELSE g[U]])
<1> DEFINE h == [U \in SUBSET (S \cup {x}) |->
                   IF x \in U THEN g[U \ {x}] + f[x] ELSE g[U]]
<1>0. /\ g \in [SUBSET S -> Int] /\ g[{}] = 0
      /\ \A T \in SUBSET S : \A y \in S \ T : g[T \cup {y}] = g[T] + f[y]
  BY DEF Additive
<1>1. \A U \in SUBSET (S \cup {x}) : U \ {x} \in SUBSET S
  OBVIOUS
<1>2. \A U \in SUBSET (S \cup {x}) : x \notin U => U \in SUBSET S
  OBVIOUS
<1>3. h \in [SUBSET (S \cup {x}) -> Int]
  BY <1>0, <1>1, <1>2
<1>4. h[{}] = 0
  BY <1>0
<1>5. ASSUME NEW T \in SUBSET (S \cup {x}), NEW y \in (S \cup {x}) \ T
      PROVE  h[T \cup {y}] = h[T] + f[y]
  <2>0. T \cup {y} \in SUBSET (S \cup {x})
    OBVIOUS
  <2>1. CASE y = x
    <3>1. h[T] = g[T] /\ h[T \cup {y}] = g[(T \cup {y}) \ {x}] + f[x]
      BY <2>0, <2>1
    <3>2. (T \cup {y}) \ {x} = T
      BY <2>1
    <3>. QED
      BY <3>1, <3>2, <2>1
  <2>2. CASE y # x /\ x \in T
    <3>1. h[T] = g[T \ {x}] + f[x] /\ h[T \cup {y}] = g[(T \cup {y}) \ {x}] + f[x]
      BY <2>0, <2>2
    <3>2. (T \cup {y}) \ {x} = (T \ {x}) \cup {y}
      BY <2>2
    <3>3. T \ {x} \in SUBSET S /\ y \in S \ (T \ {x})
      BY <2>2
    <3>4. /\ g[(T \ {x}) \cup {y}] = g[T \ {x}] + f[y]
          /\ g[T \ {x}] \in Int /\ f[y] \in Int
      BY <3>3, <1>0
    <3>5. h[T \cup {y}] = g[(T \ {x}) \cup {y}] + f[x] /\ h[T] = g[T \ {x}] + f[x]
      BY <3>1, <3>2
    <3> HIDE DEF h
    <3>. QED
      BY <3>4, <3>5
  <2>3. CASE y # x /\ x \notin T
    <3>1. h[T] = g[T] /\ h[T \cup {y}] = g[T \cup {y}]
      BY <2>0, <2>3
    <3>2. T \in SUBSET S /\ y \in S \ T
      BY <2>3
    <3>. QED
      BY <3>1, <3>2, <1>0
  <2>. QED
    BY <2>1, <2>2, <2>3
<1>. QED
  BY <1>3, <1>4, <1>5 DEF Additive

\* Every function on a finite set has its sums.
LEMMA AdditiveExists ==
    ASSUME NEW S, IsFiniteSet(S), NEW f, \A x \in S : f[x] \in Int
    PROVE  \E g : Additive(f, S, g)
<1> DEFINE TT == {T \in SUBSET S : ~ \E g : Additive(f, T, g)}
<1>1. SUFFICES ASSUME TT # {}
               PROVE  FALSE
  OBVIOUS
<1>2. PICK T \in TT : \A U \in SUBSET T : U \in TT => U = T
  <2>1. TT \in SUBSET SUBSET S
    OBVIOUS
  <2> HIDE DEF TT
  <2>. QED
    BY <1>1, <2>1, SmallestSubset
<1>3. T # {}
  <2> DEFINE g == [U \in SUBSET {} |-> 0]
  <2>1. Additive(f, {}, g)
    BY DEF Additive
  <2>. QED
    BY <2>1
<1>4. PICK x \in T : TRUE
  BY <1>3
<1> DEFINE U == T \ {x}
<1>5. U \notin TT /\ U \in SUBSET S /\ x \in S /\ x \notin U /\ T = U \cup {x}
  <2>1. T \in SUBSET S /\ x \in T /\ U \in SUBSET T /\ U # T
    BY <1>4
  <2>2. U \notin TT
    BY <1>2, <2>1
  <2>. QED
    BY <2>1, <2>2
<1>6. PICK g : Additive(f, U, g)
  BY <1>5
<1>7. /\ f[x] \in Int /\ \A y \in U : f[y] \in Int
  BY <1>5
<1> HIDE DEF U
<1>8. \E h : Additive(f, U \cup {x}, h)
  BY <1>5, <1>6, <1>7, AdditiveOneMore
<1>. QED
  BY <1>5, <1>8

\* A subset is summed as the fold does it: one element is chosen, and the
\* rest is summed first.
SummedFrom(f, S, h) ==
    h = [T \in SUBSET S |->
           IF T = {} THEN 0
           ELSE f[CHOOSE x \in T : TRUE] + h[T \ {CHOOSE x \in T : TRUE}]]

LEMMA SumUnfold ==
    \A f, S : SumFunctionOnSet(f, S) = (CHOOSE h : SummedFrom(f, S, h))[S]
  BY DEF SumFunctionOnSet, FoldFunctionOnSet, MapThenFoldSet, SummedFrom

LEMMA SumIsAdditive ==
    ASSUME NEW S, IsFiniteSet(S), NEW f, \A x \in S : f[x] \in Int,
           NEW g, Additive(f, S, g)
    PROVE  SumFunctionOnSet(f, S) = g[S]
<1> DEFINE Pick(T) == CHOOSE x \in T : TRUE
<1>0. \A T : T # {} => Pick(T) \in T
  OBVIOUS
<1>1. /\ g \in [SUBSET S -> Int] /\ g[{}] = 0
      /\ \A T \in SUBSET S : \A x \in S \ T : g[T \cup {x}] = g[T] + f[x]
  BY DEF Additive
<1> HIDE DEF Pick
<1>2. \A T \in SUBSET S : T # {} => g[T] = f[Pick(T)] + g[T \ {Pick(T)}]
  <2> SUFFICES ASSUME NEW T \in SUBSET S, T # {}
               PROVE  g[T] = f[Pick(T)] + g[T \ {Pick(T)}]
    OBVIOUS
  <2> DEFINE x == Pick(T)
             U == T \ {x}
  <2>1. x \in S /\ U \in SUBSET S /\ x \in S \ U /\ T = U \cup {x}
    BY <1>0
  <2> HIDE DEF x, U
  <2>2. g[T] = g[U] + f[x] /\ g[U] \in Int /\ f[x] \in Int
    BY <1>1, <2>1
  <2>. QED
    BY <2>2 DEF x, U
<1>3. g = [T \in SUBSET S |-> IF T = {} THEN 0 ELSE f[Pick(T)] + g[T \ {Pick(T)}]]
  BY <1>1, <1>2
<1>4. SummedFrom(f, S, g)
  BY <1>3 DEF SummedFrom, Pick
<1> DEFINE h == CHOOSE i : SummedFrom(f, S, i)
<1>5. SummedFrom(f, S, h)
  BY <1>4
<1>6. h = [T \in SUBSET S |-> IF T = {} THEN 0 ELSE f[Pick(T)] + h[T \ {Pick(T)}]]
  BY <1>5 DEF SummedFrom, Pick
<1> HIDE DEF h
<1> DEFINE TT == {T \in SUBSET S : h[T] # g[T]}
<1>7. TT = {}
  <2> SUFFICES ASSUME TT # {}
               PROVE  FALSE
    OBVIOUS
  <2>1. PICK T \in TT : \A U \in SUBSET T : U \in TT => U = T
    <3>1. TT \in SUBSET SUBSET S
      OBVIOUS
    <3> HIDE DEF TT
    <3>. QED
      BY <3>1, SmallestSubset
  <2>2. T # {}
    BY <1>1, <1>6
  <2> DEFINE U == T \ {Pick(T)}
  <2>3. U \in SUBSET T /\ U # T /\ U \in SUBSET S
    BY <1>0, <2>2
  <2>4. h[U] = g[U]
    BY <2>1, <2>3
  <2>5. h[T] = f[Pick(T)] + h[U] /\ g[T] = f[Pick(T)] + g[U]
    BY <1>2, <1>6, <2>2
  <2>. QED
    BY <2>4, <2>5
<1>8. h[S] = g[S]
  BY <1>7
<1>. QED
  BY <1>8, SumUnfold DEF h


\* Nothing adds up to nothing.
LEMMA SumOfNone ==
    ASSUME NEW f
    PROVE  SumFunctionOnSet(f, {}) = 0
<1> DEFINE g == [U \in SUBSET {} |-> 0]
<1>1. Additive(f, {}, g) /\ g[{}] = 0
  BY DEF Additive
<1> HIDE DEF g
<1>. QED
  BY <1>1, SumIsAdditive, FS_EmptySet

\* A sum of integers is an integer, and an element more adds its value.
LEMMA SumOneMore ==
    ASSUME NEW S, IsFiniteSet(S), NEW x, x \notin S, NEW f,
           f[x] \in Int, \A y \in S : f[y] \in Int
    PROVE  /\ SumFunctionOnSet(f, S) \in Int
           /\ SumFunctionOnSet(f, S \cup {x}) = SumFunctionOnSet(f, S) + f[x]
<1>1. PICK g : Additive(f, S \cup {x}, g)
  <2>1. IsFiniteSet(S \cup {x}) /\ \A y \in S \cup {x} : f[y] \in Int
    BY FS_AddElement
  <2>. QED
    BY <2>1, AdditiveExists
<1>2. /\ g \in [SUBSET (S \cup {x}) -> Int] /\ g[{}] = 0
      /\ \A T \in SUBSET (S \cup {x}) : \A y \in (S \cup {x}) \ T : g[T \cup {y}] = g[T] + f[y]
  BY <1>1 DEF Additive
<1> DEFINE h == [U \in SUBSET S |-> g[U]]
<1>3. Additive(f, S, h)
  BY <1>2 DEF Additive
<1>4. h[S] = g[S] /\ g[S] \in Int /\ g[S \cup {x}] = g[S] + f[x]
  BY <1>2
<1> HIDE DEF h
<1>5. SumFunctionOnSet(f, S) = h[S]
  BY <1>3, SumIsAdditive
<1>6. SumFunctionOnSet(f, S \cup {x}) = g[S \cup {x}]
  <2>1. IsFiniteSet(S \cup {x}) /\ \A y \in S \cup {x} : f[y] \in Int
    BY FS_AddElement
  <2>. QED
    BY <1>1, <2>1, SumIsAdditive
<1>. QED
  BY <1>4, <1>5, <1>6

\* Functions that agree on a set have the same sum on it.
LEMMA SumSame ==
    ASSUME NEW S, IsFiniteSet(S), NEW f, NEW h,
           \A x \in S : f[x] \in Int /\ h[x] = f[x]
    PROVE  /\ SumFunctionOnSet(f, S) \in Int
           /\ SumFunctionOnSet(h, S) = SumFunctionOnSet(f, S)
<1>1. PICK g : Additive(f, S, g)
  BY AdditiveExists
<1>2. Additive(h, S, g) /\ g[S] \in Int
  BY <1>1 DEF Additive
<1>. QED
  BY <1>1, <1>2, SumIsAdditive

\* A change of one value changes the sum by as much.
LEMMA SumOneChanged ==
    ASSUME NEW S, IsFiniteSet(S), NEW f, NEW h, NEW x \in S,
           \A y \in S : f[y] \in Int,
           h[x] \in Int, \A y \in S \ {x} : h[y] = f[y]
    PROVE  SumFunctionOnSet(h, S) = SumFunctionOnSet(f, S) + (h[x] - f[x])
<1> DEFINE U == S \ {x}
<1>1. /\ IsFiniteSet(U) /\ x \notin U /\ S = U \cup {x}
      /\ \A y \in U : f[y] \in Int /\ h[y] = f[y] /\ h[y] \in Int
      /\ f[x] \in Int /\ h[x] \in Int
  BY FS_RemoveElement
<1> HIDE DEF U
<1>2. /\ SumFunctionOnSet(f, U) \in Int
      /\ SumFunctionOnSet(f, U \cup {x}) = SumFunctionOnSet(f, U) + f[x]
  BY <1>1, SumOneMore
<1>3. SumFunctionOnSet(h, U \cup {x}) = SumFunctionOnSet(h, U) + h[x]
  BY <1>1, SumOneMore
<1>4. SumFunctionOnSet(h, U) = SumFunctionOnSet(f, U)
  BY <1>1, SumSame
<1>. QED
  BY <1>1, <1>2, <1>3, <1>4
================================================================================
