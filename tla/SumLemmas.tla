------------------------------ MODULE SumLemmas -------------------------------
(*****************************************************************************)
(* What sums over finite sets of naturals are: empty, one element less,      *)
(* two parts, class by class; and that they grow with what they sum.         *)
(*                                                                           *)
(* The induction theorems of the library take an operator as a parameter,    *)
(* which no prover here can instantiate. Those below take a set instead,     *)
(* and the set of the numbers that have a property says the same.            *)
(*****************************************************************************)
EXTENDS Integers, Functions, FiniteSetTheorems, WellFoundedInduction, TLAPS

\* A set of naturals has a least element.
LEMMA LeastNatural ==
  ASSUME NEW T \in SUBSET Nat, T # {}
  PROVE  \E x \in T : \A y \in T : x <= y
<1> DEFINE R == {ss \in Nat \X Nat : ss[1] < ss[2]}
<1>1. IsWellFoundedOn(R, Nat)
  BY NatLessThanWellFounded DEF OpToRel
<1>2. PICK x \in T : \A y \in T : <<y, x>> \notin R
  <2> HIDE DEF R
  <2> QED
    BY <1>1, WFMin
<1>3. ASSUME NEW y \in T
      PROVE  x <= y
  <2>1. x \in Nat /\ y \in Nat
    OBVIOUS
  <2>2. <<y, x>> \in R <=> y < x
    BY <2>1
  <2> QED
    BY <1>2, <2>1, <2>2
<1> QED
  BY <1>3

\* A set of naturals that is bounded has a greatest element.
LEMMA GreatestNatural ==
  ASSUME NEW n \in Nat, NEW T \in SUBSET (0 .. n), T # {}
  PROVE  \E x \in T : \A y \in T : y <= x
<1> DEFINE U == {i \in 0 .. n : n - i \in T}
<1>1. U # {} /\ U \in SUBSET Nat
  <2>1. PICK t \in T : TRUE
    OBVIOUS
  <2>2. n - t \in U
    BY <2>1
  <2> QED
    BY <2>2
<1>2. PICK u \in U : \A v \in U : u <= v
  <2> HIDE DEF U
  <2> QED
    BY <1>1, LeastNatural
<1>3. ASSUME NEW y \in T
      PROVE  y <= n - u
  <2>1. n - y \in U
    OBVIOUS
  <2> QED
    BY <1>2, <2>1
<1> QED
  BY <1>2, <1>3

\* Induction: a set of naturals that has 0, and n + 1 with n, has them all.
LEMMA Induction ==
  ASSUME NEW P \in SUBSET Nat, 0 \in P, \A n \in P : n + 1 \in P
  PROVE  P = Nat
<1> SUFFICES ASSUME Nat \ P # {}
             PROVE  FALSE
  OBVIOUS
<1>1. PICK x \in Nat \ P : \A y \in Nat \ P : x <= y
  <2>1. Nat \ P \in SUBSET Nat
    OBVIOUS
  <2> QED
    BY <2>1, LeastNatural
<1>2. x # 0 /\ x - 1 \in Nat /\ ~(x <= x - 1)
  OBVIOUS
<1>3. x - 1 \in P
  BY <1>1, <1>2
<1>4. (x - 1) + 1 \in P
  BY <1>3
<1> QED
  BY <1>2, <1>4

\* g sums the values of f over every subset of S.
Sums(g, f, S) ==
  \A s \in SUBSET S :
    g[s] = IF s = {} THEN 0
           ELSE LET x == CHOOSE x \in s : TRUE IN f[x] + g[s \ {x}]

UpTo(S, n) == {s \in SUBSET S : Cardinality(s) <= n}

\* There is such a function, by induction on the number of elements.
LEMMA SumsExist ==
  ASSUME NEW S, IsFiniteSet(S), NEW f, \A x \in S : f[x] \in Nat
  PROVE  \E g \in [SUBSET S -> Nat] : Sums(g, f, S)
<1> DEFINE body(g, s) == IF s = {} THEN 0
                         ELSE LET x == CHOOSE x \in s : TRUE IN f[x] + g[s \ {x}]
           P == {n \in Nat : \E g \in [UpTo(S, n) -> Nat] : \A s \in UpTo(S, n) : g[s] = body(g, s)}
<1>0. \A s \in SUBSET S : /\ IsFiniteSet(s) /\ Cardinality(s) \in Nat
                          /\ Cardinality(s) <= Cardinality(S)
  BY FS_Subset, FS_CardinalityType
<1>1. 0 \in P
  <2> DEFINE g == [s \in UpTo(S, 0) |-> 0]
  <2>1. \A s \in UpTo(S, 0) : s = {}
    BY <1>0, FS_EmptySet DEF UpTo
  <2>2. g \in [UpTo(S, 0) -> Nat] /\ \A s \in UpTo(S, 0) : g[s] = body(g, s)
    BY <2>1
  <2> QED
    BY <2>2
<1>2. ASSUME NEW n \in P
      PROVE  n + 1 \in P
  <2>1. PICK g \in [UpTo(S, n) -> Nat] : \A s \in UpTo(S, n) : g[s] = body(g, s)
    OBVIOUS
  <2> DEFINE h == [s \in UpTo(S, n + 1) |-> IF s \in UpTo(S, n) THEN g[s] ELSE body(g, s)]
  <2>2. ASSUME NEW s \in UpTo(S, n + 1), s # {}
        PROVE  s \ {CHOOSE x \in s : TRUE} \in UpTo(S, n) /\ (CHOOSE x \in s : TRUE) \in S
    <3> DEFINE x == CHOOSE x \in s : TRUE
    <3>1. x \in s
      BY <2>2
    <3>2. Cardinality(s \ {x}) = Cardinality(s) - 1
      BY <1>0, <3>1, FS_RemoveElement DEF UpTo
    <3>3. Cardinality(s) \in Nat /\ Cardinality(s) <= n + 1
      BY <1>0 DEF UpTo
    <3> QED
      BY <3>1, <3>2, <3>3 DEF UpTo
  <2>3. UpTo(S, n) \subseteq UpTo(S, n + 1)
    BY <1>0 DEF UpTo
  <2>4. ASSUME NEW s \in UpTo(S, n + 1)
        PROVE  h[s] \in Nat /\ h[s] = body(g, s) /\ body(h, s) = body(g, s)
    <3>1. h[s] = body(g, s)
      BY <2>1
    <3>2. CASE s = {}
      BY <3>1, <3>2
    <3>3. CASE s # {}
      <4> DEFINE x == CHOOSE x \in s : TRUE
      <4>1. s \ {x} \in UpTo(S, n) /\ x \in S
        BY <2>2, <3>3
      <4>2. h[s \ {x}] = g[s \ {x}] /\ g[s \ {x}] \in Nat /\ f[x] \in Nat
        BY <2>3, <4>1
      <4>3. body(g, s) = f[x] + g[s \ {x}] /\ body(h, s) = f[x] + h[s \ {x}]
        BY <3>3
      <4> QED
        BY <3>1, <4>2, <4>3
    <3> QED
      BY <3>2, <3>3
  <2>5. /\ h \in [UpTo(S, n + 1) -> Nat]
        /\ \A s \in UpTo(S, n + 1) : h[s] = body(h, s)
    BY <2>4
  <2>6. n + 1 \in Nat
    OBVIOUS
  <2> HIDE DEF h
  <2>7. \E gg \in [UpTo(S, n + 1) -> Nat] : \A s \in UpTo(S, n + 1) : gg[s] = body(gg, s)
    BY <2>5
  <2> HIDE DEF body
  <2> QED
    BY <2>6, <2>7
<1>3. Cardinality(S) \in P
  <2>1. P = Nat
    <3> HIDE DEF P
    <3>1. P \in SUBSET Nat
      BY DEF P
    <3> QED
      BY <1>1, <1>2, <3>1, Induction
  <2> QED
    BY <2>1, FS_CardinalityType
<1>4. UpTo(S, Cardinality(S)) = SUBSET S
  BY <1>0 DEF UpTo
<1> QED
  BY <1>3, <1>4 DEF Sums

\* Induction over the subsets of a finite set.
LEMMA SubsetInduction ==
  ASSUME NEW S, IsFiniteSet(S), NEW P \in SUBSET (SUBSET S),
         \A s \in SUBSET S : (\A x \in s : s \ {x} \in P) => s \in P
  PROVE  P = SUBSET S
<1> SUFFICES ASSUME (SUBSET S) \ P # {}
             PROVE  FALSE
  OBVIOUS
<1> DEFINE T == {Cardinality(s) : s \in (SUBSET S) \ P}
<1>1. \A s \in SUBSET S : IsFiniteSet(s) /\ Cardinality(s) \in Nat
  BY FS_Subset, FS_CardinalityType
<1>2. PICK n \in T : \A m \in T : n <= m
  <2>1. T \in SUBSET Nat /\ T # {}
    BY <1>1
  <2> HIDE DEF T
  <2> QED
    BY <2>1, LeastNatural
<1>3. PICK s \in (SUBSET S) \ P : Cardinality(s) = n
  BY <1>2
<1>4. ASSUME NEW x \in s
      PROVE  s \ {x} \in P
  <2>1. Cardinality(s \ {x}) = n - 1 /\ n \in Nat /\ n - 1 \in Int
    BY <1>1, <1>3, <1>4, FS_RemoveElement
  <2>2. ~(n <= n - 1)
    BY <2>1
  <2>3. s \ {x} \in SUBSET S
    BY <1>3
  <2> QED
    BY <1>2, <2>1, <2>2, <2>3
<1> QED
  BY <1>3, <1>4

\* What sums the values of f over subsets is unique.
LEMMA SumsAgree ==
  ASSUME NEW S, IsFiniteSet(S), NEW f, NEW g, NEW T, Sums(g, f, T), NEW h, Sums(h, f, S),
         S \subseteq T
  PROVE  \A s \in SUBSET S : g[s] = h[s]
<1> DEFINE P == {s \in SUBSET S : g[s] = h[s]}
<1>1. ASSUME NEW s \in SUBSET S, \A x \in s : s \ {x} \in P
      PROVE  s \in P
  <2>1. CASE s = {}
    BY <2>1 DEF Sums
  <2>2. CASE s # {}
    <3> DEFINE x == CHOOSE x \in s : TRUE
    <3>1. x \in s
      BY <2>2
    <3>2. g[s \ {x}] = h[s \ {x}]
      BY <1>1, <3>1
    <3>3. g[s] = f[x] + g[s \ {x}]
      BY <2>2 DEF Sums
    <3>4. h[s] = f[x] + h[s \ {x}]
      BY <2>2 DEF Sums
    <3> QED
      BY <3>2, <3>3, <3>4
  <2> QED
    BY <2>1, <2>2
<1>2. P = SUBSET S
  <2>1. P \in SUBSET (SUBSET S)
    OBVIOUS
  <2> HIDE DEF P
  <2> QED
    BY <1>1, <2>1, SubsetInduction
<1> QED
  BY <1>2

\* The sum is the value of such a function.
LEMMA SumIs ==
  ASSUME NEW S, IsFiniteSet(S), NEW f, \A x \in S : f[x] \in Nat
  PROVE  \E g \in [SUBSET S -> Nat] :
            Sums(g, f, S) /\ SumFunctionOnSet(f, S) = g[S]
<1> DEFINE Iter(g) == g = [s \in SUBSET S |->
                             IF s = {} THEN 0
                             ELSE LET x == CHOOSE x \in s : TRUE IN f[x] + g[s \ {x}]]
<1>1. PICK g \in [SUBSET S -> Nat] : Sums(g, f, S)
  BY SumsExist
<1>2. Iter(g)
  BY <1>1 DEF Sums
<1>3. Iter(CHOOSE h : Iter(h))
  BY <1>2
<1>4. SumFunctionOnSet(f, S) = (CHOOSE h : Iter(h))[S]
  BY DEF SumFunctionOnSet, FoldFunctionOnSet, MapThenFoldSet
<1> DEFINE c == CHOOSE h : Iter(h)
<1>5. Sums(c, f, S)
  <2> HIDE DEF c
  <2> QED
    BY <1>3 DEF Sums, c
<1>6. c[S] = g[S]
  <2> HIDE DEF c
  <2> QED
    BY <1>1, <1>5, SumsAgree
<1> QED
  BY <1>1, <1>4, <1>6

-----------------------------------------------------------------------------
\* The values of f over S are naturals.
NatOn(f, S) == \A x \in S : f[x] \in Nat

\* The rules of sums.  One element, whichever it is, can be taken out of a sum.
LEMMA SumStarts ==
  ASSUME NEW S, IsFiniteSet(S), NEW f, NatOn(f, S)
  PROVE  /\ SumFunctionOnSet(f, S) \in Nat
         /\ S = {} => SumFunctionOnSet(f, S) = 0
         /\ S # {} => \E x \in S :
              SumFunctionOnSet(f, S) = f[x] + SumFunctionOnSet(f, S \ {x})
<1>1. PICK g \in [SUBSET S -> Nat] : Sums(g, f, S) /\ SumFunctionOnSet(f, S) = g[S]
  BY SumIs DEF NatOn
<1>2. SumFunctionOnSet(f, S) \in Nat
  BY <1>1
<1>3. S = {} => SumFunctionOnSet(f, S) = 0
  BY <1>1 DEF Sums
<1>4. ASSUME S # {}
      PROVE  \E x \in S : SumFunctionOnSet(f, S) = f[x] + SumFunctionOnSet(f, S \ {x})
  <2> DEFINE x == CHOOSE x \in S : TRUE
             R == S \ {x}
  <2>1. x \in S
    BY <1>4
  <2>2. g[S] = f[x] + g[R]
    BY <1>1, <1>4 DEF Sums
  <2>3. IsFiniteSet(R) /\ R \subseteq S /\ \A y \in R : f[y] \in Nat
    BY FS_Subset DEF NatOn
  <2> HIDE DEF R
  <2>4. PICK h \in [SUBSET R -> Nat] : Sums(h, f, R) /\ SumFunctionOnSet(f, R) = h[R]
    BY <2>3, SumIs
  <2>5. g[R] = h[R]
    BY <1>1, <2>3, <2>4, SumsAgree
  <2> QED
    BY <1>1, <2>1, <2>2, <2>4, <2>5 DEF R
<1> QED
  BY <1>2, <1>3, <1>4

\* The empty sum.
LEMMA SumOfNone == \A f : SumFunctionOnSet(f, {}) = 0
  BY SumStarts, FS_EmptySet DEF NatOn

\* A sum without one of its elements.
LEMMA SumWithout ==
  ASSUME NEW S, IsFiniteSet(S), NEW f, NatOn(f, S), NEW x \in S
  PROVE  SumFunctionOnSet(f, S) = f[x] + SumFunctionOnSet(f, S \ {x})
<1> DEFINE sum(s) == SumFunctionOnSet(f, s)
           P == {s \in SUBSET S : \A y \in s : sum(s) = f[y] + sum(s \ {y})}
<1>1. ASSUME NEW s \in SUBSET S, \A y \in s : s \ {y} \in P
      PROVE  s \in P
  <2> SUFFICES ASSUME NEW y \in s
               PROVE  sum(s) = f[y] + sum(s \ {y})
    OBVIOUS
  <2>1. IsFiniteSet(s) /\ NatOn(f, s)
    BY FS_Subset DEF NatOn
  <2>2. PICK c \in s : sum(s) = f[c] + sum(s \ {c})
    BY <2>1, SumStarts
  <2>3. CASE c = y
    BY <2>2, <2>3
  <2>4. CASE c # y
    <3> DEFINE r == (s \ {c}) \ {y}
    <3>1. r = (s \ {y}) \ {c} /\ y \in s \ {c} /\ c \in s \ {y}
      BY <2>4
    <3>2. sum(s \ {c}) = f[y] + sum(r)
      BY <1>1, <3>1
    <3>3. sum(s \ {y}) = f[c] + sum(r)
      BY <1>1, <3>1
    <3>4. f[y] \in Nat /\ f[c] \in Nat
      BY DEF NatOn
    <3>5. sum(r) \in Nat
      <4>1. IsFiniteSet(r) /\ NatOn(f, r)
        BY FS_Subset DEF NatOn
      <4> QED
        BY <4>1, SumStarts
    <3> HIDE DEF sum, r
    <3> QED
      BY <2>2, <3>2, <3>3, <3>4, <3>5
  <2> QED
    BY <2>3, <2>4
<1>2. P = SUBSET S
  <2>1. P \in SUBSET (SUBSET S)
    OBVIOUS
  <2> HIDE DEF P
  <2> QED
    BY <1>1, <2>1, SubsetInduction
<1> QED
  BY <1>2

\* A sum with one element.
LEMMA SumOfOne ==
  ASSUME NEW x, NEW f, f[x] \in Nat
  PROVE  SumFunctionOnSet(f, {x}) = f[x]
<1>1. IsFiniteSet({x}) /\ NatOn(f, {x}) /\ {x} \ {x} = {}
  BY FS_Singleton DEF NatOn
<1>2. SumFunctionOnSet(f, {x}) = f[x] + SumFunctionOnSet(f, {x} \ {x})
  BY <1>1, SumWithout
<1>3. SumFunctionOnSet(f, {x}) = f[x] + 0
  BY <1>1, <1>2, SumOfNone
<1> QED
  BY <1>3

\* Greater values have a greater sum.
LEMMA SumMonotone ==
  ASSUME NEW S, IsFiniteSet(S), NEW f, NatOn(f, S), NEW g, NatOn(g, S),
         \A x \in S : f[x] <= g[x]
  PROVE  SumFunctionOnSet(f, S) <= SumFunctionOnSet(g, S)
<1> DEFINE P == {s \in SUBSET S : SumFunctionOnSet(f, s) <= SumFunctionOnSet(g, s)}
<1>1. ASSUME NEW s \in SUBSET S, \A y \in s : s \ {y} \in P
      PROVE  s \in P
  <2>1. IsFiniteSet(s) /\ NatOn(f, s) /\ NatOn(g, s)
    BY FS_Subset DEF NatOn
  <2>2. CASE s = {}
    BY <2>2, SumOfNone
  <2>3. CASE s # {}
    <3>1. PICK y \in s : TRUE
      BY <2>3
    <3> DEFINE r == s \ {y}
    <3>2. /\ SumFunctionOnSet(f, s) = f[y] + SumFunctionOnSet(f, r)
          /\ SumFunctionOnSet(g, s) = g[y] + SumFunctionOnSet(g, r)
      BY <2>1, SumWithout
    <3>3. SumFunctionOnSet(f, r) <= SumFunctionOnSet(g, r)
      BY <1>1
    <3>4. f[y] \in Nat /\ g[y] \in Nat /\ f[y] <= g[y]
      BY DEF NatOn
    <3>5. SumFunctionOnSet(f, r) \in Nat /\ SumFunctionOnSet(g, r) \in Nat
      <4>1. IsFiniteSet(r) /\ NatOn(f, r) /\ NatOn(g, r)
        BY FS_Subset DEF NatOn
      <4> QED
        BY <4>1, SumStarts
    <3> QED
      BY <3>2, <3>3, <3>4, <3>5
  <2> QED
    BY <2>2, <2>3
<1>2. P = SUBSET S
  <2>1. P \in SUBSET (SUBSET S)
    OBVIOUS
  <2> HIDE DEF P
  <2> QED
    BY <1>1, <2>1, SubsetInduction
<1> QED
  BY <1>2

\* A sum depends on the values over its set alone.
LEMMA SumSame ==
  ASSUME NEW S, IsFiniteSet(S), NEW f, NatOn(f, S), NEW g, \A x \in S : f[x] = g[x]
  PROVE  SumFunctionOnSet(f, S) = SumFunctionOnSet(g, S)
<1>1. NatOn(g, S) /\ \A x \in S : f[x] <= g[x] /\ g[x] <= f[x]
  BY DEF NatOn
<1>2. /\ SumFunctionOnSet(f, S) <= SumFunctionOnSet(g, S)
      /\ SumFunctionOnSet(g, S) <= SumFunctionOnSet(f, S)
  BY <1>1, SumMonotone
<1> QED
  BY <1>1, <1>2, SumStarts

\* The sum over two sets that share nothing.
LEMMA SumOfUnion ==
  ASSUME NEW S, IsFiniteSet(S), NEW T, IsFiniteSet(T), S \cap T = {},
         NEW f, NatOn(f, S \cup T)
  PROVE  SumFunctionOnSet(f, S \cup T)
           = SumFunctionOnSet(f, S) + SumFunctionOnSet(f, T)
<1> DEFINE P == {s \in SUBSET S : SumFunctionOnSet(f, s \cup T)
                                   = SumFunctionOnSet(f, s) + SumFunctionOnSet(f, T)}
<1>0. SumFunctionOnSet(f, T) \in Nat
  <2>1. NatOn(f, T)
    BY DEF NatOn
  <2> QED
    BY <2>1, SumStarts
<1>1. ASSUME NEW s \in SUBSET S, \A y \in s : s \ {y} \in P
      PROVE  s \in P
  <2>1. IsFiniteSet(s) /\ NatOn(f, s) /\ IsFiniteSet(s \cup T) /\ NatOn(f, s \cup T)
    BY FS_Subset, FS_Union DEF NatOn
  <2>2. CASE s = {}
    BY <1>0, <2>2, SumOfNone
  <2>3. CASE s # {}
    <3>1. PICK y \in s : TRUE
      BY <2>3
    <3> DEFINE r == s \ {y}
    <3>2. (s \cup T) \ {y} = r \cup T /\ y \in s \cup T
      OBVIOUS
    <3>3. SumFunctionOnSet(f, s) = f[y] + SumFunctionOnSet(f, r)
      BY <2>1, SumWithout
    <3>4. SumFunctionOnSet(f, s \cup T) = f[y] + SumFunctionOnSet(f, r \cup T)
      <4>1. SumFunctionOnSet(f, s \cup T) = f[y] + SumFunctionOnSet(f, (s \cup T) \ {y})
        BY <2>1, <3>2, SumWithout
      <4> QED
        BY <3>2, <4>1
    <3>5. SumFunctionOnSet(f, r \cup T)
            = SumFunctionOnSet(f, r) + SumFunctionOnSet(f, T)
      BY <1>1
    <3>6. f[y] \in Nat
      BY <2>1 DEF NatOn
    <3>7. SumFunctionOnSet(f, r) \in Nat
      <4>1. IsFiniteSet(r) /\ NatOn(f, r)
        BY <2>1, FS_Subset DEF NatOn
      <4> QED
        BY <4>1, SumStarts
    <3> QED
      BY <1>0, <3>3, <3>4, <3>5, <3>6, <3>7
  <2> QED
    BY <2>2, <2>3
<1>2. P = SUBSET S
  <2>1. P \in SUBSET (SUBSET S)
    OBVIOUS
  <2> HIDE DEF P
  <2> QED
    BY <1>1, <2>1, SubsetInduction
<1> QED
  BY <1>2

\* The sum over a set is no less than that over a part of it.
LEMMA SumOfPart ==
  ASSUME NEW S, IsFiniteSet(S), NEW T \in SUBSET S, NEW f, NatOn(f, S)
  PROVE  SumFunctionOnSet(f, T) <= SumFunctionOnSet(f, S)
<1> DEFINE R == S \ T
<1>1. IsFiniteSet(T) /\ IsFiniteSet(R) /\ T \cap R = {} /\ T \cup R = S
      /\ NatOn(f, R) /\ NatOn(f, T) /\ NatOn(f, T \cup R)
  BY FS_Subset DEF NatOn
<1>2. SumFunctionOnSet(f, S) = SumFunctionOnSet(f, T) + SumFunctionOnSet(f, R)
  <2> HIDE DEF R
  <2>1. SumFunctionOnSet(f, T \cup R) = SumFunctionOnSet(f, T) + SumFunctionOnSet(f, R)
    BY <1>1, SumOfUnion
  <2> QED
    BY <1>1, <2>1
<1>3. SumFunctionOnSet(f, T) \in Nat /\ SumFunctionOnSet(f, R) \in Nat
  BY <1>1, SumStarts
<1> QED
  BY <1>1, <1>2, <1>3

\* What adds nothing may be left out.
LEMMA SumOfZeros ==
  ASSUME NEW S, IsFiniteSet(S), NEW T \in SUBSET S, NEW f, NatOn(f, S),
         \A x \in S \ T : f[x] = 0
  PROVE  SumFunctionOnSet(f, S) = SumFunctionOnSet(f, T)
<1> DEFINE R == S \ T
           P == {s \in SUBSET R : SumFunctionOnSet(f, s) = 0}
<1>1. IsFiniteSet(T) /\ IsFiniteSet(R) /\ T \cap R = {} /\ T \cup R = S
      /\ NatOn(f, R) /\ NatOn(f, T) /\ NatOn(f, T \cup R)
  BY FS_Subset DEF NatOn
<1>2. ASSUME NEW s \in SUBSET R, \A y \in s : s \ {y} \in P
      PROVE  s \in P
  <2>1. IsFiniteSet(s) /\ NatOn(f, s)
    BY <1>1, FS_Subset DEF NatOn
  <2>2. ASSUME NEW y \in s
        PROVE  SumFunctionOnSet(f, s) = f[y] + SumFunctionOnSet(f, s \ {y})
    BY <2>1, SumWithout
  <2>3. CASE s = {}
    BY <2>3, SumOfNone
  <2>4. CASE s # {}
    <3>1. PICK y \in s : TRUE
      BY <2>4
    <3>2. SumFunctionOnSet(f, s \ {y}) = 0
      BY <1>2
    <3>3. f[y] = 0
      OBVIOUS
    <3> QED
      BY <2>2, <3>2, <3>3
  <2> QED
    BY <2>3, <2>4
<1>3. P = SUBSET R
  <2>1. P \in SUBSET (SUBSET R)
    OBVIOUS
  <2> HIDE DEF P, R
  <2> QED
    BY <1>1, <1>2, <2>1, SubsetInduction
<1>4. SumFunctionOnSet(f, R) = 0
  BY <1>3
<1>5. SumFunctionOnSet(f, S) = SumFunctionOnSet(f, T) + SumFunctionOnSet(f, R)
  <2> HIDE DEF R
  <2>1. SumFunctionOnSet(f, T \cup R) = SumFunctionOnSet(f, T) + SumFunctionOnSet(f, R)
    BY <1>1, SumOfUnion
  <2> QED
    BY <1>1, <2>1
<1>6. SumFunctionOnSet(f, T) \in Nat
  BY <1>1, SumStarts
<1> QED
  BY <1>1, <1>4, <1>5, <1>6

\* The sum of sums.
LEMMA SumOfBoth ==
  ASSUME NEW S, IsFiniteSet(S), NEW f, NatOn(f, S), NEW g, NatOn(g, S),
         NEW h, \A x \in S : h[x] = f[x] + g[x]
  PROVE  SumFunctionOnSet(h, S) = SumFunctionOnSet(f, S) + SumFunctionOnSet(g, S)
<1> DEFINE P == {s \in SUBSET S : SumFunctionOnSet(h, s)
                                   = SumFunctionOnSet(f, s) + SumFunctionOnSet(g, s)}
<1>1. ASSUME NEW s \in SUBSET S, \A y \in s : s \ {y} \in P
      PROVE  s \in P
  <2>1. IsFiniteSet(s) /\ NatOn(f, s) /\ NatOn(g, s) /\ NatOn(h, s)
    BY FS_Subset DEF NatOn
  <2>2. CASE s = {}
    BY <2>2, SumOfNone
  <2>3. CASE s # {}
    <3>1. PICK y \in s : TRUE
      BY <2>3
    <3> DEFINE r == s \ {y}
    <3>2. /\ SumFunctionOnSet(f, s) = f[y] + SumFunctionOnSet(f, r)
          /\ SumFunctionOnSet(g, s) = g[y] + SumFunctionOnSet(g, r)
          /\ SumFunctionOnSet(h, s) = h[y] + SumFunctionOnSet(h, r)
      BY <2>1, SumWithout
    <3>3. SumFunctionOnSet(h, r) = SumFunctionOnSet(f, r) + SumFunctionOnSet(g, r)
      BY <1>1
    <3>4. f[y] \in Nat /\ g[y] \in Nat /\ h[y] = f[y] + g[y]
      BY DEF NatOn
    <3>5. SumFunctionOnSet(f, r) \in Nat /\ SumFunctionOnSet(g, r) \in Nat
      <4>1. IsFiniteSet(r) /\ NatOn(f, r) /\ NatOn(g, r)
        BY <2>1, FS_Subset DEF NatOn
      <4> QED
        BY <4>1, SumStarts
    <3> QED
      BY <3>2, <3>3, <3>4, <3>5
  <2> QED
    BY <2>2, <2>3
<1>2. P = SUBSET S
  <2>1. P \in SUBSET (SUBSET S)
    OBVIOUS
  <2> HIDE DEF P
  <2> QED
    BY <1>1, <2>1, SubsetInduction
<1> QED
  BY <1>2

\* Two sums in either order: by the elements of S of sums over T, or the other way
\* round.
LEMMA SumSwap ==
  ASSUME NEW S, IsFiniteSet(S), NEW T, IsFiniteSet(T),
         NEW f, \A x \in S, y \in T : f[x][y] \in Nat
  PROVE  SumFunctionOnSet([x \in S |-> SumFunctionOnSet(f[x], T)], S)
           = SumFunctionOnSet([y \in T |-> SumFunctionOnSet([x \in S |-> f[x][y]], S)], T)
<1> DEFINE rows == [x \in S |-> SumFunctionOnSet(f[x], T)]
           col(y) == [x \in S |-> f[x][y]]
           cols(s) == [y \in T |-> SumFunctionOnSet(col(y), s)]
           P == {s \in SUBSET S : SumFunctionOnSet(rows, s) = SumFunctionOnSet(cols(s), T)}
<1>0. NatOn(rows, S) /\ \A y \in T : NatOn(col(y), S)
  <2>1. \A x \in S : SumFunctionOnSet(f[x], T) \in Nat
    BY SumStarts DEF NatOn
  <2> QED
    BY <2>1 DEF NatOn
<1>1. ASSUME NEW s \in SUBSET S, \A x \in s : s \ {x} \in P
      PROVE  s \in P
  <2>1. IsFiniteSet(s) /\ NatOn(rows, s) /\ \A y \in T : NatOn(col(y), s)
    BY <1>0, FS_Subset DEF NatOn
  <2>2. CASE s = {}
    <3>1. NatOn(cols(s), T) /\ \A y \in T \ {} : cols(s)[y] = 0
      BY <2>2, SumOfNone DEF NatOn
    <3>2. SumFunctionOnSet(cols(s), T) = SumFunctionOnSet(cols(s), {})
      <4> DEFINE c == cols(s)
      <4>1. NatOn(c, T) /\ \A y \in T \ {} : c[y] = 0
        BY <3>1
      <4> HIDE DEF c
      <4>2. SumFunctionOnSet(c, T) = SumFunctionOnSet(c, {})
        BY <4>1, SumOfZeros
      <4> QED
        BY <4>2 DEF c
    <3> QED
      BY <2>2, <3>2, SumOfNone
  <2>3. CASE s # {}
    <3>1. PICK x \in s : TRUE
      BY <2>3
    <3> DEFINE r == s \ {x}
               c == cols(s)
               d == cols(r)
    <3>2. SumFunctionOnSet(rows, s) = SumFunctionOnSet(f[x], T) + SumFunctionOnSet(rows, r)
      <4>1. SumFunctionOnSet(rows, s) = rows[x] + SumFunctionOnSet(rows, r)
        <5> HIDE DEF rows
        <5> QED
          BY <2>1, SumWithout
      <4> QED
        BY <4>1
    <3>3. SumFunctionOnSet(rows, r) = SumFunctionOnSet(d, T)
      BY <1>1
    <3>4. \A y \in T : c[y] = f[x][y] + d[y]
      <4> TAKE y \in T
      <4> DEFINE e == col(y)
      <4>1. NatOn(e, s) /\ e[x] = f[x][y]
        BY <2>1
      <4> HIDE DEF e
      <4>2. SumFunctionOnSet(e, s) = e[x] + SumFunctionOnSet(e, r)
        BY <2>1, <4>1, SumWithout
      <4> QED
        BY <4>1, <4>2 DEF e
    <3>5. NatOn(d, T) /\ NatOn(f[x], T)
      <4>1. IsFiniteSet(r) /\ \A y \in T : NatOn(col(y), r)
        BY <2>1, FS_Subset DEF NatOn
      <4>2. \A y \in T : SumFunctionOnSet(col(y), r) \in Nat
        <5> HIDE DEF col, r
        <5> QED
          BY <4>1, SumStarts
      <4> QED
        BY <4>2 DEF NatOn
    <3> HIDE DEF c, d
    <3>6. SumFunctionOnSet(c, T) = SumFunctionOnSet(f[x], T) + SumFunctionOnSet(d, T)
      <4> DEFINE fx == f[x]
      <4>1. NatOn(fx, T) /\ \A y \in T : c[y] = fx[y] + d[y]
        BY <3>4, <3>5
      <4> HIDE DEF fx
      <4>2. SumFunctionOnSet(c, T) = SumFunctionOnSet(fx, T) + SumFunctionOnSet(d, T)
        BY <3>5, <4>1, SumOfBoth
      <4> QED
        BY <4>2 DEF fx
    <3> QED
      BY <3>2, <3>3, <3>6 DEF c
  <2> QED
    BY <2>2, <2>3
<1>2. P = SUBSET S
  <2>1. P \in SUBSET (SUBSET S)
    OBVIOUS
  <2> HIDE DEF P
  <2> QED
    BY <1>1, <2>1, SubsetInduction
<1> QED
  BY <1>2
\* A sum, class by class: c gives every element of S its class in B.
LEMMA SumByClass ==
  ASSUME NEW S, IsFiniteSet(S), NEW B, IsFiniteSet(B), NEW f, NatOn(f, S),
         NEW c, \A x \in S : c[x] \in B
  PROVE  SumFunctionOnSet(f, S)
           = SumFunctionOnSet([b \in B |-> SumFunctionOnSet(f, {x \in S : c[x] = b})], B)
<1> DEFINE class(b) == {x \in S : c[x] = b}
           upto(s) == {x \in S : c[x] \in s}
           parts == [b \in B |-> SumFunctionOnSet(f, class(b))]
           P == {s \in SUBSET B : SumFunctionOnSet(f, upto(s)) = SumFunctionOnSet(parts, s)}
<1>0. NatOn(parts, B)
  <2>1. \A b \in B : IsFiniteSet(class(b)) /\ NatOn(f, class(b))
    BY FS_Subset DEF NatOn
  <2>2. \A b \in B : SumFunctionOnSet(f, class(b)) \in Nat
    <3> HIDE DEF class
    <3> QED
      BY <2>1, SumStarts
  <2> QED
    BY <2>2 DEF NatOn
<1>1. ASSUME NEW s \in SUBSET B, \A b \in s : s \ {b} \in P
      PROVE  s \in P
  <2>1. IsFiniteSet(s) /\ NatOn(parts, s)
    BY <1>0, FS_Subset DEF NatOn
  <2>2. CASE s = {}
    BY <2>2, SumOfNone
  <2>3. CASE s # {}
    <3>1. PICK b \in s : TRUE
      BY <2>3
    <3> DEFINE r == s \ {b}
               old == upto(r)
               new == class(b)
    <3>2. upto(s) = old \cup new /\ old \cap new = {}
      OBVIOUS
    <3>3. IsFiniteSet(old) /\ IsFiniteSet(new) /\ NatOn(f, old \cup new)
      BY FS_Subset DEF NatOn
    <3>4. SumFunctionOnSet(f, upto(s)) = SumFunctionOnSet(f, old) + SumFunctionOnSet(f, new)
      <4> HIDE DEF old, new, upto
      <4>1. SumFunctionOnSet(f, old \cup new)
              = SumFunctionOnSet(f, old) + SumFunctionOnSet(f, new)
        BY <3>2, <3>3, SumOfUnion
      <4> QED
        BY <3>2, <4>1
    <3>5. SumFunctionOnSet(f, old) = SumFunctionOnSet(parts, r)
      BY <1>1
    <3>6. SumFunctionOnSet(parts, s) = parts[b] + SumFunctionOnSet(parts, r)
      <4> HIDE DEF parts
      <4> QED
        BY <2>1, SumWithout
    <3>7. parts[b] = SumFunctionOnSet(f, new) /\ parts[b] \in Nat
      BY <1>0 DEF NatOn
    <3>8. SumFunctionOnSet(parts, r) \in Nat
      <4>1. IsFiniteSet(r) /\ NatOn(parts, r)
        BY <2>1, FS_Subset DEF NatOn
      <4> HIDE DEF parts, r
      <4> QED
        BY <4>1, SumStarts
    <3> HIDE DEF parts, old, new, upto, class, r
    <3>9. SumFunctionOnSet(f, upto(s)) = SumFunctionOnSet(parts, s)
      BY <3>4, <3>5, <3>6, <3>7, <3>8
    <3> QED
      BY <3>9 DEF P
  <2> QED
    BY <2>2, <2>3
<1>2. P = SUBSET B
  <2>1. P \in SUBSET (SUBSET B)
    OBVIOUS
  <2> HIDE DEF P
  <2> QED
    BY <1>1, <2>1, SubsetInduction
<1>3. upto(B) = S
  OBVIOUS
<1>4. SumFunctionOnSet(f, upto(B)) = SumFunctionOnSet(parts, B)
  BY <1>2
<1> QED
  BY <1>3, <1>4
===============================================================================
