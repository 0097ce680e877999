----------------------------- MODULE FoldLemmas -----------------------------
(***************************************************************************)
(* Lemmas about repetition: induction over the natural numbers, folds over *)
(* the positions of a sequence, and sets that grow until they are closed.  *)
(* The fold operators of the community modules are recursive functions on  *)
(* sets of positions; here is that there are such functions, and what can  *)
(* be said of their values, and the same of a function that is defined by  *)
(* recursion over a range of numbers.  Everything is about sets and        *)
(* functions, not operators, so that it can be cited for any of them.      *)
(***************************************************************************)
EXTENDS Integers, FiniteSets, FiniteSetsExt, FiniteSetTheorems, WellFoundedInduction, TLAPS

\* A set of natural numbers that is not empty has a least one.
LEMMA LeastNumber ==
    ASSUME NEW T, T \subseteq Nat, T # {}
    PROVE  \E c \in T : \A d \in T : c <= d
  <1> DEFINE less == {ss \in Nat \X Nat : ss[1] < ss[2]}
  <1>1. IsWellFoundedOn(less, Nat)
    BY NatLessThanWellFounded DEF OpToRel
  <1> HIDE DEF less
  <1>2. PICK c \in T : \A d \in T : ~(<<d, c>> \in less)
    BY <1>1, WFMin
  <1>3. ASSUME NEW d \in T PROVE c <= d
    <2>1. c \in Nat /\ d \in Nat
      OBVIOUS
    <2>2. <<d, c>> \in Nat \X Nat /\ <<d, c>>[1] = d /\ <<d, c>>[2] = c
      BY <2>1
    <2>3. ~(d < c)
      BY <1>2, <2>2 DEF less
    <2> QED
      BY <2>1, <2>3
  <1> QED
    BY <1>2, <1>3

\* Induction: a set with 0 and every successor holds all natural numbers.
LEMMA Induction ==
    ASSUME NEW T, 0 \in T, \A k \in Nat : k \in T => k + 1 \in T
    PROVE  \A k \in Nat : k \in T
  <1> SUFFICES ASSUME \E k \in Nat : k \notin T PROVE FALSE
    OBVIOUS
  <1> DEFINE missing == Nat \ T
  <1>1. missing \subseteq Nat /\ missing # {}
    OBVIOUS
  <1>2. PICK c \in missing : \A d \in missing : c <= d
    BY <1>1, LeastNumber
  <1>3. c \in Nat /\ c # 0 /\ c \notin T
    OBVIOUS
  <1>4. c - 1 \in Nat /\ (c - 1) + 1 = c /\ ~(c <= c - 1)
    BY <1>3
  <1>5. c - 1 \in T
    BY <1>2, <1>4
  <1> QED
    BY <1>3, <1>4, <1>5

\* The same up to a number.
LEMMA InductionUpTo ==
    ASSUME NEW N \in Nat, NEW T, 0 \in T, \A k \in 0 .. N - 1 : k \in T => k + 1 \in T
    PROVE  \A k \in 0 .. N : k \in T
  <1> DEFINE U == {k \in Nat : k <= N => k \in T}
  <1>1. 0 \in U
    OBVIOUS
  <1>2. ASSUME NEW k \in Nat, k \in U PROVE k + 1 \in U
    <2>1. CASE k + 1 <= N
      <3>1. k <= N /\ k \in 0 .. N - 1
        BY <2>1
      <3> QED
        BY <1>2, <3>1
    <2>2. CASE ~(k + 1 <= N)
      BY <2>2
    <2> QED
      BY <2>1, <2>2
  <1> HIDE DEF U
  <1>3. \A k \in Nat : k \in U
    BY <1>1, <1>2, Induction
  <1> QED
    BY <1>3 DEF U

\* The largest of the positions up to N.
LEMMA MaxOfPositions ==
    ASSUME NEW N \in Nat, NEW s \in SUBSET (1 .. N), s # {}
    PROVE  Max(s) \in s /\ \A y \in s : y <= Max(s)
  <1> DEFINE away == {N - x : x \in s}
  <1>0. \A x \in s : x \in 1 .. N
    OBVIOUS
  <1>1. away \subseteq Nat /\ away # {}
    <2>1. \A x \in s : N - x \in Nat
      BY <1>0
    <2> QED
      BY <2>1
  <1>2. PICK c \in away : \A d \in away : c <= d
    BY <1>1, LeastNumber
  <1>3. PICK x \in s : c = N - x
    OBVIOUS
  <1>4. ASSUME NEW y \in s PROVE x >= y
    <2>1. N - x <= N - y
      BY <1>2, <1>3
    <2>2. x \in Nat /\ y \in Nat
      BY <1>0
    <2> QED
      BY <2>1, <2>2
  <1>5. \E z \in s : \A y \in s : z >= y
    BY <1>4
  <1>6. Max(s) \in s /\ \A y \in s : Max(s) >= y
    BY <1>5 DEF Max
  <1>7. ASSUME NEW y \in s PROVE y <= Max(s)
    <2>1. Max(s) \in s /\ Max(s) >= y
      BY <1>6
    <2>2. Max(s) \in 1 .. N /\ y \in 1 .. N
      BY <1>0, <2>1
    <2> QED
      BY <2>1, <2>2
  <1> QED
    BY <1>6, <1>7

LEMMA MaxOfPrefix ==
    ASSUME NEW k \in Nat \ {0}
    PROVE  1 .. k # {} /\ Max(1 .. k) = k /\ (1 .. k) \ {k} = 1 .. (k - 1)
  <1>1. 1 .. k \in SUBSET (1 .. k) /\ k \in 1 .. k
    OBVIOUS
  <1>2. Max(1 .. k) \in 1 .. k /\ k <= Max(1 .. k)
    BY <1>1, MaxOfPositions
  <1>3. (1 .. k) \ {k} = 1 .. (k - 1)
    OBVIOUS
  <1> QED
    BY <1>1, <1>2, <1>3

(***************************************************************************)
(* A fold over N positions, from b by F: its value for the positions in s  *)
(* is what F makes of the last of them and the value for the others.       *)
(***************************************************************************)
IsFold(f, N, b, F) ==
    f = [s \in SUBSET (1 .. N) |-> IF s = {} THEN b ELSE F[<<Max(s), f[s \ {Max(s)}]>>]]

\* There is one, with values in S when F has its values there.
LEMMA FoldExists ==
    ASSUME NEW S, NEW N \in Nat, NEW b \in S, NEW F \in [(1 .. N) \X S -> S]
    PROVE  \E f \in [SUBSET (1 .. N) -> S] : IsFold(f, N, b, F)
  <1> DEFINE T == {k \in 0 .. N : \E f \in [SUBSET (1 .. k) -> S] : IsFold(f, k, b, F)}
  <1>1. 0 \in T
    <2> DEFINE f == [s \in SUBSET (1 .. 0) |-> b]
    <2>1. f \in [SUBSET (1 .. 0) -> S]
      OBVIOUS
    <2>2. ASSUME NEW s \in SUBSET (1 .. 0) PROVE s = {}
      OBVIOUS
    <2>3. IsFold(f, 0, b, F)
      BY <2>2 DEF IsFold
    <2> QED
      BY <2>1, <2>3
  <1>2. ASSUME NEW k \in 0 .. N - 1, k \in T PROVE k + 1 \in T
    <2>1. PICK f \in [SUBSET (1 .. k) -> S] : IsFold(f, k, b, F)
      BY <1>2
    <2>2. k \in Nat /\ k + 1 \in 1 .. N /\ k + 1 \in Nat /\ (k + 1) - 1 = k
      OBVIOUS
    <2> DEFINE g == [s \in SUBSET (1 .. k + 1) |->
                        IF k + 1 \in s THEN F[<<k + 1, f[s \ {k + 1}]>>] ELSE f[s]]
    <2>3. ASSUME NEW s \in SUBSET (1 .. k + 1)
          PROVE  s \ {k + 1} \in SUBSET (1 .. k)
      BY <2>2
    <2>4. ASSUME NEW s \in SUBSET (1 .. k)
          PROVE  s \in SUBSET (1 .. k + 1) /\ k + 1 \notin s /\ g[s] = f[s]
      BY <2>2
    <2>5. g \in [SUBSET (1 .. k + 1) -> S]
      <3>1. ASSUME NEW s \in SUBSET (1 .. k + 1)
            PROVE  (IF k + 1 \in s THEN F[<<k + 1, f[s \ {k + 1}]>>] ELSE f[s]) \in S
        <4>1. f[s \ {k + 1}] \in S
          BY <2>1, <2>3
        <4>2. F[<<k + 1, f[s \ {k + 1}]>>] \in S
          BY <2>2, <4>1
        <4>3. CASE k + 1 \notin s
          <5>1. s \in SUBSET (1 .. k)
            BY <2>3, <4>3
          <5> QED
            BY <2>1, <4>3, <5>1
        <4> QED
          BY <4>2, <4>3
      <3> QED
        BY <3>1
    <2>6. ASSUME NEW s \in SUBSET (1 .. k + 1)
          PROVE  g[s] = IF s = {} THEN b ELSE F[<<Max(s), g[s \ {Max(s)}]>>]
      <3>1. CASE k + 1 \in s
        <4>1. Max(s) \in s /\ k + 1 <= Max(s)
          BY <2>2, <3>1, MaxOfPositions
        <4>2. Max(s) = k + 1
          <5>1. Max(s) \in 1 .. k + 1
            BY <4>1
          <5> QED
            BY <2>2, <4>1, <5>1
        <4>3. g[s \ {k + 1}] = f[s \ {k + 1}]
          BY <2>3, <2>4
        <4> QED
          BY <3>1, <4>2, <4>3
      <3>2. CASE k + 1 \notin s
        <4>1. s \in SUBSET (1 .. k)
          BY <2>3, <3>2
        <4>2. s \ {Max(s)} \in SUBSET (1 .. k)
          BY <4>1
        <4>3. f[s] = IF s = {} THEN b ELSE F[<<Max(s), f[s \ {Max(s)}]>>]
          BY <2>1, <4>1 DEF IsFold
        <4> QED
          BY <2>4, <4>1, <4>2, <4>3
      <3> QED
        BY <3>1, <3>2
    <2> HIDE DEF g
    <2>7. IsFold(g, k + 1, b, F)
      BY <2>5, <2>6 DEF IsFold
    <2>8. k + 1 \in 0 .. N
      BY <2>2
    <2> QED
      BY <2>5, <2>7, <2>8
  <1> HIDE DEF T
  <1>3. N \in T
    <2>1. \A k \in 0 .. N : k \in T
      BY <1>1, <1>2, InductionUpTo
    <2> QED
      BY <2>1
  <1> QED
    BY <1>3 DEF T

(***************************************************************************)
(* Sets that grow.  By F nothing is lost, and g is what comes of repeating *)
(* it: after as many rounds as there are elements it is closed, and it is  *)
(* in every closed set that holds what it began with.                      *)
(***************************************************************************)
LEMMA ClosureReached ==
    ASSUME NEW N \in Nat, NEW F \in [SUBSET (1 .. N) -> SUBSET (1 .. N)],
           \A s \in SUBSET (1 .. N) : s \subseteq F[s],
           NEW g, g[0] \in SUBSET (1 .. N), g[0] # {},
           \A k \in 0 .. N - 1 : g[k + 1] = F[g[k]]
    PROVE  g[N] \in SUBSET (1 .. N) /\ g[0] \subseteq g[N] /\ F[g[N]] = g[N]
  <1>1. \A k \in 0 .. N : g[k] \in SUBSET (1 .. N) /\ g[0] \subseteq g[k]
    <2> DEFINE T == {k \in 0 .. N : g[k] \in SUBSET (1 .. N) /\ g[0] \subseteq g[k]}
    <2>1. 0 \in T
      OBVIOUS
    <2>2. ASSUME NEW k \in 0 .. N - 1, k \in T PROVE k + 1 \in T
      <3>1. g[k + 1] = F[g[k]] /\ k + 1 \in 0 .. N
        OBVIOUS
      <3>2. F[g[k]] \in SUBSET (1 .. N) /\ g[k] \subseteq F[g[k]] /\ g[0] \subseteq g[k]
        BY <2>2
      <3> QED
        BY <3>1, <3>2
    <2> HIDE DEF T
    <2>3. \A k \in 0 .. N : k \in T
      BY <2>1, <2>2, InductionUpTo
    <2> QED
      BY <2>3 DEF T
  <1>2. ASSUME F[g[N]] # g[N] PROVE FALSE
    <2>1. ASSUME NEW j \in 0 .. N PROVE F[g[j]] # g[j]
      <3> SUFFICES ASSUME F[g[j]] = g[j] PROVE FALSE
        OBVIOUS
      <3> DEFINE T == {k \in 0 .. N - j : g[j + k] = g[j]}
      <3>1. 0 \in T /\ N - j \in Nat
        OBVIOUS
      <3>2. ASSUME NEW k \in 0 .. (N - j) - 1, k \in T PROVE k + 1 \in T
        <4>1. j + k \in 0 .. N - 1 /\ (j + k) + 1 = j + (k + 1) /\ k + 1 \in 0 .. N - j
          OBVIOUS
        <4>2. g[(j + k) + 1] = F[g[j + k]]
          BY <4>1
        <4>3. g[j + k] = g[j]
          BY <3>2
        <4> QED
          BY <4>1, <4>2, <4>3
      <3> HIDE DEF T
      <3>3. N - j \in T
        <4>1. \A k \in 0 .. N - j : k \in T
          BY <3>1, <3>2, InductionUpTo
        <4> QED
          BY <3>1, <4>1
      <3>4. j + (N - j) = N
        OBVIOUS
      <3> QED
        BY <1>2, <3>3, <3>4 DEF T
    <2>2. ASSUME NEW k \in 0 .. N PROVE IsFiniteSet(g[k]) /\ Cardinality(g[k]) \in Nat
      <3>1. IsFiniteSet(1 .. N)
        BY FS_Interval
      <3>2. g[k] \subseteq 1 .. N
        BY <1>1
      <3>3. IsFiniteSet(g[k])
        BY <3>1, <3>2, FS_Subset
      <3> QED
        BY <3>3, FS_CardinalityType
    <2> DEFINE T == {k \in 0 .. N : Cardinality(g[k]) >= k + 1}
    <2>3. 0 \in T
      <3>1. Cardinality(g[0]) # 0
        BY <2>2, FS_EmptySet
      <3> QED
        BY <2>2, <3>1
    <2>4. ASSUME NEW k \in 0 .. N - 1, k \in T PROVE k + 1 \in T
      <3>1. k \in 0 .. N /\ k + 1 \in 0 .. N
        OBVIOUS
      <3>2. g[k + 1] = F[g[k]] /\ g[k] \subseteq g[k + 1] /\ g[k + 1] # g[k]
        BY <1>1, <2>1, <3>1
      <3>3. Cardinality(g[k]) <= Cardinality(g[k + 1]) /\ Cardinality(g[k]) # Cardinality(g[k + 1])
        BY <2>2, <3>1, <3>2, FS_Subset
      <3>4. Cardinality(g[k]) \in Nat /\ Cardinality(g[k + 1]) \in Nat /\ Cardinality(g[k]) >= k + 1
        BY <2>2, <2>4, <3>1
      <3>5. Cardinality(g[k + 1]) >= (k + 1) + 1
        BY <3>3, <3>4
      <3> QED
        BY <3>1, <3>5
    <2> HIDE DEF T
    <2>5. N \in T
      <3>1. \A k \in 0 .. N : k \in T
        BY <2>3, <2>4, InductionUpTo
      <3> QED
        BY <3>1
    <2>6. Cardinality(g[N]) <= N
      <3>1. IsFiniteSet(1 .. N) /\ Cardinality(1 .. N) = IF 1 > N THEN 0 ELSE N - 1 + 1
        BY FS_Interval
      <3>2. Cardinality(1 .. N) = N
        BY <3>1
      <3>3. g[N] \subseteq 1 .. N
        BY <1>1
      <3> QED
        BY <3>1, <3>2, <3>3, FS_Subset
    <2>7. Cardinality(g[N]) >= N + 1 /\ Cardinality(g[N]) \in Nat
      BY <2>2, <2>5 DEF T
    <2> QED
      BY <2>6, <2>7
  <1> QED
    BY <1>1, <1>2

LEMMA ClosureLeast ==
    ASSUME NEW N \in Nat, NEW F, NEW g, \A k \in 0 .. N - 1 : g[k + 1] = F[g[k]],
           NEW C, g[0] \subseteq C, \A s \in SUBSET (1 .. N) : s \subseteq C => F[s] \subseteq C,
           \A k \in 0 .. N : g[k] \in SUBSET (1 .. N)
    PROVE  g[N] \subseteq C
  <1> DEFINE T == {k \in 0 .. N : g[k] \subseteq C}
  <1>1. 0 \in T
    OBVIOUS
  <1>2. ASSUME NEW k \in 0 .. N - 1, k \in T PROVE k + 1 \in T
    <2>1. g[k + 1] = F[g[k]] /\ k + 1 \in 0 .. N /\ k \in 0 .. N
      OBVIOUS
    <2>2. g[k] \subseteq C /\ g[k] \in SUBSET (1 .. N)
      BY <1>2, <2>1
    <2>3. F[g[k]] \subseteq C
      BY <2>2
    <2> QED
      BY <2>1, <2>3
  <1> HIDE DEF T
  <1>3. \A k \in 0 .. N : k \in T
    BY <1>1, <1>2, InductionUpTo
  <1> QED
    BY <1>3 DEF T

\* R is the least set that holds b and is closed under F.
IsClosure(R, N, F, b) ==
    /\ R \in SUBSET (1 .. N) /\ b \subseteq R /\ F[R] = R
    /\ \A C \in SUBSET (1 .. N) :
          b \subseteq C /\ (\A s \in SUBSET (1 .. N) : s \subseteq C => F[s] \subseteq C)
             => R \subseteq C

\* If b is not empty and by F nothing is lost, that is what the fold by F from b comes to.
LEMMA FoldIsClosure ==
    ASSUME NEW N \in Nat, NEW F \in [SUBSET (1 .. N) -> SUBSET (1 .. N)],
           \A s \in SUBSET (1 .. N) : s \subseteq F[s],
           NEW b \in SUBSET (1 .. N), b # {},
           NEW f, f[1 .. 0] = b,
           \A k \in 0 .. N - 1 :
              f[1 .. k] \in SUBSET (1 .. N) => f[1 .. (k + 1)] = F[f[1 .. k]]
    PROVE  IsClosure(f[1 .. N], N, F, b)
  <1> DEFINE g == [k \in 0 .. N |-> f[1 .. k]]
             T == {k \in 0 .. N : f[1 .. k] \in SUBSET (1 .. N)}
  <1>1. 0 \in T
    <2>1. 0 \in 0 .. N /\ f[1 .. 0] \in SUBSET (1 .. N)
      OBVIOUS
    <2> QED
      BY <2>1
  <1>2. ASSUME NEW k \in 0 .. N - 1, k \in T PROVE k + 1 \in T
    <2>1. f[1 .. (k + 1)] = F[f[1 .. k]] /\ f[1 .. k] \in SUBSET (1 .. N) /\ k + 1 \in 0 .. N
      BY <1>2
    <2> QED
      BY <2>1
  <1>3. \A k \in 0 .. N : k \in T
    <2> HIDE DEF T
    <2> QED
      BY <1>1, <1>2, InductionUpTo
  <1>4. \A k \in 0 .. N : g[k] = f[1 .. k] /\ g[k] \in SUBSET (1 .. N)
    BY <1>3
  <1>5. \A k \in 0 .. N - 1 : k \in 0 .. N /\ k + 1 \in 0 .. N
    OBVIOUS
  <1>6. \A k \in 0 .. N - 1 : g[k + 1] = F[g[k]]
    BY <1>4, <1>5
  <1>7. 0 \in 0 .. N /\ N \in 0 .. N
    OBVIOUS
  <1>8. g[0] = b /\ g[N] = f[1 .. N]
    BY <1>4, <1>7
  <1> HIDE DEF g, T
  <1>9. g[N] \in SUBSET (1 .. N) /\ g[0] \subseteq g[N] /\ F[g[N]] = g[N]
    <2>1. g[0] \in SUBSET (1 .. N) /\ g[0] # {}
      BY <1>8
    <2> QED
      BY <1>6, <2>1, ClosureReached
  <1>10. ASSUME NEW C \in SUBSET (1 .. N), b \subseteq C,
                \A s \in SUBSET (1 .. N) : s \subseteq C => F[s] \subseteq C
         PROVE  g[N] \subseteq C
    <2>1. g[0] \subseteq C /\ \A k \in 0 .. N : g[k] \in SUBSET (1 .. N)
      BY <1>4, <1>8, <1>10
    <2>2. \A s \in SUBSET (1 .. N) : s \subseteq C => F[s] \subseteq C
      BY <1>10
    <2> QED
      BY ONLY <1>6, <2>1, <2>2, N \in Nat, ClosureLeast
  <1> QED
    BY <1>8, <1>9, <1>10 DEF IsClosure

\* A function that is defined by recursion over a range of numbers: its first value is x, and
\* each later one what F makes of the one before.
IsRecursion(f, a, b, x, F) ==
    f = [c \in a .. b |-> IF c = a THEN x ELSE F[<<c, f[c - 1]>>]]

\* There is one, with values in S when F has its values there.
LEMMA RecursionExists ==
    ASSUME NEW S, NEW a \in Int, NEW b \in Int, a <= b, NEW x \in S, NEW F \in [Int \X S -> S]
    PROVE  \E f \in [a .. b -> S] : IsRecursion(f, a, b, x, F)
  <1> DEFINE N == b - a
             T == {k \in 0 .. N : \E f \in [a .. a + k -> S] : IsRecursion(f, a, a + k, x, F)}
  <1>0. N \in Nat
    OBVIOUS
  <1>1. 0 \in T
    <2> DEFINE f == [c \in a .. a |-> x]
    <2>1. f \in [a .. a -> S] /\ IsRecursion(f, a, a, x, F)
      BY DEF IsRecursion
    <2> QED
      BY <1>0, <2>1
  <1>2. ASSUME NEW k \in 0 .. N - 1, k \in T PROVE k + 1 \in T
    <2>1. PICK f \in [a .. a + k -> S] : IsRecursion(f, a, a + k, x, F)
      BY <1>2
    <2> DEFINE m == a + k
               y == F[<<m + 1, f[m]>>]
               g == [c \in a .. m + 1 |-> IF c = m + 1 THEN y ELSE f[c]]
    <2>2. m \in Int /\ a <= m /\ m \in a .. m
      OBVIOUS
    <2>3. y \in S
      <3>1. f[m] \in S
        BY <2>2
      <3> QED
        BY <2>2, <3>1
    <2>4. \A c \in a .. m : f[c] = IF c = a THEN x ELSE F[<<c, f[c - 1]>>]
      BY <2>1 DEF IsRecursion
    <2> HIDE DEF y, m
    <2>5. g \in [a .. m + 1 -> S]
      BY <2>2, <2>3 DEF m
    <2>6. ASSUME NEW c \in a .. m + 1 PROVE g[c] = IF c = a THEN x ELSE F[<<c, g[c - 1]>>]
      <3>1. CASE c = m + 1
        <4>1. c # a /\ c - 1 = m /\ m \in a .. m + 1 /\ m # m + 1
          BY <2>2, <3>1
        <4>2. g[c] = y /\ g[c - 1] = f[m]
          BY <3>1, <4>1
        <4> QED
          BY <3>1, <4>1, <4>2 DEF y
      <3>2. CASE c # m + 1
        <4>1. c \in a .. m /\ (c # a => c - 1 \in a .. m + 1 /\ c - 1 # m + 1)
          BY <2>2, <3>2
        <4>2. g[c] = f[c] /\ (c # a => g[c - 1] = f[c - 1])
          BY <3>2, <4>1
        <4> QED
          BY <2>4, <4>1, <4>2
      <3> QED
        BY <3>1, <3>2
    <2>7. IsRecursion(g, a, m + 1, x, F)
      <3>1. g = [c \in a .. m + 1 |-> g[c]]
        OBVIOUS
      <3> HIDE DEF g
      <3> QED
        BY <2>6, <3>1 DEF IsRecursion
    <2>8. m + 1 = a + (k + 1) /\ k + 1 \in 0 .. N
      BY <1>0 DEF m
    <2> HIDE DEF g, N
    <2> QED
      BY <2>5, <2>7, <2>8
  <1>3. N \in T
    <2> HIDE DEF T, N
    <2>1. \A k \in 0 .. N : k \in T
      BY <1>0, <1>1, <1>2, InductionUpTo
    <2> QED
      BY <1>0, <2>1
  <1>4. a + N = b
    OBVIOUS
  <1> QED
    BY <1>3, <1>4
=============================================================================
