------------------------------- MODULE FoldFacts -------------------------------
(***************************************************************************)
(* What a fold over a sequence computes, for every sequence: SequencesExt  *)
(* defines FoldLeft by recursion over the sets of indices, and these       *)
(* lemmas turn it into a chain of partial results.  The induction they     *)
(* need is over a set of naturals instead of a predicate.  Then what the   *)
(* operators of Series return.                                             *)
(***************************************************************************)
EXTENDS Series, FiniteSetTheorems, SequenceTheorems, TLAPS

-----------------------------------------------------------------------------
(* Induction *)

\* A set of naturals that has 0 and every successor has them all: else the numbers it
\* lacks, up to some n, are a finite set that x - 1 maps one to one into itself, which
\* misses n.
LEMMA SetInduction ==
    ASSUME NEW S, 0 \in S, \A n \in Nat : n \in S => n + 1 \in S
    PROVE  Nat \subseteq S
<1> SUFFICES ASSUME NEW n \in Nat, n \notin S PROVE FALSE
  OBVIOUS
<1> DEFINE T == {x \in 0 .. n : x \notin S}
           f == [x \in T |-> x - 1]
<1>1. IsFiniteSet(T)
  <2>1. 0 \in Int /\ n \in Int
    OBVIOUS
  <2>2. IsFiniteSet(0 .. n)
    BY <2>1, FS_Interval
  <2> QED
    BY <2>2, FS_Subset
<1>2. ASSUME NEW x \in T PROVE x - 1 \in T
  <2>1. x # 0 /\ x - 1 \in Nat /\ (x - 1) + 1 = x /\ x - 1 \in 0 .. n
    OBVIOUS
  <2> QED
    BY <2>1
<1>3. f \in [T -> T] /\ \A a, b \in T : f[a] = f[b] => a = b
  BY <1>2
<1>4. f \in Injection(T, T)
  BY <1>3 DEF Injection, IsInjective
<1>5. f \in Surjection(T, T)
  BY <1>1, <1>4, FS_Injection
<1>6. n \in T /\ \A x \in T : f[x] # n
  OBVIOUS
<1> QED
  BY <1>5, <1>6 DEF Surjection

-----------------------------------------------------------------------------
(* Folds *)

\* The recursion behind FoldLeft, for a step F that is a function of a result and an
\* element, and the partial results that it comes to.
FoldRecursion(F, base, s, n, g) ==
    g = [d \in SUBSET (1 .. n) |->
            IF d = {} THEN base ELSE F[<<g[d \ {Max(d)}], s[Max(d)]>>]]
FoldChain(F, base, s, n, h) ==
    h[0] = base /\ \A i \in 1 .. n : h[i] = F[<<h[i - 1], s[i]>>]

LEMMA TopIsMax ==
    ASSUME NEW n \in Nat, NEW d \in SUBSET (1 .. n), n \in d
    PROVE  Max(d) = n
<1>1. \A x \in d : x \in Int /\ n >= x
  OBVIOUS
<1>2. \E x \in d : \A y \in d : x >= y
  BY <1>1
<1>3. Max(d) \in d /\ \A y \in d : Max(d) >= y
  BY <1>2 DEF Max
<1> HIDE DEF Max
<1>4. Max(d) >= n
  BY <1>3
<1>5. PICK m \in 1 .. n : m = Max(d)
  BY <1>3
<1> QED
  BY <1>4, <1>5

LEMMA MaxIsIn ==
    ASSUME NEW n \in Nat, NEW d \in SUBSET (1 .. n), d # {}
    PROVE  Max(d) \in d
<1> DEFINE Has(k) == \A e \in SUBSET (1 .. k) : e # {} => \E x \in e : \A y \in e : x >= y
           S == {k \in Nat : Has(k)}
<1>1. 0 \in S
  <2>1. \A e \in SUBSET (1 .. 0) : e = {}
    OBVIOUS
  <2> QED
    BY <2>1
<1>2. ASSUME NEW k \in Nat, k \in S PROVE k + 1 \in S
  <2>1. Has(k)
    BY <1>2
  <2>2. ASSUME NEW e \in SUBSET (1 .. k + 1), e # {}
        PROVE  \E x \in e : \A y \in e : x >= y
    <3>1. CASE k + 1 \in e
      <4>1. \A y \in e : k + 1 >= y
        OBVIOUS
      <4> QED
        BY <3>1, <4>1
    <3>2. CASE k + 1 \notin e
      <4>1. e \in SUBSET (1 .. k)
        BY <3>2
      <4> QED
        BY <2>1, <2>2, <4>1
    <3> QED
      BY <3>1, <3>2
  <2> QED
    BY <2>2
<1> HIDE DEF S
<1>3. Has(n)
  <2>1. n \in S
    BY <1>1, <1>2, SetInduction
  <2> QED
    BY <2>1 DEF S
<1>4. \E x \in d : \A y \in d : x >= y
  BY <1>3
<1> QED
  BY <1>4 DEF Max

\* There is a function that satisfies the recursion, whatever the step.
LEMMA RecursionExists ==
    ASSUME NEW R, NEW V, NEW F \in [R \X V -> R], NEW base \in R, NEW s,
           NEW n \in Nat, \A i \in 1 .. n : s[i] \in V
    PROVE  \E g \in [SUBSET (1 .. n) -> R] : FoldRecursion(F, base, s, n, g)
<1> DEFINE E(k) == \E g \in [SUBSET (1 .. k) -> R] : FoldRecursion(F, base, s, k, g)
           S == {k \in Nat : k <= n => E(k)}
<1>1. 0 \in S
  <2> DEFINE g == [d \in SUBSET (1 .. 0) |-> base]
  <2>1. \A d \in SUBSET (1 .. 0) : d = {}
    OBVIOUS
  <2>2. g \in [SUBSET (1 .. 0) -> R]
    OBVIOUS
  <2>3. FoldRecursion(F, base, s, 0, g)
    BY <2>1 DEF FoldRecursion
  <2>4. E(0)
    BY <2>2, <2>3
  <2> HIDE DEF E
  <2> QED
    BY <2>4
<1>2. ASSUME NEW k \in Nat, k \in S PROVE k + 1 \in S
  <2> HIDE DEF E
  <2>8. SUFFICES ASSUME k + 1 <= n PROVE E(k + 1)
    OBVIOUS
  <2>9. E(k)
    BY <1>2, <2>8
  <2>1. PICK g \in [SUBSET (1 .. k) -> R] : FoldRecursion(F, base, s, k, g)
    BY <2>9 DEF E
  <2>2. s[k + 1] \in V
    BY <2>8
  <2> DEFINE f == [d \in SUBSET (1 .. k + 1) |->
                      IF k + 1 \in d THEN F[<<g[d \ {k + 1}], s[k + 1]>>] ELSE g[d]]
  <2>3. \A d \in SUBSET (1 .. k + 1) : /\ d \ {k + 1} \in SUBSET (1 .. k)
                                       /\ k + 1 \notin d => d \in SUBSET (1 .. k)
    OBVIOUS
  <2>4. f \in [SUBSET (1 .. k + 1) -> R]
    BY <2>1, <2>2, <2>3
  <2>5. ASSUME NEW d \in SUBSET (1 .. k + 1)
        PROVE  f[d] = IF d = {} THEN base ELSE F[<<f[d \ {Max(d)}], s[Max(d)]>>]
    <3>1. CASE k + 1 \in d
      <4>1. Max(d) = k + 1
        BY <3>1, TopIsMax
      <4>2. d \ {k + 1} \in SUBSET (1 .. k + 1) /\ k + 1 \notin d \ {k + 1}
        OBVIOUS
      <4>3. f[d \ {k + 1}] = g[d \ {k + 1}]
        BY <4>2
      <4>4. f[d] = F[<<g[d \ {k + 1}], s[k + 1]>>]
        BY <3>1
      <4> QED
        BY <3>1, <4>1, <4>3, <4>4
    <3>2. CASE k + 1 \notin d
      <4>1. d \in SUBSET (1 .. k) /\ f[d] = g[d]
        BY <2>3, <3>2
      <4>2. g[d] = IF d = {} THEN base ELSE F[<<g[d \ {Max(d)}], s[Max(d)]>>]
        BY <2>1, <4>1 DEF FoldRecursion
      <4>3. d \ {Max(d)} \in SUBSET (1 .. k + 1) /\ k + 1 \notin d \ {Max(d)}
        BY <3>2
      <4>4. f[d \ {Max(d)}] = g[d \ {Max(d)}]
        BY <4>3
      <4> QED
        BY <4>1, <4>2, <4>4
    <3> QED
      BY <3>1, <3>2
  <2>6. f = [d \in SUBSET (1 .. k + 1) |-> f[d]]
    OBVIOUS
  <2> HIDE DEF f
  <2>7. FoldRecursion(F, base, s, k + 1, f)
    BY <2>5, <2>6 DEF FoldRecursion
  <2> QED
    BY <2>4, <2>7 DEF E
<1> HIDE DEF S, E
<1>3. n \in S
  BY <1>1, <1>2, SetInduction
<1>4. E(n)
  BY <1>3 DEF S
<1> QED
  BY <1>4 DEF E

\* The intervals from 1 are where the recursion passes from one result to the next.
LEMMA Intervals ==
    ASSUME NEW n \in Nat
    PROVE  /\ 1 .. 0 = {} /\ {} \in SUBSET (1 .. n)
           /\ \A i \in 1 .. n : /\ 1 .. i \in SUBSET (1 .. n) /\ 1 .. i # {}
                                /\ Max(1 .. i) = i /\ (1 .. i) \ {i} = 1 .. (i - 1)
                                /\ i \in 0 .. n /\ i - 1 \in 0 .. n
<1>1. ASSUME NEW i \in 1 .. n PROVE Max(1 .. i) = i
  BY TopIsMax
<1>2. 1 .. 0 = {} /\ {} \in SUBSET (1 .. n)
  OBVIOUS
<1>3. \A i \in 1 .. n : /\ 1 .. i \in SUBSET (1 .. n) /\ 1 .. i # {}
                        /\ (1 .. i) \ {i} = 1 .. (i - 1)
                        /\ i \in 0 .. n /\ i - 1 \in 0 .. n
  OBVIOUS
<1> QED
  BY <1>1, <1>2, <1>3, Zenon

-----------------------------------------------------------------------------
(* Sums *)

SumRecursion(w, n, g) ==
    g = [d \in SUBSET (1 .. n) |-> IF d = {} THEN 0 ELSE g[d \ {Max(d)}] + w[Max(d)]]
SumChain(w, n, h) == h[0] = 0 /\ \A i \in 1 .. n : h[i] = h[i - 1] + w[i]

\* The sum of the first n values of w.
SumTo(w, n) == (CHOOSE h : SumChain(w, n, h))[n]

LEMMA SumExists ==
    ASSUME NEW n \in Nat, NEW w, \A i \in 1 .. n : w[i] \in Int
    PROVE  \E g : SumRecursion(w, n, g)
<1> DEFINE F == [x \in Int \X Int |-> x[1] + x[2]]
<1>1. F \in [Int \X Int -> Int] /\ \A a, b \in Int : F[<<a, b>>] = a + b
  OBVIOUS
<1> HIDE DEF F
<1>2. PICK g \in [SUBSET (1 .. n) -> Int] : FoldRecursion(F, 0, w, n, g)
  <2>1. 0 \in Int
    OBVIOUS
  <2>2. \E g \in [SUBSET (1 .. n) -> Int] : FoldRecursion(F, 0, w, n, g)
    BY <1>1, <2>1, RecursionExists, Zenon
  <2> QED
    BY <2>2
<1>3. ASSUME NEW d \in SUBSET (1 .. n)
      PROVE  g[d] = IF d = {} THEN 0 ELSE g[d \ {Max(d)}] + w[Max(d)]
  <2>1. g[d] = IF d = {} THEN 0 ELSE F[<<g[d \ {Max(d)}], w[Max(d)]>>]
    BY <1>2 DEF FoldRecursion
  <2>2. CASE d = {}
    BY <2>1, <2>2
  <2>3. CASE d # {}
    <3>1. Max(d) \in 1 .. n
      BY <2>3, MaxIsIn
    <3>2. g[d \ {Max(d)}] \in Int /\ w[Max(d)] \in Int
      BY <3>1
    <3> QED
      BY <1>1, <2>1, <2>3, <3>2
  <2> QED
    BY <2>2, <2>3
<1> QED
  BY <1>3 DEF SumRecursion

LEMMA SumChainOf ==
    ASSUME NEW n \in Nat, NEW w, NEW g, SumRecursion(w, n, g)
    PROVE  SumChain(w, n, [i \in 0 .. n |-> g[1 .. i]])
<1> DEFINE h == [i \in 0 .. n |-> g[1 .. i]]
<1>1. h[0] = 0
  <2>1. g[{}] = 0 /\ 0 \in 0 .. n
    BY Intervals DEF SumRecursion
  <2> QED
    BY <2>1, Intervals
<1>2. ASSUME NEW i \in 1 .. n PROVE h[i] = h[i - 1] + w[i]
  <2>1. /\ 1 .. i \in SUBSET (1 .. n) /\ 1 .. i # {} /\ Max(1 .. i) = i
        /\ (1 .. i) \ {i} = 1 .. (i - 1) /\ i \in 0 .. n /\ i - 1 \in 0 .. n
    BY Intervals
  <2>2. g[1 .. i] = g[(1 .. i) \ {Max(1 .. i)}] + w[Max(1 .. i)]
    BY <2>1 DEF SumRecursion
  <2> QED
    BY <2>1, <2>2
<1> QED
  BY <1>1, <1>2 DEF SumChain

\* A chain of sums depends on nothing but the values.
LEMMA SumsAgree ==
    ASSUME NEW n \in Nat, NEW w, NEW v, \A i \in 1 .. n : w[i] = v[i],
           NEW h, NEW k, SumChain(w, n, h), SumChain(v, n, k)
    PROVE  h[n] = k[n]
<1> DEFINE S == {i \in Nat : i <= n => h[i] = k[i]}
<1>1. 0 \in S
  BY DEF SumChain
<1>2. ASSUME NEW i \in Nat, i \in S PROVE i + 1 \in S
  <2> SUFFICES ASSUME i + 1 <= n PROVE h[i + 1] = k[i + 1]
    OBVIOUS
  <2>1. i + 1 \in 1 .. n /\ (i + 1) - 1 = i /\ h[i] = k[i]
    BY <1>2
  <2> QED
    BY <2>1 DEF SumChain
<1> HIDE DEF S
<1>3. n \in S
  BY <1>1, <1>2, SetInduction
<1> QED
  BY <1>3 DEF S

LEMMA SumToIs ==
    ASSUME NEW n \in Nat, NEW w, NEW v, \A i \in 1 .. n : w[i] = v[i],
           NEW h, SumChain(v, n, h)
    PROVE  SumTo(w, n) = h[n]
<1>1. SumChain(w, n, h)
  BY DEF SumChain
<1>2. SumChain(w, n, CHOOSE k : SumChain(w, n, k))
  BY <1>1
<1> DEFINE k == CHOOSE k : SumChain(w, n, k)
<1> HIDE DEF k
<1>3. SumChain(w, n, k)
  BY <1>2 DEF k
<1>4. k[n] = h[n]
  BY <1>1, <1>3, SumsAgree
<1> QED
  BY <1>4 DEF SumTo, k

\* Whatever function satisfies the recursion, its last result is the sum.
LEMMA SumRecursionIs ==
    ASSUME NEW n \in Nat, NEW w, NEW g, SumRecursion(w, n, g)
    PROVE  SumTo(w, n) = g[1 .. n]
<1> DEFINE h == [i \in 0 .. n |-> g[1 .. i]]
<1>1. SumChain(w, n, h)
  BY SumChainOf
<1>2. h[n] = g[1 .. n]
  OBVIOUS
<1> HIDE DEF h
<1> QED
  BY <1>1, <1>2, SumToIs

LEMMA SumToChain ==
    ASSUME NEW n \in Nat, NEW w, \A i \in 1 .. n : w[i] \in Int
    PROVE  \E h : SumChain(w, n, h) /\ \A i \in 0 .. n : SumTo(w, i) = h[i]
<1>1. PICK g : SumRecursion(w, n, g)
  BY SumExists
<1>2. PICK h : SumChain(w, n, h)
  BY <1>1, SumChainOf
<1>3. ASSUME NEW i \in 0 .. n PROVE SumTo(w, i) = h[i]
  <2>1. SumChain(w, i, h) /\ i \in Nat
    BY <1>2 DEF SumChain
  <2> QED
    BY <2>1, SumToIs
<1> QED
  BY <1>2, <1>3

LEMMA SumSteps ==
    ASSUME NEW n \in Nat, NEW w, \A i \in 1 .. n : w[i] \in Int
    PROVE  SumTo(w, 0) = 0 /\ \A i \in 1 .. n : SumTo(w, i) = SumTo(w, i - 1) + w[i]
<1>1. PICK h : SumChain(w, n, h) /\ \A i \in 0 .. n : SumTo(w, i) = h[i]
  BY SumToChain
<1>2. SumTo(w, 0) = 0
  BY <1>1 DEF SumChain
<1>3. ASSUME NEW i \in 1 .. n PROVE SumTo(w, i) = SumTo(w, i - 1) + w[i]
  <2>1. i \in 0 .. n /\ i - 1 \in 0 .. n
    OBVIOUS
  <2> QED
    BY <1>1, <2>1 DEF SumChain
<1> QED
  BY <1>2, <1>3

LEMMA SumSame ==
    ASSUME NEW n \in Nat, NEW w, NEW v, \A i \in 1 .. n : w[i] = v[i] /\ v[i] \in Int
    PROVE  SumTo(w, n) = SumTo(v, n)
<1>1. PICK h : SumChain(v, n, h) /\ \A i \in 0 .. n : SumTo(v, i) = h[i]
  BY SumToChain
<1>2. SumTo(w, n) = h[n]
  BY <1>1, SumToIs
<1> QED
  BY <1>1, <1>2

LEMMA SumType ==
    ASSUME NEW n \in Nat, NEW w, \A i \in 1 .. n : w[i] \in Int
    PROVE  SumTo(w, n) \in Int
<1> DEFINE S == {k \in Nat : k <= n => SumTo(w, k) \in Int}
<1>1. 0 \in S
  BY SumSteps
<1>2. ASSUME NEW k \in Nat, k \in S PROVE k + 1 \in S
  <2> SUFFICES ASSUME k + 1 <= n PROVE SumTo(w, k + 1) \in Int
    OBVIOUS
  <2>1. k + 1 \in 1 .. n /\ (k + 1) - 1 = k /\ SumTo(w, k) \in Int
    BY <1>2
  <2>2. SumTo(w, k + 1) = SumTo(w, k) + w[k + 1]
    BY <2>1, SumSteps
  <2> QED
    BY <2>1, <2>2
<1> HIDE DEF S
<1>3. n \in S
  BY <1>1, <1>2, SetInduction
<1> QED
  BY <1>3 DEF S

\* Sums of values that are pointwise no less are no less.
LEMMA SumMonotone ==
    ASSUME NEW n \in Nat, NEW w, NEW v,
           \A i \in 1 .. n : w[i] \in Int /\ v[i] \in Int /\ w[i] <= v[i]
    PROVE  SumTo(w, n) <= SumTo(v, n)
<1> DEFINE S == {k \in Nat : k <= n => SumTo(w, k) <= SumTo(v, k)}
<1>1. 0 \in S
  BY SumSteps
<1>2. ASSUME NEW k \in Nat, k \in S PROVE k + 1 \in S
  <2> SUFFICES ASSUME k + 1 <= n PROVE SumTo(w, k + 1) <= SumTo(v, k + 1)
    OBVIOUS
  <2>1. k + 1 \in 1 .. n /\ (k + 1) - 1 = k /\ SumTo(w, k) <= SumTo(v, k)
    BY <1>2
  <2>2. SumTo(w, k + 1) = SumTo(w, k) + w[k + 1] /\ SumTo(v, k + 1) = SumTo(v, k) + v[k + 1]
    BY <2>1, SumSteps
  <2>3. SumTo(w, k) \in Int /\ SumTo(v, k) \in Int
    <3>1. \A i \in 1 .. k : w[i] \in Int /\ v[i] \in Int
      BY <2>1
    <3> QED
      BY <3>1, SumType
  <2>4. w[k + 1] \in Int /\ v[k + 1] \in Int /\ w[k + 1] <= v[k + 1]
    BY <2>1
  <2> QED
    BY <2>1, <2>2, <2>3, <2>4
<1> HIDE DEF S
<1>3. n \in S
  BY <1>1, <1>2, SetInduction
<1> QED
  BY <1>3 DEF S

LEMMA SumNat ==
    ASSUME NEW n \in Nat, NEW w, \A i \in 1 .. n : w[i] \in Nat
    PROVE  SumTo(w, n) \in Nat
<1> DEFINE S == {k \in Nat : k <= n => SumTo(w, k) \in Nat}
<1>1. 0 \in S
  BY SumSteps
<1>2. ASSUME NEW k \in Nat, k \in S PROVE k + 1 \in S
  <2> SUFFICES ASSUME k + 1 <= n PROVE SumTo(w, k + 1) \in Nat
    OBVIOUS
  <2>1. k + 1 \in 1 .. n /\ (k + 1) - 1 = k /\ SumTo(w, k) \in Nat
    BY <1>2
  <2>2. SumTo(w, k + 1) = SumTo(w, k) + w[k + 1]
    BY <2>1, SumSteps
  <2> QED
    BY <2>1, <2>2
<1> HIDE DEF S
<1>3. n \in S
  BY <1>1, <1>2, SetInduction
<1> QED
  BY <1>3 DEF S

LEMMA SumZero ==
    ASSUME NEW n \in Nat, NEW w, \A i \in 1 .. n : w[i] = 0
    PROVE  SumTo(w, n) = 0
<1> DEFINE S == {k \in Nat : k <= n => SumTo(w, k) = 0}
<1>1. 0 \in S
  BY SumSteps
<1>2. ASSUME NEW k \in Nat, k \in S PROVE k + 1 \in S
  <2> SUFFICES ASSUME k + 1 <= n PROVE SumTo(w, k + 1) = 0
    OBVIOUS
  <2>1. k + 1 \in 1 .. n /\ (k + 1) - 1 = k /\ SumTo(w, k) = 0
    BY <1>2
  <2>2. SumTo(w, k + 1) = SumTo(w, k) + w[k + 1]
    BY <2>1, SumSteps
  <2> QED
    BY <2>1, <2>2
<1> HIDE DEF S
<1>3. n \in S
  BY <1>1, <1>2, SetInduction
<1> QED
  BY <1>3 DEF S

\* The sum of pointwise sums.
LEMMA SumAdds ==
    ASSUME NEW n \in Nat, NEW u, NEW v, NEW w,
           \A i \in 1 .. n : v[i] \in Int /\ w[i] \in Int /\ u[i] = v[i] + w[i]
    PROVE  SumTo(u, n) = SumTo(v, n) + SumTo(w, n)
<1> DEFINE S == {k \in Nat : k <= n => SumTo(u, k) = SumTo(v, k) + SumTo(w, k)}
<1>0. \A i \in 1 .. n : u[i] \in Int
  OBVIOUS
<1>1. 0 \in S
  <2>1. SumTo(u, 0) = 0 /\ SumTo(v, 0) = 0 /\ SumTo(w, 0) = 0
    BY <1>0, SumSteps
  <2> QED
    BY <2>1
<1>2. ASSUME NEW k \in Nat, k \in S PROVE k + 1 \in S
  <2> SUFFICES ASSUME k + 1 <= n PROVE SumTo(u, k + 1) = SumTo(v, k + 1) + SumTo(w, k + 1)
    OBVIOUS
  <2>1. k + 1 \in 1 .. n /\ (k + 1) - 1 = k /\ SumTo(u, k) = SumTo(v, k) + SumTo(w, k)
    BY <1>2
  <2>2. /\ SumTo(u, k + 1) = SumTo(u, k) + u[k + 1]
        /\ SumTo(v, k + 1) = SumTo(v, k) + v[k + 1]
        /\ SumTo(w, k + 1) = SumTo(w, k) + w[k + 1]
    BY <1>0, <2>1, SumSteps
  <2>3. SumTo(v, k) \in Int /\ SumTo(w, k) \in Int
    <3>1. \A i \in 1 .. k : v[i] \in Int /\ w[i] \in Int
      BY <2>1
    <3> QED
      BY <3>1, SumType
  <2>4. v[k + 1] \in Int /\ w[k + 1] \in Int /\ u[k + 1] = v[k + 1] + w[k + 1]
    BY <2>1
  <2> QED
    BY <2>1, <2>2, <2>3, <2>4
<1> HIDE DEF S
<1>3. n \in S
  BY <1>1, <1>2, SetInduction
<1> QED
  BY <1>3 DEF S

\* What is left of a sum when the value at m is taken out.
LEMMA SumRemoved ==
    ASSUME NEW n \in Nat, NEW m \in 1 .. n, NEW w, NEW v, \A i \in 1 .. n : w[i] \in Int,
           \A i \in 1 .. n - 1 : v[i] = IF i < m THEN w[i] ELSE w[i + 1]
    PROVE  SumTo(v, n - 1) = SumTo(w, n) - w[m]
<1> DEFINE S == {k \in Nat : k < n /\ m <= k + 1 => SumTo(v, k) = SumTo(w, k + 1) - w[m]}
<1>0. \A i \in 1 .. n - 1 : v[i] \in Int
  OBVIOUS
<1>9. n - 1 \in Nat
  OBVIOUS
<1>8. ASSUME NEW k \in Nat, k < n, m = k + 1 PROVE SumTo(v, k) = SumTo(w, k + 1) - w[m]
  <2>1. \A i \in 1 .. k : v[i] = w[i] /\ w[i] \in Int
    BY <1>8
  <2>2. SumTo(v, k) = SumTo(w, k)
    BY <2>1, SumSame
  <2>3. k + 1 \in 1 .. n /\ (k + 1) - 1 = k
    BY <1>8
  <2>4. SumTo(w, k + 1) = SumTo(w, k) + w[k + 1]
    BY <2>3, SumSteps
  <2>5. SumTo(w, k) \in Int /\ w[m] \in Int
    BY <2>1, SumType
  <2> QED
    BY <1>8, <2>2, <2>4, <2>5
<1>1. 0 \in S
  <2> SUFFICES ASSUME 0 < n, m <= 0 + 1 PROVE SumTo(v, 0) = SumTo(w, 0 + 1) - w[m]
    OBVIOUS
  <2>1. 0 \in Nat /\ m = 0 + 1
    OBVIOUS
  <2> QED
    BY <2>1, <1>8
<1>2. ASSUME NEW k \in Nat, k \in S PROVE k + 1 \in S
  <2> SUFFICES ASSUME k + 1 < n, m <= (k + 1) + 1
               PROVE  SumTo(v, k + 1) = SumTo(w, (k + 1) + 1) - w[m]
    OBVIOUS
  <2>1. CASE m = (k + 1) + 1
    <3>1. k + 1 \in Nat
      OBVIOUS
    <3> QED
      BY <2>1, <3>1, <1>8
  <2>2. CASE m # (k + 1) + 1
    <3>1. m <= k + 1 /\ k < n
      BY <2>2
    <3>2. SumTo(v, k) = SumTo(w, k + 1) - w[m]
      BY <3>1, <1>2
    <3>3. k + 1 \in 1 .. n - 1 /\ (k + 1) - 1 = k /\ v[k + 1] = w[(k + 1) + 1]
      BY <3>1
    <3>4. SumTo(v, k + 1) = SumTo(v, k) + v[k + 1]
      BY <1>0, <1>9, <3>3, SumSteps
    <3>5. (k + 1) + 1 \in 1 .. n /\ ((k + 1) + 1) - 1 = k + 1
      OBVIOUS
    <3>6. SumTo(w, (k + 1) + 1) = SumTo(w, k + 1) + w[(k + 1) + 1]
      BY <3>5, SumSteps
    <3>7. SumTo(w, k + 1) \in Int
      <4>1. \A i \in 1 .. k + 1 : w[i] \in Int
        OBVIOUS
      <4> QED
        BY <4>1, SumType
    <3>8. w[(k + 1) + 1] \in Int /\ w[m] \in Int
      BY <3>5
    <3> QED
      BY <3>2, <3>3, <3>4, <3>6, <3>7, <3>8
  <2> QED
    BY <2>1, <2>2
<1> HIDE DEF S
<1>3. n - 1 \in S
  BY <1>1, <1>2, <1>9, SetInduction
<1> QED
  BY <1>3 DEF S

\* What a sum becomes when the value at m is another.
LEMMA SumChanged ==
    ASSUME NEW n \in Nat, NEW m \in 1 .. n, NEW w, NEW v,
           \A i \in 1 .. n : w[i] \in Int /\ v[i] \in Int /\ (i # m => v[i] = w[i])
    PROVE  SumTo(v, n) = SumTo(w, n) - w[m] + v[m]
<1> DEFINE u == [i \in 1 .. n - 1 |-> IF i < m THEN w[i] ELSE w[i + 1]]
<1>1. \A i \in 1 .. n - 1 : /\ u[i] = IF i < m THEN w[i] ELSE w[i + 1]
                            /\ u[i] = IF i < m THEN v[i] ELSE v[i + 1]
  OBVIOUS
<1> HIDE DEF u
<1>2. SumTo(u, n - 1) = SumTo(w, n) - w[m]
  BY <1>1, SumRemoved
<1>3. SumTo(u, n - 1) = SumTo(v, n) - v[m]
  BY <1>1, SumRemoved
<1>4. SumTo(w, n) \in Int /\ SumTo(v, n) \in Int /\ w[m] \in Int /\ v[m] \in Int
  BY SumType
<1> QED
  BY <1>2, <1>3, <1>4

-----------------------------------------------------------------------------
(* Totals *)

\* A row of numbers, such as what the positions cost.
IsRow(v, n) == DOMAIN v = 1 .. n /\ \A i \in 1 .. n : v[i] \in Int

\* Total folds the row; the fold is the sum of FoldFacts.
LEMMA TotalIs ==
  ASSUME NEW n \in Nat, NEW v, IsRow(v, n)
  PROVE  Total(v) = SumTo(v, n)
<1> DEFINE Rec(g) == g = [d \in SUBSET (1 .. n) |->
                             IF d = {} THEN 0 ELSE g[d \ {Max(d)}] + v[Max(d)]]
<1>1. DOMAIN v = 1 .. n /\ \A i \in 1 .. n : v[i] \in Int
  BY DEF IsRow
<1>2. Total(v) = (CHOOSE g : Rec(g))[1 .. n]
  BY <1>1 DEF Total, FoldLeft, MapThenFoldSet
<1>3. \A g : Rec(g) <=> SumRecursion(v, n, g)
  BY DEF SumRecursion
<1>4. \E g : Rec(g)
  BY <1>1, <1>3, SumExists
<1>5. SumRecursion(v, n, CHOOSE g : Rec(g))
  BY <1>3, <1>4
<1> QED
  BY <1>2, <1>5, SumRecursionIs

LEMMA TotalInt == ASSUME NEW n \in Nat, NEW v, IsRow(v, n) PROVE Total(v) \in Int
  BY TotalIs, SumType DEF IsRow

LEMMA TotalNat ==
  ASSUME NEW n \in Nat, NEW v, DOMAIN v = 1 .. n, \A i \in 1 .. n : v[i] \in Nat
  PROVE  IsRow(v, n) /\ Total(v) \in Nat
<1>1. IsRow(v, n)
  BY DEF IsRow
<1> QED
  BY <1>1, TotalIs, SumNat

LEMMA TotalZero ==
  ASSUME NEW n \in Nat, NEW v, DOMAIN v = 1 .. n, \A i \in 1 .. n : v[i] = 0
  PROVE  Total(v) = 0
<1>1. IsRow(v, n)
  BY DEF IsRow
<1> QED
  BY <1>1, TotalIs, SumZero

LEMMA TotalSame ==
  ASSUME NEW n \in Nat, NEW v, NEW w, IsRow(v, n), IsRow(w, n), \A i \in 1 .. n : v[i] = w[i]
  PROVE  Total(v) = Total(w)
<1>0. \A i \in 1 .. n : v[i] = w[i] /\ w[i] \in Int
  BY DEF IsRow
<1>1. SumTo(v, n) = SumTo(w, n)
  BY <1>0, SumSame
<1> QED
  BY <1>1, TotalIs

LEMMA TotalLess ==
  ASSUME NEW n \in Nat, NEW v, NEW w, IsRow(v, n), IsRow(w, n), \A i \in 1 .. n : v[i] <= w[i]
  PROVE  Total(v) <= Total(w)
<1>0. \A i \in 1 .. n : v[i] \in Int /\ w[i] \in Int /\ v[i] <= w[i]
  BY DEF IsRow
<1>1. SumTo(v, n) <= SumTo(w, n)
  BY <1>0, SumMonotone
<1> QED
  BY <1>1, TotalIs

LEMMA TotalAdds ==
  ASSUME NEW n \in Nat, NEW u, NEW v, NEW w, IsRow(u, n), IsRow(v, n), IsRow(w, n),
         \A i \in 1 .. n : u[i] = v[i] + w[i]
  PROVE  Total(u) = Total(v) + Total(w)
<1>0. \A i \in 1 .. n : v[i] \in Int /\ w[i] \in Int /\ u[i] = v[i] + w[i]
  BY DEF IsRow
<1>1. SumTo(u, n) = SumTo(v, n) + SumTo(w, n)
  BY <1>0, SumAdds
<1> QED
  BY <1>1, TotalIs

\* The totals of rows that differ in one place, at the end, or by one value less.
LEMMA TotalChanged ==
  ASSUME NEW n \in Nat, NEW m \in 1 .. n, NEW v, NEW w, IsRow(v, n), IsRow(w, n),
         \A i \in 1 .. n : i # m => v[i] = w[i]
  PROVE  Total(v) = Total(w) - w[m] + v[m]
<1>0. \A i \in 1 .. n : w[i] \in Int /\ v[i] \in Int /\ (i # m => v[i] = w[i])
  BY DEF IsRow
<1>1. SumTo(v, n) = SumTo(w, n) - w[m] + v[m]
  BY <1>0, SumChanged
<1> QED
  BY <1>1, TotalIs

LEMMA TotalAppended ==
  ASSUME NEW n \in Nat, NEW v, NEW w, IsRow(v, n + 1), IsRow(w, n),
         \A i \in 1 .. n : v[i] = w[i]
  PROVE  Total(v) = Total(w) + v[n + 1]
<1>1. n + 1 \in Nat /\ n + 1 \in 1 .. n + 1 /\ (n + 1) - 1 = n
  OBVIOUS
<1>0. /\ \A i \in 1 .. n : v[i] = w[i] /\ w[i] \in Int
      /\ \A i \in 1 .. n + 1 : v[i] \in Int
  BY DEF IsRow
<1>2. SumTo(v, n + 1) = SumTo(v, n) + v[n + 1]
  BY <1>0, <1>1, SumSteps
<1>3. SumTo(v, n) = SumTo(w, n)
  BY <1>0, SumSame
<1> QED
  BY <1>1, <1>2, <1>3, TotalIs

LEMMA TotalRemoved ==
  ASSUME NEW n \in Nat, NEW m \in 1 .. n, NEW v, NEW w, IsRow(v, n - 1), IsRow(w, n),
         \A i \in 1 .. n - 1 : v[i] = IF i < m THEN w[i] ELSE w[i + 1]
  PROVE  Total(v) = Total(w) - w[m]
<1>0. \A i \in 1 .. n : w[i] \in Int
  BY DEF IsRow
<1>1. SumTo(v, n - 1) = SumTo(w, n) - w[m]
  BY <1>0, SumRemoved
<1>2. n - 1 \in Nat
  OBVIOUS
<1> QED
  BY <1>1, <1>2, TotalIs

\* A row that is a multiple of another has that multiple of its total.
LEMMA SumScaled ==
    ASSUME NEW n \in Nat, NEW w, NEW v, NEW m \in Int,
           \A i \in 1 .. n : w[i] \in Int /\ v[i] = m * w[i]
    PROVE  SumTo(v, n) = m * SumTo(w, n)
<1> DEFINE S == {k \in Nat : k <= n => SumTo(v, k) = m * SumTo(w, k)}
<1>0. \A i \in 1 .. n : v[i] \in Int
  OBVIOUS
<1>1. 0 \in S
  <2>1. SumTo(v, 0) = 0 /\ SumTo(w, 0) = 0
    BY <1>0, SumSteps
  <2> QED
    BY <2>1
<1>2. ASSUME NEW k \in Nat, k \in S PROVE k + 1 \in S
  <2> SUFFICES ASSUME k + 1 <= n PROVE SumTo(v, k + 1) = m * SumTo(w, k + 1)
    OBVIOUS
  <2>1. k + 1 \in 1 .. n /\ (k + 1) - 1 = k /\ SumTo(v, k) = m * SumTo(w, k)
    BY <1>2
  <2>2. SumTo(v, k + 1) = SumTo(v, k) + v[k + 1]
    BY <1>0, <2>1, SumSteps
  <2>3. SumTo(w, k + 1) = SumTo(w, k) + w[k + 1]
    BY <2>1, SumSteps
  <2>4. SumTo(w, k) \in Int
    <3>1. \A i \in 1 .. k : w[i] \in Int
      BY <2>1
    <3> QED
      BY <3>1, SumType
  <2>5. PICK a \in Int, b \in Int : a = SumTo(w, k) /\ b = w[k + 1] /\ v[k + 1] = m * b
    BY <2>1, <2>4
  <2>6. m * (a + b) = m * a + m * b
    OBVIOUS
  <2> QED
    BY <2>1, <2>2, <2>3, <2>5, <2>6
<1> HIDE DEF S
<1>3. n \in S
  BY <1>1, <1>2, SetInduction
<1> QED
  BY <1>3 DEF S

\* What a stretch of equal values adds to a sum.
LEMMA SumOfStretch ==
    ASSUME NEW p \in Nat, NEW q \in Nat, q <= p, NEW w, \A i \in 1 .. p : w[i] \in Int,
           NEW m \in Int, \A i \in q + 1 .. p : w[i] = m
    PROVE  SumTo(w, p) = SumTo(w, q) + m * (p - q)
<1> DEFINE S == {k \in Nat : q + k <= p => SumTo(w, q + k) = SumTo(w, q) + m * k}
<1>0. SumTo(w, q) \in Int
  <2>1. \A i \in 1 .. q : w[i] \in Int
    OBVIOUS
  <2> QED
    BY <2>1, SumType
<1>1. 0 \in S
  <2>1. q + 0 = q /\ m * 0 = 0
    OBVIOUS
  <2> QED
    BY <1>0, <2>1
<1>2. ASSUME NEW k \in Nat, k \in S PROVE k + 1 \in S
  <2> SUFFICES ASSUME q + (k + 1) <= p
               PROVE  SumTo(w, q + (k + 1)) = SumTo(w, q) + m * (k + 1)
    OBVIOUS
  <2>1. /\ q + (k + 1) \in 1 .. p /\ (q + (k + 1)) - 1 = q + k
        /\ q + (k + 1) \in q + 1 .. p /\ q + k <= p
    OBVIOUS
  <2>2. SumTo(w, q + k) = SumTo(w, q) + m * k
    BY <1>2, <2>1
  <2>3. SumTo(w, q + (k + 1)) = SumTo(w, q + k) + w[q + (k + 1)]
    BY <2>1, SumSteps
  <2>4. w[q + (k + 1)] = m
    BY <2>1
  <2>5. m * (k + 1) = m * k + m /\ m * k \in Int
    OBVIOUS
  <2> QED
    BY <1>0, <2>2, <2>3, <2>4, <2>5
<1> HIDE DEF S
<1>3. p - q \in S
  <2>1. p - q \in Nat
    OBVIOUS
  <2> QED
    BY <1>1, <1>2, <2>1, SetInduction
<1>4. q + (p - q) = p
  OBVIOUS
<1> QED
  BY <1>3, <1>4 DEF S

\* So an average lies between the least and the greatest of what it weighs.
LEMMA TotalAtMost ==
  ASSUME NEW n \in Nat, NEW v, NEW w, IsRow(v, n), IsRow(w, n), NEW m \in Int,
         \A i \in 1 .. n : v[i] <= m * w[i]
  PROVE  Total(v) <= m * Total(w)
<1> DEFINE u == [i \in 1 .. n |-> m * w[i]]
<1>1. \A i \in 1 .. n : w[i] \in Int /\ v[i] \in Int /\ u[i] = m * w[i]
  BY DEF IsRow
<1>2. \A i \in 1 .. n : u[i] \in Int /\ v[i] <= u[i]
  <2>1. \A x, y \in Int : x * y \in Int
    OBVIOUS
  <2>2. \A i \in 1 .. n : m * w[i] \in Int
    BY <1>1, <2>1
  <2> QED
    BY <1>1, <2>2
<1> HIDE DEF u
<1>3. SumTo(u, n) = m * SumTo(w, n)
  BY <1>1, SumScaled
<1>4. SumTo(v, n) <= SumTo(u, n)
  BY <1>1, <1>2, SumMonotone
<1>5. Total(w) = SumTo(w, n) /\ Total(v) = SumTo(v, n)
  BY TotalIs
<1> QED
  BY <1>3, <1>4, <1>5

LEMMA TotalAtLeast ==
  ASSUME NEW n \in Nat, NEW v, NEW w, IsRow(v, n), IsRow(w, n), NEW m \in Int,
         \A i \in 1 .. n : m * w[i] <= v[i]
  PROVE  m * Total(w) <= Total(v)
<1> DEFINE u == [i \in 1 .. n |-> m * w[i]]
<1>1. \A i \in 1 .. n : w[i] \in Int /\ v[i] \in Int /\ u[i] = m * w[i]
  BY DEF IsRow
<1>2. \A i \in 1 .. n : u[i] \in Int /\ u[i] <= v[i]
  <2>1. \A x, y \in Int : x * y \in Int
    OBVIOUS
  <2>2. \A i \in 1 .. n : m * w[i] \in Int
    BY <1>1, <2>1
  <2> QED
    BY <1>1, <2>2
<1> HIDE DEF u
<1>3. SumTo(u, n) = m * SumTo(w, n)
  BY <1>1, SumScaled
<1>4. SumTo(u, n) <= SumTo(v, n)
  BY <1>1, <1>2, SumMonotone
<1>5. Total(w) = SumTo(w, n) /\ Total(v) = SumTo(v, n)
  BY TotalIs
<1> QED
  BY <1>3, <1>4, <1>5

-----------------------------------------------------------------------------
(* Series *)

LEMMA MinIsIn ==
    ASSUME NEW n \in Nat, NEW d \in SUBSET (1 .. n), d # {}
    PROVE  Min(d) \in d /\ \A y \in d : Min(d) <= y
<1> DEFINE Has(k) == \A e \in SUBSET (1 .. n) : k \in e => \E x \in e : \A y \in e : x <= y
           S == {k \in Nat : \A j \in 1 .. k : Has(j)}
<1>1. 0 \in S
  OBVIOUS
<1>2. ASSUME NEW k \in Nat, k \in S PROVE k + 1 \in S
  <2>1. \A j \in 1 .. k : Has(j)
    BY <1>2
  <2>2. ASSUME NEW e \in SUBSET (1 .. n), k + 1 \in e
        PROVE  \E x \in e : \A y \in e : x <= y
    <3>1. CASE \E j \in 1 .. k : j \in e
      BY <2>1, <3>1
    <3>2. CASE \A j \in 1 .. k : j \notin e
      <4>1. \A y \in e : k + 1 <= y
        BY <3>2
      <4> QED
        BY <2>2, <4>1
    <3> QED
      BY <3>1, <3>2
  <2>3. Has(k + 1)
    BY <2>2
  <2>4. \A j \in 1 .. k + 1 : j \in 1 .. k \/ j = k + 1
    OBVIOUS
  <2> HIDE DEF Has
  <2> QED
    BY <2>1, <2>3, <2>4
<1>3. \E x \in d : \A y \in d : x <= y
  <2>1. n \in S
    <3> HIDE DEF S
    <3> QED
      BY <1>1, <1>2, SetInduction
  <2> QED
    BY <2>1
<1> QED
  BY <1>3 DEF Min

\* Ages that do not grow towards the end.
Aging(s) ==
    /\ \A i \in 1 .. Len(s) : s[i].age \in Nat
    /\ \A i, j \in 1 .. Len(s) : i < j => s[i].age >= s[j].age

\* What Recent drops and what it keeps.
LEMMA RecentIs ==
    ASSUME NEW V, NEW s \in Seq(V), Aging(s), NEW w \in Nat
    PROVE  \/ Recent(s, w) = <<>> /\ \A i \in 1 .. Len(s) : s[i].age > w
           \/ \E k \in 1 .. Len(s) :
                 /\ Recent(s, w) = SubSeq(s, k, Len(s))
                 /\ \A i \in 1 .. Len(s) : s[i].age > w <=> i < k
<1> DEFINE within == {i \in DOMAIN s : s[i].age <= w}
<1>0. /\ DOMAIN s = 1 .. Len(s) /\ Len(s) \in Nat
      /\ \A i \in 1 .. Len(s) : s[i].age \in Nat
      /\ \A i, j \in 1 .. Len(s) : i < j => s[i].age >= s[j].age
  BY LenProperties DEF Aging
<1>1. CASE within = {}
  <2>1. Recent(s, w) = <<>>
    BY <1>1 DEF Recent
  <2>2. \A i \in 1 .. Len(s) : ~(s[i].age <= w)
    BY <1>0, <1>1
  <2>3. \A i \in 1 .. Len(s) : s[i].age > w
    BY <1>0, <2>2
  <2> QED
    BY <2>1, <2>3
<1>2. CASE within # {}
  <2> DEFINE k == Min(within)
  <2>1. k \in within /\ \A y \in within : k <= y
    BY <1>0, <1>2, MinIsIn
  <2>2. Recent(s, w) = SubSeq(s, k, Len(s))
    BY <1>2 DEF Recent
  <2> HIDE DEF k
  <2>3. k \in 1 .. Len(s) /\ s[k].age <= w
    BY <1>0, <2>1
  <2>4. ASSUME NEW i \in 1 .. Len(s), i < k PROVE s[i].age > w
    <3>1. i \notin within
      BY <2>1, <2>3, <2>4
    <3> QED
      BY <1>0, <3>1
  <2>5. ASSUME NEW i \in 1 .. Len(s), ~(i < k) PROVE s[i].age <= w
    <3>1. i = k \/ k < i
      BY <2>3, <2>5
    <3> QED
      BY <1>0, <2>3, <3>1
  <2>6. \A i \in 1 .. Len(s) : s[i].age > w <=> i < k
    BY <1>0, <2>4, <2>5
  <2> QED
    BY <2>2, <2>3, <2>6
<1> QED
  BY <1>1, <1>2

\* The end of a series is one.
LEMMA SuffixAging ==
    ASSUME NEW V, NEW s \in Seq(V), Aging(s), NEW k \in 1 .. Len(s)
    PROVE  /\ SubSeq(s, k, Len(s)) \in Seq(V) /\ Aging(SubSeq(s, k, Len(s)))
           /\ Len(SubSeq(s, k, Len(s))) = Len(s) - k + 1
           /\ \A i \in 1 .. Len(s) - k + 1 : SubSeq(s, k, Len(s))[i] = s[k + i - 1]
<1> DEFINE t == SubSeq(s, k, Len(s))
<1>1. Len(s) \in Nat /\ k \in Int /\ \A i \in k .. Len(s) : s[i] \in V
  BY LenProperties
<1>2. /\ t \in Seq(V) /\ Len(t) = Len(s) - k + 1
      /\ \A i \in 1 .. Len(s) - k + 1 : t[i] = s[k + i - 1]
  BY <1>1, SubSeqProperties
<1> HIDE DEF t
<1>3. Aging(t)
  <2>1. \A i \in 1 .. Len(t) : k + i - 1 \in 1 .. Len(s) /\ t[i] = s[k + i - 1]
    BY <1>1, <1>2
  <2>2. \A i, j \in 1 .. Len(t) : i < j => k + i - 1 < k + j - 1
    BY <1>1, <1>2
  <2> QED
    BY <2>1, <2>2 DEF Aging
<1> QED
  BY <1>2, <1>3 DEF t

LEMMA RecentAging ==
    ASSUME NEW V, NEW s \in Seq(V), Aging(s), NEW w \in Nat
    PROVE  /\ Recent(s, w) \in Seq(V) /\ Aging(Recent(s, w)) /\ Len(Recent(s, w)) <= Len(s)
           /\ \A i \in 1 .. Len(Recent(s, w)) : Recent(s, w)[i].age <= w
<1>1. Len(s) \in Nat /\ \A i \in 1 .. Len(s) : s[i].age \in Nat
  BY LenProperties DEF Aging
<1>2. CASE Recent(s, w) = <<>>
  <2>1. <<>> \in Seq(V) /\ Len(<<>>) = 0
    OBVIOUS
  <2> QED
    BY <1>1, <1>2, <2>1 DEF Aging
<1>3. ASSUME NEW k \in 1 .. Len(s), Recent(s, w) = SubSeq(s, k, Len(s)),
             \A i \in 1 .. Len(s) : s[i].age > w <=> i < k
      PROVE  /\ Recent(s, w) \in Seq(V) /\ Aging(Recent(s, w)) /\ Len(Recent(s, w)) <= Len(s)
             /\ \A i \in 1 .. Len(Recent(s, w)) : Recent(s, w)[i].age <= w
  <2>1. /\ Recent(s, w) \in Seq(V) /\ Aging(Recent(s, w)) /\ Len(Recent(s, w)) = Len(s) - k + 1
        /\ \A i \in 1 .. Len(s) - k + 1 : Recent(s, w)[i] = s[k + i - 1]
    BY <1>3, SuffixAging
  <2>2. \A i \in 1 .. Len(s) - k + 1 : k + i - 1 \in 1 .. Len(s) /\ ~(k + i - 1 < k)
    BY <1>1
  <2>3. \A i \in 1 .. Len(s) - k + 1 : s[k + i - 1].age <= w
    BY <1>1, <1>3, <2>2
  <2>4. Len(s) - k + 1 <= Len(s)
    BY <1>1
  <2>5. \A i \in 1 .. Len(Recent(s, w)) : Recent(s, w)[i].age <= w
    BY <2>1, <2>3
  <2> QED
    BY <2>1, <2>4, <2>5, Zenon
<1> QED
  BY <1>2, <1>3, RecentIs

\* Entries that a look-back drops may as well have been dropped before.
LEMMA RecentOfSuffix ==
    ASSUME NEW V, NEW s \in Seq(V), Aging(s), NEW w \in Nat, NEW k \in 1 .. Len(s),
           \A i \in 1 .. Len(s) : i < k => s[i].age > w
    PROVE  Recent(SubSeq(s, k, Len(s)), w) = Recent(s, w)
<1> DEFINE t == SubSeq(s, k, Len(s))
           n == Len(s)
<1>0. n \in Nat /\ k \in 1 .. n /\ Len(s) = n
  BY LenProperties
<1>1. /\ t \in Seq(V) /\ Aging(t) /\ Len(t) = n - k + 1
      /\ \A i \in 1 .. n - k + 1 : t[i] = s[k + i - 1]
  BY SuffixAging
<1>2. \A i \in 1 .. n : s[i].age \in Nat
  BY DEF Aging
<1> HIDE DEF t, n
<1>3. CASE Recent(t, w) = <<>> /\ \A i \in 1 .. Len(t) : t[i].age > w
  <2>1. ASSUME NEW i \in 1 .. n PROVE s[i].age > w
    <3>1. CASE i < k
      BY <1>0, <3>1
    <3>2. CASE ~(i < k)
      <4>1. i - k + 1 \in 1 .. n - k + 1 /\ k + (i - k + 1) - 1 = i
        BY <1>0, <3>2
      <4> QED
        BY <1>1, <1>3, <4>1
    <3> QED
      BY <3>1, <3>2
  <2>2. ASSUME NEW j \in 1 .. n PROVE ~ \A i \in 1 .. n : s[i].age > w <=> i < j
    <3>1. ~(j < j) /\ s[j].age > w
      BY <2>1
    <3> QED
      BY <3>1
  <2>3. Recent(s, w) = <<>>
    BY <1>0, <2>2, RecentIs
  <2> QED
    BY <1>3, <2>3 DEF t, n
<1>4. ASSUME NEW j \in 1 .. Len(t), Recent(t, w) = SubSeq(t, j, Len(t)),
             \A i \in 1 .. Len(t) : t[i].age > w <=> i < j
      PROVE  Recent(t, w) = Recent(s, w)
  <2>1. j \in 1 .. n - k + 1 /\ k + j - 1 \in 1 .. n /\ Len(t) \in 1 .. n - k + 1
    BY <1>0, <1>1, <1>4
  <2>2. SubSeq(t, j, Len(t)) = SubSeq(s, k + j - 1, n)
    <3>1. SubSeq(SubSeq(s, k, n), j, Len(t)) = SubSeq(s, k + j - 1, k + Len(t) - 1)
      <4>1. n \in 1 .. Len(s) /\ k \in 1 .. Len(s) /\ j \in 1 .. n - k + 1
            /\ Len(t) \in 1 .. n - k + 1
        BY <1>0, <2>1
      <4> QED
        BY <1>1, <4>1, SubSeqOfSubSeq DEF t
    <3>2. k + Len(t) - 1 = n
      BY <1>0, <1>1
    <3> QED
      BY <3>1, <3>2 DEF t, n
  <2>3. ~(s[k + j - 1].age > w)
    <3>1. t[j] = s[k + j - 1] /\ ~(j < j)
      BY <1>1, <2>1
    <3> QED
      BY <1>4, <3>1
  <2>4. PICK m \in 1 .. n : /\ Recent(s, w) = SubSeq(s, m, n)
                            /\ \A i \in 1 .. n : s[i].age > w <=> i < m
    BY <1>0, <2>1, <2>3, RecentIs
  <2>5. m <= k + j - 1
    BY <1>0, <2>1, <2>3, <2>4
  <2>6. k <= m
    <3>1. ~(m < k)
      <4>1. s[m].age > w => m < m
        BY <2>4
      <4> QED
        BY <1>0, <4>1
    <3> QED
      BY <1>0, <3>1
  <2>7. ~(m < k + j - 1)
    <3>1. SUFFICES ASSUME m < k + j - 1 PROVE FALSE
      OBVIOUS
    <3>2. m - k + 1 \in 1 .. n - k + 1 /\ k + (m - k + 1) - 1 = m /\ m - k + 1 < j
      BY <1>0, <2>1, <2>6, <3>1
    <3>3. t[m - k + 1] = s[m]
      BY <1>1, <3>2
    <3>4. t[m - k + 1].age > w
      BY <1>1, <1>4, <3>2
    <3>5. s[m].age > w => m < m
      BY <2>4
    <3> QED
      BY <1>0, <3>3, <3>4, <3>5
  <2>8. m = k + j - 1
    BY <1>0, <2>1, <2>5, <2>7
  <2> QED
    BY <1>4, <2>2, <2>4, <2>8
<1> QED
  BY <1>1, <1>3, <1>4, RecentIs DEF t, n

\* Nor does it matter if they were dropped by a longer look-back.
LEMMA RecentOfRecent ==
    ASSUME NEW V, NEW s \in Seq(V), Aging(s), NEW w \in Nat, NEW v \in Nat, w <= v
    PROVE  Recent(Recent(s, v), w) = Recent(s, w)
<1>0. Len(s) \in Nat /\ \A i \in 1 .. Len(s) : s[i].age \in Nat
  BY LenProperties DEF Aging
<1>1. CASE Recent(s, v) = <<>> /\ \A i \in 1 .. Len(s) : s[i].age > v
  <2>1. \A i \in 1 .. Len(s) : s[i].age > w
    BY <1>0, <1>1
  <2>2. ASSUME NEW j \in 1 .. Len(s) PROVE ~ \A i \in 1 .. Len(s) : s[i].age > w <=> i < j
    <3>1. ~(j < j) /\ s[j].age > w
      BY <1>0, <2>1
    <3> QED
      BY <3>1
  <2>3. Recent(s, w) = <<>>
    BY <2>2, RecentIs
  <2>4. Recent(<<>>, w) = <<>>
    <3>1. {i \in DOMAIN <<>> : <<>>[i].age <= w} = {}
      OBVIOUS
    <3> QED
      BY <3>1 DEF Recent
  <2> QED
    BY <1>1, <2>3, <2>4
<1>2. ASSUME NEW k \in 1 .. Len(s), Recent(s, v) = SubSeq(s, k, Len(s)),
             \A i \in 1 .. Len(s) : s[i].age > v <=> i < k
      PROVE  Recent(Recent(s, v), w) = Recent(s, w)
  <2>1. \A i \in 1 .. Len(s) : i < k => s[i].age > w
    BY <1>0, <1>2
  <2> QED
    BY <1>2, <2>1, RecentOfSuffix
<1> QED
  BY <1>1, <1>2, RecentIs
=============================================================================
