------------------------------ MODULE Induction ------------------------------
(***************************************************************************)
(* Induction over the natural numbers, stated over sets: a formula to be   *)
(* proved for every n is given as the set of the n it holds of.  And       *)
(* recursion: a function defined by its first value and by what each value *)
(* makes of the one before it exists, and there is but one.  Then what      *)
(* intervals and sequences are made of.                                    *)
(***************************************************************************)
EXTENDS Integers, Sequences, FiniteSetTheorems, SequenceTheorems, WellFoundedInduction, TLAPS

\* Every set of natural numbers that is not empty has a least element.
LEMMA LeastElement ==
  ASSUME NEW T \in SUBSET Nat, T # {}
  PROVE  \E x \in T : \A y \in T : x <= y
<1> DEFINE Less == {p \in Nat \X Nat : p[1] < p[2]}
<1>1. IsWellFoundedOn(Less, Nat)
  BY NatLessThanWellFounded DEF OpToRel
<1>2. \A x, y \in Nat : <<y, x>> \in Less <=> y < x
  OBVIOUS
<1> HIDE DEF Less
<1>3. PICK x \in T : \A y \in T : <<y, x>> \notin Less
  BY <1>1, WFMin
<1>4. ASSUME NEW y \in T PROVE x <= y
  <2>1. x \in Nat /\ y \in Nat /\ ~(y < x)
    BY <1>2, <1>3
  <2> QED BY <2>1
<1> QED BY <1>4

\* And every bounded one has a greatest.
LEMMA GreatestElement ==
  ASSUME NEW n \in Nat, NEW T \in SUBSET (0 .. n), T # {}
  PROVE  \E x \in T : \A y \in T : y <= x
<1> DEFINE Gaps == {n - y : y \in T}
<1>1. PICK d \in Gaps : \A e \in Gaps : d <= e
  <2>1. \A y \in T : n - y \in Nat
    OBVIOUS
  <2>2. Gaps \in SUBSET Nat /\ Gaps # {}
    BY <2>1
  <2> HIDE DEF Gaps
  <2> QED BY <2>2, LeastElement
<1>2. PICK x \in T : d = n - x
  BY <1>1
<1>3. ASSUME NEW y \in T PROVE y <= x
  <2>1. n - x <= n - y
    BY <1>1, <1>2
  <2> QED BY <2>1
<1> QED BY <1>3

\* A set of natural numbers that holds zero, and the next of each it holds below
\* n, holds all of them up to n.
LEMMA UpTo ==
  ASSUME NEW n \in Nat, NEW S,
         0 \in S, \A i \in 0 .. n - 1 : i \in S => i + 1 \in S
  PROVE  0 .. n \subseteq S /\ n \in S
<1>1. SUFFICES ASSUME (0 .. n) \ S # {} PROVE FALSE
  OBVIOUS
<1>2. PICK x \in (0 .. n) \ S : \A y \in (0 .. n) \ S : x <= y
  BY <1>1, LeastElement, (0 .. n) \ S \in SUBSET Nat
<1>3. x # 0 /\ x \in 0 .. n /\ x \notin S
  BY <1>2
<1>4. x - 1 \in 0 .. n - 1 /\ x - 1 \in 0 .. n /\ ~(x <= x - 1)
  BY <1>3
<1>5. x - 1 \in S
  BY <1>2, <1>4
<1>6. (x - 1) + 1 \in S /\ (x - 1) + 1 = x
  BY <1>3, <1>4, <1>5
<1> QED BY <1>3, <1>6

\* Two functions that start alike and go on alike are one.
LEMMA SameRecursion ==
  ASSUME NEW n \in Nat, NEW f, NEW g,
         f = [i \in 0 .. n |-> f[i]], g = [i \in 0 .. n |-> g[i]],
         f[0] = g[0], \A i \in 0 .. n - 1 : f[i] = g[i] => f[i + 1] = g[i + 1]
  PROVE  f = g
<1> DEFINE S == {i \in 0 .. n : f[i] = g[i]}
<1>1. 0 \in S
  OBVIOUS
<1>2. ASSUME NEW i \in 0 .. n - 1, i \in S PROVE i + 1 \in S
  <2>1. f[i] = g[i] /\ i + 1 \in 0 .. n
    BY <1>2
  <2> QED BY <2>1
<1>3. 0 .. n \subseteq S
  <2> HIDE DEF S
  <2> QED BY <1>1, <1>2, UpTo
<1>4. \A i \in 0 .. n : f[i] = g[i]
  BY <1>3
<1> QED BY <1>4

\* The functions a recursion up to n defines.
Recursive(f, n, V, first, step) ==
  /\ f \in [0 .. n -> V] /\ f[0] = first
  /\ \A i \in 1 .. n : f[i] = step[i][f[i - 1]]

\* A recursion whose steps stay inside a set has a solution in that set.
LEMMA Recursion ==
  ASSUME NEW n \in Nat, NEW V, NEW first, first \in V, NEW step, step \in [1 .. n -> [V -> V]]
  PROVE  \E f : Recursive(f, n, V, first, step)
<1> DEFINE Solves(f, m) == /\ f \in [0 .. m -> V] /\ f[0] = first
                           /\ \A i \in 1 .. m : f[i] = step[i][f[i - 1]]
           S == {m \in 0 .. n : \E f : Solves(f, m)}
<1>1. 0 \in S
  <2>1. Solves([i \in 0 .. 0 |-> first], 0)
    OBVIOUS
  <2>2. \E f : Solves(f, 0)
    <3> HIDE DEF Solves
    <3> QED BY <2>1
  <2> QED BY <2>2
<1>2. ASSUME NEW m \in 0 .. n - 1, m \in S PROVE m + 1 \in S
  <2>1. PICK f : Solves(f, m)
    BY <1>2
  <2>2. m \in Nat /\ m + 1 \in 1 .. n /\ m \in 0 .. m
    OBVIOUS
  <2>3. f[m] \in V /\ step[m + 1] \in [V -> V]
    BY <2>1, <2>2
  <2>4. step[m + 1][f[m]] \in V
    BY <2>3
  <2> DEFINE g == [i \in 0 .. m + 1 |-> IF i = m + 1 THEN step[m + 1][f[m]] ELSE f[i]]
  <2>5. g \in [0 .. m + 1 -> V]
    BY <2>1, <2>2, <2>4
  <2>6. g[0] = first
    BY <2>1, <2>2
  <2>7. ASSUME NEW i \in 1 .. m + 1 PROVE g[i] = step[i][g[i - 1]]
    <3>1. i - 1 \in 0 .. m /\ i - 1 \in 0 .. m + 1 /\ i \in 0 .. m + 1 /\ i - 1 # m + 1
      BY <2>2
    <3>2. g[i - 1] = f[i - 1]
      BY <3>1
    <3>3. CASE i = m + 1
      BY <3>1, <3>2, <3>3, <2>2
    <3>4. CASE i # m + 1
      <4>1. i \in 1 .. m
        BY <3>4, <2>2
      <4>2. g[i] = f[i] /\ f[i] = step[i][f[i - 1]]
        BY <2>1, <3>1, <3>4, <4>1
      <4> QED BY <4>2, <3>2
    <3> QED BY <3>3, <3>4
  <2>8. Solves(g, m + 1)
    BY <2>5, <2>6, <2>7
  <2>9. \E h : Solves(h, m + 1)
    <3> HIDE DEF Solves, g
    <3> QED BY <2>8
  <2> QED BY <2>2, <2>9
<1>3. 0 .. n \subseteq S
  <2> HIDE DEF S
  <2> QED BY <1>1, <1>2, UpTo
<1>4. PICK f : Solves(f, n)
  BY <1>3
<1> QED BY <1>4 DEF Recursive

-----------------------------------------------------------------------------
(***************************************************************************)
(* Sums over finite sets, as the folds of the community modules define     *)
(* them: an element is chosen, and the sum of the others is added.         *)
(***************************************************************************)
Chosen(s) == CHOOSE x \in s : TRUE

\* f[s] is the sum of g over s, for every subset s of S.
Sums(f, g, S) ==
  f = [s \in SUBSET S |-> IF s = {} THEN 0 ELSE g[Chosen(s)] + f[s \ {Chosen(s)}]]

\* What is left of a finite set once an element is taken is smaller.
LEMMA Smaller ==
  ASSUME NEW s, IsFiniteSet(s), NEW x \in s
  PROVE  /\ IsFiniteSet(s \ {x}) /\ Cardinality(s) \in Nat /\ Cardinality(s \ {x}) \in Nat
         /\ Cardinality(s \ {x}) = Cardinality(s) - 1
         /\ Chosen(s) \in s
BY FS_RemoveElement, FS_CardinalityType DEF Chosen

\* A set of finite sets that holds a set whenever it holds all smaller ones of its
\* kind holds every set of the kind.
LEMMA SmallerFirst ==
  ASSUME NEW S, IsFiniteSet(S), NEW K,
         \A s \in SUBSET S : (\A u \in SUBSET S : Cardinality(u) < Cardinality(s) => u \in K) => s \in K
  PROVE  SUBSET S \subseteq K
<1>1. SUFFICES ASSUME (SUBSET S) \ K # {} PROVE FALSE
  OBVIOUS
<1> DEFINE Sizes == {Cardinality(s) : s \in (SUBSET S) \ K}
<1>2. \A s \in SUBSET S : Cardinality(s) \in Nat
  BY FS_Subset, FS_CardinalityType
<1>3. Sizes \in SUBSET Nat /\ Sizes # {}
  BY <1>1, <1>2
<1>4. PICK c \in Sizes : \A d \in Sizes : c <= d
  <2> HIDE DEF Sizes
  <2> QED BY <1>3, LeastElement
<1>5. PICK s \in (SUBSET S) \ K : c = Cardinality(s)
  BY <1>4
<1>6. \A u \in SUBSET S : Cardinality(u) < Cardinality(s) => u \in K
  <2> SUFFICES ASSUME NEW u \in SUBSET S, Cardinality(u) < Cardinality(s), u \notin K PROVE FALSE
    OBVIOUS
  <2>1. Cardinality(u) \in Sizes
    OBVIOUS
  <2>2. c <= Cardinality(u)
    BY <1>4, <2>1
  <2>3. c \in Nat /\ Cardinality(u) \in Nat
    BY <1>2, <1>5
  <2> QED BY <1>5, <2>2, <2>3
<1> QED BY <1>5, <1>6

\* There are sums.
LEMMA SumsExist ==
  ASSUME NEW S, IsFiniteSet(S), NEW g, \A x \in S : g[x] \in Int
  PROVE  \E f : Sums(f, g, S)
<1> DEFINE Part(f, k) ==
             f = [s \in {s \in SUBSET S : Cardinality(s) <= k} |->
                    IF s = {} THEN 0 ELSE g[Chosen(s)] + f[s \ {Chosen(s)}]]
           N == Cardinality(S)
           K == {k \in 0 .. N : \E f : Part(f, k)}
<1>1. /\ N \in Nat
      /\ \A s \in SUBSET S : IsFiniteSet(s) /\ Cardinality(s) \in Nat /\ Cardinality(s) <= N
      /\ \A s \in SUBSET S : s # {} =>
           /\ Chosen(s) \in s /\ s \ {Chosen(s)} \in SUBSET S
           /\ Cardinality(s \ {Chosen(s)}) = Cardinality(s) - 1
           /\ Cardinality(s) # 0
      /\ Cardinality({}) = 0
  <2>1. /\ N \in Nat
        /\ \A s \in SUBSET S : IsFiniteSet(s) /\ Cardinality(s) \in Nat /\ Cardinality(s) <= N
    BY FS_Subset, FS_CardinalityType
  <2>2. ASSUME NEW s \in SUBSET S, s # {}
        PROVE  /\ Chosen(s) \in s /\ s \ {Chosen(s)} \in SUBSET S
               /\ Cardinality(s \ {Chosen(s)}) = Cardinality(s) - 1
               /\ Cardinality(s) # 0
    <3>1. Chosen(s) \in s
      BY <2>2 DEF Chosen
    <3> QED BY <2>1, <2>2, <3>1, Smaller, FS_EmptySet
  <2> QED BY <2>1, <2>2, FS_EmptySet
<1> HIDE DEF N
<1>2. 0 \in K
  <2> DEFINE f == [s \in {s \in SUBSET S : Cardinality(s) <= 0} |-> 0]
  <2>1. \A s \in SUBSET S : Cardinality(s) <= 0 => s = {}
    <3> SUFFICES ASSUME NEW s \in SUBSET S, Cardinality(s) <= 0, s # {} PROVE FALSE
      OBVIOUS
    <3>1. Cardinality(s) \in Nat /\ Cardinality(s) # 0
      BY <1>1
    <3> QED BY <3>1
  <2>2. Part(f, 0)
    BY <2>1
  <2>3. \E h : Part(h, 0)
    <3> HIDE DEF Part, f
    <3> QED BY <2>2
  <2> HIDE DEF Part
  <2> QED BY <1>1, <2>3
<1>3. ASSUME NEW k \in 0 .. N - 1, k \in K PROVE k + 1 \in K
  <2>1. PICK f : Part(f, k)
    BY <1>3
  <2> DEFINE h == [s \in {s \in SUBSET S : Cardinality(s) <= k + 1} |->
                    IF s = {} THEN 0 ELSE g[Chosen(s)] + f[s \ {Chosen(s)}]]
  <2>2. k \in Nat
    BY <1>1, <1>3
  <2>3. \A s \in SUBSET S : Cardinality(s) <= k => h[s] = f[s]
    <3> SUFFICES ASSUME NEW s \in SUBSET S, Cardinality(s) <= k PROVE h[s] = f[s]
      OBVIOUS
    <3>1. Cardinality(s) <= k + 1
      BY <1>1, <2>2
    <3>2. h[s] = IF s = {} THEN 0 ELSE g[Chosen(s)] + f[s \ {Chosen(s)}]
      BY <3>1
    <3>3. f[s] = IF s = {} THEN 0 ELSE g[Chosen(s)] + f[s \ {Chosen(s)}]
      <4> HIDE DEF h
      <4> QED BY <2>1
    <3> QED BY <3>2, <3>3
  <2>4. \A s \in SUBSET S : Cardinality(s) <= k + 1 /\ s # {} =>
          h[s \ {Chosen(s)}] = f[s \ {Chosen(s)}]
    <3> SUFFICES ASSUME NEW s \in SUBSET S, Cardinality(s) <= k + 1, s # {}
                 PROVE  h[s \ {Chosen(s)}] = f[s \ {Chosen(s)}]
      OBVIOUS
    <3>1. s \ {Chosen(s)} \in SUBSET S /\ Cardinality(s \ {Chosen(s)}) <= k
      BY <1>1, <2>2
    <3> HIDE DEF h
    <3> QED BY <2>3, <3>1
  <2>5. Part(h, k + 1)
    BY <2>4
  <2>6. \E f0 : Part(f0, k + 1)
    <3> HIDE DEF Part, h
    <3> QED BY <2>5
  <2>7. k + 1 \in 0 .. N
    BY <1>1, <2>2
  <2> HIDE DEF Part
  <2> QED BY <2>6, <2>7
<1>4. 0 .. N \subseteq K
  <2> HIDE DEF K
  <2> QED BY <1>1, <1>2, <1>3, UpTo
<1>5. N \in 0 .. N
  BY <1>1
<1>6. PICK f : Part(f, N)
  <2> HIDE DEF Part
  <2> QED BY <1>4, <1>5
<1>7. {s \in SUBSET S : Cardinality(s) <= N} = SUBSET S
  BY <1>1
<1>8. Sums(f, g, S)
  BY <1>6, <1>7 DEF Sums
<1> QED BY <1>8

\* A sum is a whole number, of natural numbers a natural one; it depends on the
\* summands alone; and every summand can be taken out first.
LEMMA SumsTyped ==
  ASSUME NEW S, IsFiniteSet(S), NEW V, V = Int \/ V = Nat, NEW f, NEW g,
         \A x \in S : g[x] \in V, Sums(f, g, S)
  PROVE  \A s \in SUBSET S : f[s] \in V
<1> DEFINE K == {s \in SUBSET S : f[s] \in V}
<1>1. ASSUME NEW s \in SUBSET S, \A u \in SUBSET S : Cardinality(u) < Cardinality(s) => u \in K
      PROVE  s \in K
  <2>1. CASE s = {}
    <3>1. f[s] = 0
      <4> HIDE DEF K
      <4> QED BY <2>1 DEF Sums
    <3>2. 0 \in V
      OBVIOUS
    <3> QED BY <3>1, <3>2
  <2>2. CASE s # {}
    <3> DEFINE x == Chosen(s)
    <3>1. x \in s /\ IsFiniteSet(s)
      BY <2>2, FS_Subset DEF Chosen
    <3>2. Cardinality(s \ {x}) < Cardinality(s)
      BY <3>1, Smaller
    <3>3. f[s \ {x}] \in V /\ g[x] \in V
      BY <1>1, <3>1, <3>2
    <3>4. f[s] = g[x] + f[s \ {x}]
      BY <2>2 DEF Sums
    <3> QED BY <3>3, <3>4
  <2> QED BY <2>1, <2>2
<1>2. SUBSET S \subseteq K
  <2> HIDE DEF K
  <2> QED BY <1>1, SmallerFirst
<1> QED BY <1>2

\* Sums over sets that share a subset agree on it, when what they add does.
LEMMA SumsAgree ==
  ASSUME NEW S, IsFiniteSet(S), NEW f, NEW g, Sums(f, g, S),
         NEW T, NEW h, NEW e, Sums(h, e, T),
         NEW R, R \subseteq S, R \subseteq T, \A x \in R : g[x] = e[x]
  PROVE  f[R] = h[R]
<1> DEFINE K == {s \in SUBSET R : f[s] = h[s]}
<1>0. IsFiniteSet(R)
  BY FS_Subset
<1>1. ASSUME NEW s \in SUBSET R, \A u \in SUBSET R : Cardinality(u) < Cardinality(s) => u \in K
      PROVE  s \in K
  <2>1. CASE s = {}
    BY <2>1 DEF Sums
  <2>2. CASE s # {}
    <3> DEFINE x == Chosen(s)
    <3>1. x \in s /\ IsFiniteSet(s) /\ s \in SUBSET S /\ s \in SUBSET T
      BY <1>0, <2>2, FS_Subset DEF Chosen
    <3>2. Cardinality(s \ {x}) < Cardinality(s)
      BY <3>1, Smaller
    <3>3. f[s \ {x}] = h[s \ {x}] /\ g[x] = e[x]
      BY <1>1, <3>1, <3>2
    <3>4. f[s] = g[x] + f[s \ {x}] /\ h[s] = e[x] + h[s \ {x}]
      BY <2>2, <3>1 DEF Sums
    <3> QED BY <3>3, <3>4
  <2> QED BY <2>1, <2>2
<1>2. SUBSET R \subseteq K
  <2> HIDE DEF K
  <2> QED BY <1>0, <1>1, SmallerFirst
<1> QED BY <1>2

\* Whichever element is taken out, the sum is that element and the rest.
LEMMA SumsStep ==
  ASSUME NEW S, IsFiniteSet(S), NEW f, NEW g, \A x \in S : g[x] \in Int, Sums(f, g, S)
  PROVE  /\ f[{}] = 0
         /\ \A s \in SUBSET S : \A x \in s : f[s] = g[x] + f[s \ {x}]
<1> DEFINE K == {s \in SUBSET S : \A x \in s : f[s] = g[x] + f[s \ {x}]}
<1>0. \A s \in SUBSET S : IsFiniteSet(s) /\ f[s] \in Int
  BY FS_Subset, SumsTyped
<1>1. ASSUME NEW s \in SUBSET S, \A u \in SUBSET S : Cardinality(u) < Cardinality(s) => u \in K
      PROVE  s \in K
  <2> SUFFICES ASSUME NEW x \in s PROVE f[s] = g[x] + f[s \ {x}]
    OBVIOUS
  <2> DEFINE c == Chosen(s)
  <2>1. c \in s /\ f[s] = g[c] + f[s \ {c}]
    BY DEF Chosen, Sums
  <2>2. CASE x = c
    BY <2>1, <2>2
  <2>3. CASE x # c
    <3>1. /\ Cardinality(s \ {x}) < Cardinality(s) /\ Cardinality(s \ {c}) < Cardinality(s)
      <4> HIDE DEF c, K
      <4>1. IsFiniteSet(s) /\ Cardinality(s) \in Nat
        BY <1>0, FS_CardinalityType
      <4>2. Cardinality(s \ {x}) = Cardinality(s) - 1 /\ Cardinality(s \ {c}) = Cardinality(s) - 1
        BY <2>1, <4>1, FS_RemoveElement
      <4> QED BY <4>1, <4>2
    <3>2. s \ {x} \in K /\ s \ {c} \in K
      BY <1>1, <3>1
    <3>3. /\ f[s \ {x}] = g[c] + f[(s \ {x}) \ {c}]
          /\ f[s \ {c}] = g[x] + f[(s \ {c}) \ {x}]
      BY <2>1, <2>3, <3>2
    <3>4. (s \ {x}) \ {c} = (s \ {c}) \ {x}
      OBVIOUS
    <3>5. g[x] \in Int /\ g[c] \in Int /\ f[(s \ {c}) \ {x}] \in Int
      BY <1>0, <2>1
    <3>6. \A a, b, d \in Int : b + (a + d) = a + (b + d)
      OBVIOUS
    <3>7. f[s] = g[c] + (g[x] + f[(s \ {c}) \ {x}])
      BY <2>1, <3>3
    <3>8. g[x] + f[s \ {x}] = g[x] + (g[c] + f[(s \ {c}) \ {x}])
      BY <3>3, <3>4
    <3> QED BY <3>5, <3>6, <3>7, <3>8
  <2> QED BY <2>2, <2>3
<1>2. SUBSET S \subseteq K
  <2> HIDE DEF K
  <2> QED BY <1>1, SmallerFirst
<1>3. f[{}] = 0
  BY DEF Sums
<1> QED BY <1>2, <1>3

\* The functions a recursion from n down defines, whose value at an index of Goes
\* is made of the value at a greater one, and elsewhere given.
Descending(f, n, V, Goes, next, step, base) ==
  /\ f \in [1 .. n -> V]
  /\ \A i \in 1 .. n : f[i] = IF i \in Goes THEN step[i][f[next[i]]] ELSE base[i]

\* Such a recursion has a solution as well.
LEMMA Descent ==
  ASSUME NEW n \in Nat, NEW V, NEW Goes \in SUBSET (1 .. n),
         NEW next, \A i \in Goes : next[i] \in i + 1 .. n,
         NEW step, \A i \in Goes : step[i] \in [V -> V],
         NEW base, \A i \in 1 .. n : i \notin Goes => base[i] \in V
  PROVE  \E f : Descending(f, n, V, Goes, next, step, base)
<1> DEFINE Solves(f, m) ==
             /\ f \in [n - m + 1 .. n -> V]
             /\ \A i \in n - m + 1 .. n : f[i] = IF i \in Goes THEN step[i][f[next[i]]] ELSE base[i]
           S == {m \in 0 .. n : \E f : Solves(f, m)}
<1>1. 0 \in S
  <2>1. n - 0 + 1 .. n = {}
    OBVIOUS
  <2>2. Solves([i \in n - 0 + 1 .. n |-> base[i]], 0)
    BY <2>1
  <2>3. \E f : Solves(f, 0)
    <3> HIDE DEF Solves
    <3> QED BY <2>2
  <2> QED BY <2>3
<1>2. ASSUME NEW m \in 0 .. n - 1, m \in S PROVE m + 1 \in S
  <2>1. PICK f : Solves(f, m)
    BY <1>2
  <2> DEFINE k == n - m
             v == IF k \in Goes THEN step[k][f[next[k]]] ELSE base[k]
             g == [i \in k .. n |-> IF i = k THEN v ELSE f[i]]
  <2>2. k \in 1 .. n /\ k = n - (m + 1) + 1 /\ n - m + 1 = k + 1 /\ m + 1 \in 0 .. n
    OBVIOUS
  <2>3. f \in [k + 1 .. n -> V]
    BY <2>1
  <2>4. v \in V
    <3>1. CASE k \in Goes
      <4>1. next[k] \in k + 1 .. n
        BY <3>1
      <4>2. f[next[k]] \in V
        BY <2>3, <4>1
      <4>3. step[k] \in [V -> V]
        BY <3>1
      <4> QED BY <3>1, <4>2, <4>3
    <3>2. CASE k \notin Goes
      BY <2>2, <3>2
    <3> QED BY <3>1, <3>2
  <2>5. \A i \in k + 1 .. n : f[i] = IF i \in Goes THEN step[i][f[next[i]]] ELSE base[i]
    BY <2>1
  <2> HIDE DEF v
  <2>6. g \in [k .. n -> V]
    <3>1. \A i \in k .. n : i # k => i \in k + 1 .. n
      BY <2>2
    <3> HIDE DEF k
    <3> QED BY <2>3, <2>4, <3>1
  <2>7. ASSUME NEW i \in k .. n
        PROVE  g[i] = IF i \in Goes THEN step[i][g[next[i]]] ELSE base[i]
    <3>1. i \in 1 .. n /\ (i # k => i \in k + 1 .. n)
      BY <2>2
    <3>2. i \in Goes => g[next[i]] = f[next[i]]
      <4>1. i \in Goes => next[i] \in k .. n /\ next[i] # k
        BY <2>2
      <4> QED BY <4>1
    <3>3. CASE i = k
      BY <3>2, <3>3 DEF v
    <3>4. CASE i # k
      BY <2>5, <3>1, <3>2, <3>4
    <3> QED BY <3>3, <3>4
  <2>8. Solves(g, m + 1)
    <3>1. n - (m + 1) + 1 = k
      BY <2>2
    <3> HIDE DEF g, k
    <3> QED BY <2>6, <2>7, <3>1
  <2>9. \E h : Solves(h, m + 1)
    <3> HIDE DEF Solves, g
    <3> QED BY <2>8
  <2> QED BY <2>2, <2>9
<1>3. 0 .. n \subseteq S
  <2> HIDE DEF S
  <2> QED BY <1>1, <1>2, UpTo
<1>4. PICK f : Solves(f, n)
  BY <1>3
<1>5. n - n + 1 = 1
  OBVIOUS
<1> QED BY <1>4, <1>5 DEF Descending

\* Induction from the greatest number down.
LEMMA Downwards ==
  ASSUME NEW n \in Nat, NEW S, \A i \in 1 .. n : (\A j \in i + 1 .. n : j \in S) => i \in S
  PROVE  1 .. n \subseteq S
<1> DEFINE T == {i \in 1 .. n : i \notin S}
<1>1. ASSUME T # {} PROVE FALSE
  <2>1. T \in SUBSET (0 .. n)
    OBVIOUS
  <2>2. PICK x \in T : \A y \in T : y <= x
    BY <1>1, <2>1, GreatestElement
  <2>3. \A j \in x + 1 .. n : j \in S
    BY <2>2
  <2> QED BY <2>2, <2>3
<1> QED BY <1>1

-----------------------------------------------------------------------------

\* An interval has as many elements.
LEMMA Span ==
  ASSUME NEW i \in Nat, NEW j \in Nat, i <= j
  PROVE  IsFiniteSet(i + 1 .. j) /\ Cardinality(i + 1 .. j) = j - i
<1>1. IsFiniteSet(i + 1 .. j)
  BY FS_Interval
<1>2. CASE i = j
  <2>1. i + 1 .. j = {}
    BY <1>2
  <2> QED BY <1>1, <1>2, <2>1, FS_EmptySet
<1>3. CASE i # j
  <2>1. i + 1 \in Int /\ j \in Int /\ ~(i + 1 > j)
    BY <1>3
  <2>2. Cardinality(i + 1 .. j) = IF i + 1 > j THEN 0 ELSE j - (i + 1) + 1
    BY <2>1, FS_Interval
  <2> QED BY <1>1, <2>1, <2>2
<1> QED BY <1>2, <1>3

\* One sequence after another.
LEMMA Joined ==
  ASSUME NEW S, NEW a \in Seq(S), NEW b \in Seq(S)
  PROVE  /\ a \o b \in Seq(S) /\ Len(a \o b) = Len(a) + Len(b)
         /\ \A k \in 1 .. Len(a) : (a \o b)[k] = a[k]
         /\ \A k \in 1 .. Len(b) : (a \o b)[Len(a) + k] = b[k]
<1>1. Len(a) \in Nat /\ Len(b) \in Nat
  BY LenProperties
<1>2. /\ a \o b \in Seq(S) /\ Len(a \o b) = Len(a) + Len(b)
      /\ \A i \in 1 .. Len(a) + Len(b) : (a \o b)[i] = IF i <= Len(a) THEN a[i] ELSE b[i - Len(a)]
  BY ConcatProperties
<1>3. ASSUME NEW k \in 1 .. Len(a) PROVE (a \o b)[k] = a[k]
  BY <1>1, <1>2
<1>4. ASSUME NEW k \in 1 .. Len(b) PROVE (a \o b)[Len(a) + k] = b[k]
  <2>1. PICK i : i = Len(a) + k
    OBVIOUS
  <2>2. i \in 1 .. Len(a) + Len(b) /\ ~(i <= Len(a)) /\ i - Len(a) = k
    BY <1>1, <2>1
  <2>3. (a \o b)[i] = b[i - Len(a)]
    BY <1>2, <2>2
  <2> QED BY <2>1, <2>2, <2>3
<1> QED BY <1>2, <1>3, <1>4

\* The rest of a sequence from a position begins with what stands there.
LEMMA FirstAndRest ==
  ASSUME NEW S, NEW text \in Seq(S), NEW i \in 1 .. Len(text)
  PROVE  SubSeq(text, i, Len(text)) = <<text[i]>> \o SubSeq(text, i + 1, Len(text))
<1> DEFINE a == SubSeq(text, i, Len(text))
           b == SubSeq(text, i + 1, Len(text))
           h == <<text[i]>>
<1>1. Len(text) \in Nat /\ text[i] \in S /\ h \in Seq(S) /\ Len(h) = 1 /\ h[1] = text[i]
  BY LenProperties, ElementOfSeq
<1>2. /\ a \in Seq(S) /\ Len(a) = Len(text) - i + 1
      /\ \A k \in 1 .. Len(text) - i + 1 : a[k] = text[i + k - 1]
  BY <1>1
<1>3. /\ b \in Seq(S) /\ Len(b) = Len(text) - i
      /\ \A k \in 1 .. Len(text) - i : b[k] = text[i + k]
  BY <1>1
<1> HIDE DEF a, b, h
<1>4. /\ h \o b \in Seq(S) /\ Len(h \o b) = Len(h) + Len(b)
      /\ \A k \in 1 .. Len(h) + Len(b) : (h \o b)[k] = IF k <= Len(h) THEN h[k] ELSE b[k - Len(h)]
  BY <1>1, <1>3, ConcatProperties
<1>5. Len(a) = Len(h \o b)
  BY <1>1, <1>2, <1>3, <1>4
<1>6. ASSUME NEW k \in 1 .. Len(a) PROVE a[k] = (h \o b)[k]
  <2>1. CASE k = 1
    BY <1>1, <1>2, <1>3, <1>4, <2>1
  <2>2. CASE k # 1
    <3>1. k - 1 \in 1 .. Len(text) - i /\ k \in 1 .. Len(h) + Len(b) /\ ~(k <= Len(h))
      BY <1>1, <1>2, <1>3, <2>2
    <3>2. (h \o b)[k] = b[k - 1] /\ b[k - 1] = text[i + (k - 1)]
      BY <1>1, <1>3, <1>4, <3>1
    <3> QED BY <1>1, <1>2, <3>1, <3>2
  <2> QED BY <2>1, <2>2
<1>7. a = h \o b
  BY <1>2, <1>4, <1>5, <1>6, SeqEqual
<1> QED BY <1>7 DEF a, b, h

=============================================================================
