----------------------------- MODULE SeriesProofs -----------------------------
(***************************************************************************)
(* What the proofs about amounts keep needing: induction over a set of      *)
(* numbers, sums of the values of a function over a finite set, what a fold *)
(* over a sequence iterates, and the order Chronology puts ids in.          *)
(***************************************************************************)
EXTENDS Chronology, SequencesExt, FiniteSetTheorems, WellFoundedInduction, TLAPS

-----------------------------------------------------------------------------
(* Induction over the naturals, on a set of numbers *)

LessThan == {ss \in Nat \X Nat : ss[1] < ss[2]}

LEMMA LeastOf ==
  ASSUME NEW T, T \subseteq Nat, T # {}
  PROVE  \E x \in T : \A y \in T : x <= y
<1>1. IsWellFoundedOn(LessThan, Nat)
  BY NatLessThanWellFounded, Zenon DEF OpToRel, LessThan
<1>2. PICK x \in T : \A y \in T : ~(<<y, x>> \in LessThan)
  BY <1>1, WFMin
<1>3. ASSUME NEW y \in T PROVE x <= y
  <2>1. y \in Nat /\ x \in Nat
    OBVIOUS
  <2>2. y < x => <<y, x>> \in LessThan
    BY <2>1 DEF LessThan
  <2> QED BY <1>2, <2>1, <2>2
<1> QED BY <1>3

LEMMA Inductive ==
  ASSUME NEW T, 0 \in T, \A n, m \in Nat : n \in T /\ m = n + 1 => m \in T
  PROVE  Nat \subseteq T
<1> DEFINE Missed == Nat \ T
<1>1. SUFFICES ASSUME Missed # {} PROVE FALSE
  OBVIOUS
<1>2. PICK n \in Missed : \A m \in Missed : n <= m
  <2> Missed \subseteq Nat OBVIOUS
  <2> HIDE DEF Missed
  <2> QED BY <1>1, LeastOf
<1>3. n # 0 /\ n - 1 \in Nat /\ n - 1 \notin Missed /\ n = (n - 1) + 1
  BY <1>2
<1> QED BY <1>2, <1>3

-----------------------------------------------------------------------------
(* Sums *)

\* g is what FoldFunctionOnSet iterates to add up f over subsets of S.
Rest(s) == s \ {CHOOSE x \in s : TRUE}
First(s) == CHOOSE x \in s : TRUE
Sums(g, f, S) == g = [s \in SUBSET S |-> IF s = {} THEN 0 ELSE f[First(s)] + g[Rest(s)]]

LEMMA SumIs == ASSUME NEW f PROVE SumFunction(f) = (CHOOSE g : Sums(g, f, DOMAIN f))[DOMAIN f]
BY DEF SumFunction, SumFunctionOnSet, FoldFunctionOnSet, MapThenFoldSet, Sums, First, Rest

LEMMA RestOf ==
  ASSUME NEW s, IsFiniteSet(s), s # {}
  PROVE  /\ First(s) \in s /\ Rest(s) = s \ {First(s)} /\ Rest(s) \subseteq s
         /\ IsFiniteSet(Rest(s)) /\ Cardinality(s) \in Nat \ {0}
         /\ Cardinality(Rest(s)) = Cardinality(s) - 1
<1>1. First(s) \in s
  BY DEF First
<1>2. Rest(s) = s \ {First(s)}
  BY DEF Rest, First
<1>3. IsFiniteSet(s \ {First(s)}) /\ Cardinality(s \ {First(s)}) = Cardinality(s) - 1
  BY <1>1, FS_RemoveElement
<1>4. Cardinality(s) \in Nat /\ Cardinality(s) # 0
  BY FS_CardinalityType, FS_EmptySet
<1> QED BY <1>1, <1>2, <1>3, <1>4

Upto(D, n) == {s \in SUBSET D : Cardinality(s) <= n}
Partial(g, f, D, n) ==
  g = [s \in Upto(D, n) |-> IF s = {} THEN 0 ELSE f[First(s)] + g[Rest(s)]]

LEMMA SumsExist == ASSUME NEW f, NEW D, IsFiniteSet(D) PROVE \E g : Sums(g, f, D)
<1> DEFINE T == {n \in Nat : \E g : Partial(g, f, D, n)}
<1>0. \A s \in SUBSET D : IsFiniteSet(s) /\ Cardinality(s) \in Nat /\ Cardinality(s) <= Cardinality(D)
  BY FS_Subset, FS_CardinalityType
<1>1. 0 \in T
  <2> DEFINE g == [s \in Upto(D, 0) |-> 0]
  <2>1. \A s \in Upto(D, 0) : s = {}
    BY <1>0, FS_EmptySet DEF Upto
  <2>2. Partial(g, f, D, 0)
    BY <2>1 DEF Partial
  <2> QED BY <2>2
<1>2. ASSUME NEW n \in Nat, NEW m \in Nat, n \in T, m = n + 1 PROVE m \in T
  <2>1. PICK g : Partial(g, f, D, n)
    BY <1>2
  <2> DEFINE h == [s \in Upto(D, m) |-> IF s = {} THEN 0 ELSE f[First(s)] + g[Rest(s)]]
  <2>2. ASSUME NEW s \in Upto(D, m), s # {}
        PROVE  g[Rest(s)] = h[Rest(s)]
    <3>1. Rest(s) \in Upto(D, n) /\ Rest(s) \in Upto(D, m)
      BY <1>0, <1>2, <2>2, RestOf DEF Upto
    <3>2. g[Rest(s)] = IF Rest(s) = {} THEN 0 ELSE f[First(Rest(s))] + g[Rest(Rest(s))]
      BY <2>1, <3>1 DEF Partial
    <3> QED BY <3>1, <3>2
  <2>3. Partial(h, f, D, m)
    BY <2>2 DEF Partial
  <2> QED BY <2>3
<1>3. Nat \subseteq T
  <2> HIDE DEF T
  <2> QED BY <1>1, <1>2, Inductive
<1>4. PICK g : Partial(g, f, D, Cardinality(D))
  BY <1>3, FS_CardinalityType
<1>5. Upto(D, Cardinality(D)) = SUBSET D
  BY <1>0 DEF Upto
<1> QED BY <1>4, <1>5 DEF Partial, Sums

LEMMA SumsStep ==
  ASSUME NEW f, NEW D, NEW g, Sums(g, f, D), NEW s \in SUBSET D
  PROVE  g[s] = IF s = {} THEN 0 ELSE f[First(s)] + g[Rest(s)]
BY DEF Sums

LEMMA SumsType ==
  ASSUME NEW D, IsFiniteSet(D), NEW f, \A x \in D : f[x] \in Int, NEW g, Sums(g, f, D)
  PROVE  \A s \in SUBSET D : g[s] \in Int
<1> DEFINE T == {n \in Nat : \A s \in SUBSET D : Cardinality(s) = n => g[s] \in Int}
<1>0. \A s \in SUBSET D : IsFiniteSet(s) /\ Cardinality(s) \in Nat
  BY FS_Subset, FS_CardinalityType
<1>1. 0 \in T
  BY <1>0, FS_EmptySet, SumsStep
<1>2. ASSUME NEW n \in Nat, NEW m \in Nat, n \in T, m = n + 1 PROVE m \in T
  <2>1. SUFFICES ASSUME NEW s \in SUBSET D, Cardinality(s) = m PROVE g[s] \in Int
    OBVIOUS
  <2>2. s # {}
    BY <1>2, <2>1, FS_EmptySet
  <2>3. First(s) \in D /\ Rest(s) \in SUBSET D /\ Cardinality(Rest(s)) = n
    BY <1>0, <1>2, <2>1, <2>2, RestOf
  <2>4. g[s] = f[First(s)] + g[Rest(s)] /\ g[Rest(s)] \in Int /\ f[First(s)] \in Int
    BY <1>2, <2>2, <2>3, SumsStep
  <2> QED BY <2>4
<1>3. Nat \subseteq T
  <2> HIDE DEF T
  <2> QED BY <1>1, <1>2, Inductive
<1> QED BY <1>0, <1>3

\* Whichever element is taken first.
LEMMA SumsAny ==
  ASSUME NEW D, IsFiniteSet(D), NEW f, \A x \in D : f[x] \in Int, NEW g, Sums(g, f, D)
  PROVE  \A s \in SUBSET D : \A x \in s : \A t : t = s \ {x} => g[s] = f[x] + g[t]
<1> DEFINE T == {n \in Nat : \A s \in SUBSET D : Cardinality(s) = n =>
                               \A x \in s : g[s] = f[x] + g[s \ {x}]}
<1>0. \A s \in SUBSET D : IsFiniteSet(s) /\ Cardinality(s) \in Nat /\ g[s] \in Int
  BY FS_Subset, FS_CardinalityType, SumsType
<1>1. 0 \in T
  BY <1>0, FS_EmptySet
<1>2. ASSUME NEW n \in Nat, NEW m \in Nat, n \in T, m = n + 1 PROVE m \in T
  <2>1. SUFFICES ASSUME NEW s \in SUBSET D, Cardinality(s) = m, NEW x \in s
                 PROVE  g[s] = f[x] + g[s \ {x}]
    OBVIOUS
  <2>2. PICK c : c = First(s)
    OBVIOUS
  <2>3. /\ c \in s /\ Rest(s) = s \ {c} /\ Cardinality(s \ {c}) = n
        /\ g[s] = f[c] + g[s \ {c}]
    <3>1. s # {} /\ IsFiniteSet(s)
      BY <1>0, <2>1
    <3>2. c \in s /\ Rest(s) = s \ {c} /\ Cardinality(Rest(s)) = n
      BY <1>2, <2>1, <2>2, <3>1, RestOf
    <3>3. g[s] = f[c] + g[Rest(s)]
      BY <2>2, <3>1, SumsStep
    <3> QED BY <3>2, <3>3
  <2>4. CASE x = c
    BY <2>3, <2>4
  <2>5. CASE x # c
    <3>1. x \in s \ {c} /\ c \in s \ {x} /\ Cardinality(s \ {x}) = n
      BY <1>0, <1>2, <2>1, <2>3, <2>5, FS_RemoveElement
    <3>2. g[s \ {c}] = f[x] + g[(s \ {c}) \ {x}]
      BY <1>2, <2>3, <3>1
    <3>3. g[s \ {x}] = f[c] + g[(s \ {x}) \ {c}]
      BY <1>2, <3>1
    <3>4. (s \ {c}) \ {x} = (s \ {x}) \ {c}
      OBVIOUS
    <3>5. f[x] \in Int /\ f[c] \in Int /\ g[(s \ {x}) \ {c}] \in Int
      BY <1>0, <2>3
    <3>6. PICK r : r = g[(s \ {x}) \ {c}]
      OBVIOUS
    <3>7. g[s] = f[c] + (f[x] + r) /\ g[s \ {x}] = f[c] + r
      BY <2>3, <3>2, <3>3, <3>4, <3>6, Zenon
    <3> QED BY <3>5, <3>6, <3>7
  <2> QED BY <2>4, <2>5
<1>3. Nat \subseteq T
  <2> HIDE DEF T
  <2> QED BY <1>1, <1>2, Inductive
<1> QED BY <1>0, <1>3

LEMMA SumsAgree ==
  ASSUME NEW D, IsFiniteSet(D), NEW E \in SUBSET D, NEW f, NEW h, \A x \in E : f[x] = h[x],
         NEW g, Sums(g, f, D), NEW k, Sums(k, h, E)
  PROVE  \A s \in SUBSET E : g[s] = k[s]
<1> DEFINE T == {n \in Nat : \A s \in SUBSET E : Cardinality(s) = n => g[s] = k[s]}
<1>0. \A s \in SUBSET E : IsFiniteSet(s) /\ Cardinality(s) \in Nat /\ s \in SUBSET D
  BY FS_Subset, FS_CardinalityType
<1>1. 0 \in T
  <2>1. g[{}] = 0 /\ k[{}] = 0
    BY SumsStep
  <2> QED BY <1>0, <2>1, FS_EmptySet
<1>2. ASSUME NEW n \in Nat, NEW m \in Nat, n \in T, m = n + 1 PROVE m \in T
  <2>1. SUFFICES ASSUME NEW s \in SUBSET E, Cardinality(s) = m PROVE g[s] = k[s]
    OBVIOUS
  <2>2. s # {}
    BY <1>2, <2>1, FS_EmptySet
  <2>3. First(s) \in E /\ Rest(s) \in SUBSET E /\ Cardinality(Rest(s)) = n
    BY <1>0, <1>2, <2>1, <2>2, RestOf
  <2>4. g[s] = f[First(s)] + g[Rest(s)]
    BY <1>0, <2>2, SumsStep
  <2>5. k[s] = h[First(s)] + k[Rest(s)]
    BY <2>2, SumsStep
  <2> QED BY <1>2, <2>3, <2>4, <2>5
<1>3. Nat \subseteq T
  <2> HIDE DEF T
  <2> QED BY <1>1, <1>2, Inductive
<1> QED BY <1>0, <1>3

LEMMA SumBy ==
  ASSUME NEW D, IsFiniteSet(D), NEW f, DOMAIN f = D
  PROVE  \E g : Sums(g, f, D) /\ SumFunction(f) = g[D]
<1> DEFINE g == CHOOSE g : Sums(g, f, D)
<1>1. Sums(g, f, D)
  BY SumsExist, Zenon
<1>2. SumFunction(f) = g[D]
  BY SumIs, Zenon
<1> HIDE DEF g
<1> QED BY <1>1, <1>2

LEMMA SumType ==
  ASSUME NEW D, IsFiniteSet(D), NEW f \in [D -> Int]
  PROVE  SumFunction(f) \in Int
<1>1. PICK g : Sums(g, f, D) /\ SumFunction(f) = g[D]
  BY SumBy
<1>2. \A x \in D : f[x] \in Int
  OBVIOUS
<1>3. g[D] \in Int
  BY <1>1, <1>2, SumsType
<1> QED BY <1>1, <1>3

LEMMA SumEmpty == ASSUME NEW f, DOMAIN f = {} PROVE SumFunction(f) = 0
<1>1. PICK g : Sums(g, f, {}) /\ SumFunction(f) = g[{}]
  BY SumBy, FS_EmptySet
<1>2. g[{}] = 0
  BY <1>1, SumsStep
<1> QED BY <1>1, <1>2

\* S is D without x.
Without(S, D, x) == S = D \ {x}

LEMMA SumSplit ==
  ASSUME NEW D, IsFiniteSet(D), NEW f \in [D -> Int], NEW x \in D,
         NEW E, Without(E, D, x), NEW h \in [E -> Int], \A y \in E : h[y] = f[y]
  PROVE  SumFunction(f) = f[x] + SumFunction(h)
<1>0. E = D \ {x}
  BY DEF Without
<1>1. PICK g : Sums(g, f, D) /\ SumFunction(f) = g[D]
  BY SumBy
<1>2. IsFiniteSet(E) /\ E \in SUBSET D
  BY <1>0, FS_Subset
<1>3. PICK k : Sums(k, h, E) /\ SumFunction(h) = k[E]
  BY <1>2, SumBy
<1>4. g[D] = f[x] + g[E]
  <2>1. \A y \in D : f[y] \in Int
    OBVIOUS
  <2>2. \A s \in SUBSET D : \A y \in s : \A t : t = s \ {y} => g[s] = f[y] + g[t]
    BY <1>1, <2>1, SumsAny
  <2>3. D \in SUBSET D
    OBVIOUS
  <2> QED BY <1>0, <2>2, <2>3
<1>5. g[E] = k[E]
  <2>1. \A y \in E : f[y] = h[y]
    OBVIOUS
  <2>2. \A s \in SUBSET E : g[s] = k[s]
    BY SMTT(60), <1>1, <1>2, <1>3, <2>1, SumsAgree
  <2> QED BY <2>2
<1> QED BY <1>1, <1>3, <1>4, <1>5

LEMMA SumCut ==
  ASSUME NEW D, IsFiniteSet(D), NEW f \in [D -> Int], NEW x \in D, NEW S, Without(S, D, x)
  PROVE  \E h \in [S -> Int] :
           /\ \A y \in S : h[y] = f[y]
           /\ SumFunction(f) = f[x] + SumFunction(h)
           /\ SumFunction(h) \in Int
<1>1. PICK h : h = [y \in S |-> f[y]]
  OBVIOUS
<1>0. S \subseteq D
  BY DEF Without
<1>2. h \in [S -> Int] /\ \A y \in S : h[y] = f[y]
  BY <1>0, <1>1
<1>3. SumFunction(f) = f[x] + SumFunction(h)
  BY <1>2, SumSplit
<1>4. IsFiniteSet(S)
  BY FS_Subset DEF Without
<1>5. SumFunction(h) \in Int
  BY <1>2, <1>4, SumType
<1> QED BY <1>2, <1>3, <1>5

LEMMA SumMonotone ==
  ASSUME NEW D, IsFiniteSet(D), NEW f \in [D -> Int], NEW h \in [D -> Int],
         \A x \in D : f[x] <= h[x]
  PROVE  SumFunction(f) <= SumFunction(h)
<1> DEFINE T == {n \in Nat : \A E \in SUBSET D : Cardinality(E) = n =>
                   \A a, b \in [E -> Int] : (\A x \in E : a[x] <= b[x])
                                            => SumFunction(a) <= SumFunction(b)}
<1>0. \A E \in SUBSET D : IsFiniteSet(E) /\ Cardinality(E) \in Nat
  BY FS_Subset, FS_CardinalityType
<1>1. 0 \in T
  <2>1. SUFFICES ASSUME NEW E \in SUBSET D, Cardinality(E) = 0, NEW a \in [E -> Int], NEW b \in [E -> Int]
                 PROVE  SumFunction(a) <= SumFunction(b)
    OBVIOUS
  <2>2. E = {}
    BY <1>0, <2>1, FS_EmptySet
  <2>3. SumFunction(a) = 0 /\ SumFunction(b) = 0
    BY <2>2, SumEmpty
  <2> QED BY <2>3
<1>2. ASSUME NEW n \in Nat, NEW m \in Nat, n \in T, m = n + 1 PROVE m \in T
  <2>1. SUFFICES ASSUME NEW E \in SUBSET D, Cardinality(E) = m, NEW a \in [E -> Int], NEW b \in [E -> Int],
                        \A x \in E : a[x] <= b[x]
                 PROVE  SumFunction(a) <= SumFunction(b)
    OBVIOUS
  <2>2. PICK x \in E : TRUE
    <3>1. m # 0
      <4> HIDE DEF T
      <4> QED BY <1>2
    <3>2. E # {}
      BY <2>1, <3>1, FS_EmptySet
    <3> QED BY <3>2
  <2>3. PICK S : S = E \ {x}
    OBVIOUS
  <2>4. S \in SUBSET D /\ Cardinality(S) = n
    <3>1. IsFiniteSet(E)
      BY <1>0
    <3>2. Cardinality(S) = Cardinality(E) - 1
      BY <2>3, <3>1, FS_RemoveElement
    <3>3. Cardinality(S) = n
      BY <1>2, <2>1, <3>2
    <3> QED BY <2>3, <3>3
  <2>5. IsFiniteSet(E) /\ Without(S, E, x) /\ S \subseteq E
    BY <1>0, <2>3 DEF Without
  <2>6. PICK a2 \in [S -> Int] : /\ \A y \in S : a2[y] = a[y]
                                 /\ SumFunction(a) = a[x] + SumFunction(a2)
                                 /\ SumFunction(a2) \in Int
    BY <2>2, <2>5, SumCut
  <2>7. PICK b2 \in [S -> Int] : /\ \A y \in S : b2[y] = b[y]
                                 /\ SumFunction(b) = b[x] + SumFunction(b2)
                                 /\ SumFunction(b2) \in Int
    BY <2>2, <2>5, SumCut
  <2>8. \A y \in S : a2[y] <= b2[y]
    BY <2>1, <2>5, <2>6, <2>7
  <2>9. SumFunction(a2) <= SumFunction(b2)
    BY <1>2, <2>4, <2>8
  <2>10. a[x] <= b[x] /\ a[x] \in Int /\ b[x] \in Int
    BY <2>1, <2>2
  <2> QED BY <2>6, <2>7, <2>9, <2>10
<1>3. Nat \subseteq T
  <2> HIDE DEF T
  <2> QED BY <1>1, <1>2, Inductive
<1>4. Cardinality(D) \in T
  <2> HIDE DEF T
  <2> QED BY <1>0, <1>3
<1> QED BY <1>4

LEMMA SumPlus ==
  ASSUME NEW D, IsFiniteSet(D), NEW f \in [D -> Int], NEW h \in [D -> Int],
         NEW k \in [D -> Int], \A x \in D : k[x] = f[x] + h[x]
  PROVE  SumFunction(k) = SumFunction(f) + SumFunction(h)
<1> DEFINE T == {n \in Nat : \A E \in SUBSET D : Cardinality(E) = n =>
                   \A a, b, c \in [E -> Int] :
                     (\A x \in E : c[x] = a[x] + b[x])
                     => SumFunction(c) = SumFunction(a) + SumFunction(b)}
<1>0. \A E \in SUBSET D : IsFiniteSet(E) /\ Cardinality(E) \in Nat
  BY FS_Subset, FS_CardinalityType
<1>1. 0 \in T
  <2>1. SUFFICES ASSUME NEW E \in SUBSET D, Cardinality(E) = 0, NEW a \in [E -> Int],
                        NEW b \in [E -> Int], NEW c \in [E -> Int]
                 PROVE  SumFunction(c) = SumFunction(a) + SumFunction(b)
    OBVIOUS
  <2>2. E = {}
    BY <1>0, <2>1, FS_EmptySet
  <2>3. SumFunction(a) = 0 /\ SumFunction(b) = 0 /\ SumFunction(c) = 0
    BY <2>2, SumEmpty
  <2> QED BY <2>3
<1>2. ASSUME NEW n \in Nat, NEW m \in Nat, n \in T, m = n + 1 PROVE m \in T
  <2>1. SUFFICES ASSUME NEW E \in SUBSET D, Cardinality(E) = m, NEW a \in [E -> Int],
                        NEW b \in [E -> Int], NEW c \in [E -> Int],
                        \A x \in E : c[x] = a[x] + b[x]
                 PROVE  SumFunction(c) = SumFunction(a) + SumFunction(b)
    OBVIOUS
  <2>2. PICK x \in E : TRUE
    <3>1. m # 0
      <4> HIDE DEF T
      <4> QED BY <1>2
    <3>2. E # {}
      BY <2>1, <3>1, FS_EmptySet
    <3> QED BY <3>2
  <2>3. PICK S : S = E \ {x}
    OBVIOUS
  <2>4. S \in SUBSET D /\ Cardinality(S) = n
    <3>1. IsFiniteSet(E)
      BY <1>0
    <3>2. Cardinality(S) = Cardinality(E) - 1
      BY <2>3, <3>1, FS_RemoveElement
    <3>3. Cardinality(S) = n
      BY <1>2, <2>1, <3>2
    <3> QED BY <2>3, <3>3
  <2>5. IsFiniteSet(E) /\ Without(S, E, x) /\ S \subseteq E
    BY <1>0, <2>3 DEF Without
  <2>6. PICK a2 \in [S -> Int] : /\ \A y \in S : a2[y] = a[y]
                                 /\ SumFunction(a) = a[x] + SumFunction(a2)
                                 /\ SumFunction(a2) \in Int
    BY <2>2, <2>5, SumCut
  <2>7. PICK b2 \in [S -> Int] : /\ \A y \in S : b2[y] = b[y]
                                 /\ SumFunction(b) = b[x] + SumFunction(b2)
                                 /\ SumFunction(b2) \in Int
    BY SMTT(60), <2>2, <2>5, SumCut
  <2>8. PICK c2 \in [S -> Int] : /\ \A y \in S : c2[y] = c[y]
                                 /\ SumFunction(c) = c[x] + SumFunction(c2)
                                 /\ SumFunction(c2) \in Int
    BY <2>2, <2>5, SumCut
  <2>9. \A y \in S : c2[y] = a2[y] + b2[y]
    BY <2>1, <2>5, <2>6, <2>7, <2>8
  <2>10. SumFunction(c2) = SumFunction(a2) + SumFunction(b2)
    BY <1>2, <2>4, <2>9
  <2>11. c[x] = a[x] + b[x] /\ a[x] \in Int /\ b[x] \in Int
    BY <2>1, <2>2
  <2> QED BY <2>6, <2>7, <2>8, <2>10, <2>11
<1>3. Nat \subseteq T
  <2> HIDE DEF T
  <2> QED BY <1>1, <1>2, Inductive
<1>4. Cardinality(D) \in T
  <2> HIDE DEF T
  <2> QED BY <1>0, <1>3
<1> QED BY <1>4

LEMMA SumZero ==
  ASSUME NEW D, IsFiniteSet(D), NEW f \in [D -> Int], \A x \in D : f[x] = 0
  PROVE  SumFunction(f) = 0
<1>1. SumFunction(f) = SumFunction(f) + SumFunction(f)
  BY SumPlus
<1> QED BY <1>1, SumType

LEMMA SumNat ==
  ASSUME NEW D, IsFiniteSet(D), NEW f \in [D -> Nat]
  PROVE  SumFunction(f) \in Nat
<1> DEFINE z == [x \in D |-> 0]
<1>1. z \in [D -> Int] /\ \A x \in D : z[x] = 0 /\ z[x] <= f[x]
  OBVIOUS
<1> HIDE DEF z
<1>2. f \in [D -> Int]
  OBVIOUS
<1>3. SumFunction(z) = 0 /\ SumFunction(z) <= SumFunction(f) /\ SumFunction(f) \in Int
  BY <1>1, <1>2, SumZero, SumMonotone, SumType
<1> QED BY <1>3

\* No term is more than the sum.
LEMMA SumTerm ==
  ASSUME NEW D, IsFiniteSet(D), NEW f \in [D -> Nat], NEW x \in D
  PROVE  f[x] <= SumFunction(f)
<1>1. PICK E : Without(E, D, x)
  BY DEF Without
<1>2. PICK h : h = [y \in E |-> f[y]]
  OBVIOUS
<1>3. /\ h \in [E -> Nat] /\ h \in [E -> Int] /\ f \in [D -> Int] /\ \A y \in E : h[y] = f[y]
      /\ IsFiniteSet(E)
  BY <1>1, <1>2, FS_Subset DEF Without
<1>4. SumFunction(f) = f[x] + SumFunction(h)
  BY <1>1, <1>3, SumSplit
<1>5. SumFunction(h) \in Nat /\ f[x] \in Nat
  BY <1>3, SumNat
<1> QED BY <1>4, <1>5

\* What adds nothing may be left out.
LEMMA SumPad ==
  ASSUME NEW D, IsFiniteSet(D), NEW E \in SUBSET D, NEW f \in [D -> Int], NEW h \in [E -> Int],
         \A x \in E : f[x] = h[x], \A x \in D \ E : f[x] = 0
  PROVE  SumFunction(f) = SumFunction(h)
<1> DEFINE T == {n \in Nat : \A S \in SUBSET (D \ E) : Cardinality(S) = n =>
                   \A a \in [E \cup S -> Int] :
                     (\A x \in E : a[x] = h[x]) /\ (\A x \in S : a[x] = 0)
                     => SumFunction(a) = SumFunction(h)}
<1>0. \A S \in SUBSET D : IsFiniteSet(S) /\ Cardinality(S) \in Nat
  BY FS_Subset, FS_CardinalityType
<1>1. 0 \in T
  <2>1. SUFFICES ASSUME NEW S \in SUBSET (D \ E), Cardinality(S) = 0, NEW a \in [E \cup S -> Int],
                        \A x \in E : a[x] = h[x]
                 PROVE  SumFunction(a) = SumFunction(h)
    OBVIOUS
  <2>2. S = {}
    BY <1>0, <2>1, FS_EmptySet
  <2>3. a = h
    BY <2>1, <2>2
  <2> QED BY <2>3
<1>2. ASSUME NEW n \in Nat, NEW m \in Nat, n \in T, m = n + 1 PROVE m \in T
  <2>1. SUFFICES ASSUME NEW S \in SUBSET (D \ E), Cardinality(S) = m, NEW a \in [E \cup S -> Int],
                        \A x \in E : a[x] = h[x], \A x \in S : a[x] = 0
                 PROVE  SumFunction(a) = SumFunction(h)
    OBVIOUS
  <2>2. PICK x \in S : TRUE
    <3>1. m # 0
      <4> HIDE DEF T
      <4> QED BY <1>2
    <3>2. S # {}
      BY <2>1, <3>1, FS_EmptySet
    <3> QED BY <3>2
  <2>3. PICK R : R = S \ {x}
    OBVIOUS
  <2>4. R \in SUBSET (D \ E) /\ Cardinality(R) = n
    <3>1. R \in SUBSET (D \ E) /\ S \in SUBSET D
      BY <2>3
    <3>2. IsFiniteSet(S)
      BY <1>0, <3>1
    <3>3. Cardinality(R) = Cardinality(S) - 1
      BY <2>2, <2>3, <3>2, FS_RemoveElement
    <3> HIDE DEF T
    <3> QED BY <1>2, <2>1, <3>1, <3>3
  <2>5. PICK b : b = [y \in E \cup R |-> a[y]]
    OBVIOUS
  <2>6. /\ b \in [E \cup R -> Int] /\ (\A y \in E \cup R : b[y] = a[y])
        /\ Without(E \cup R, E \cup S, x) /\ x \in E \cup S
    BY <2>1, <2>2, <2>3, <2>5 DEF Without
  <2>7. IsFiniteSet(E \cup S)
    BY <1>0
  <2>8. SumFunction(a) = a[x] + SumFunction(b)
    BY <2>6, <2>7, SumSplit
  <2>9. SumFunction(b) = SumFunction(h)
    BY <1>2, <2>1, <2>3, <2>4, <2>6
  <2>10. SumFunction(h) \in Int /\ a[x] = 0
    BY <1>0, <2>1, <2>2, SumType
  <2> QED BY <2>8, <2>9, <2>10
<1>3. Nat \subseteq T
  <2> HIDE DEF T
  <2> QED BY <1>1, <1>2, Inductive
<1>4. Cardinality(D \ E) \in T
  <2> HIDE DEF T
  <2> QED BY <1>0, <1>3
<1>5. E \cup (D \ E) = D
  OBVIOUS
<1> QED BY <1>4, <1>5

DiffersAt(h, f, D, x) == \A y \in D : y # x => h[y] = f[y]

LEMMA SumExcept ==
  ASSUME NEW D, IsFiniteSet(D), NEW f \in [D -> Int], NEW x \in D,
         NEW h \in [D -> Int], DiffersAt(h, f, D, x)
  PROVE  SumFunction(h) = SumFunction(f) - f[x] + h[x]
<1>1. PICK S : Without(S, D, x)
  BY DEF Without
<1>2. PICK k \in [S -> Int] : /\ \A y \in S : k[y] = f[y]
                             /\ SumFunction(f) = f[x] + SumFunction(k)
                             /\ SumFunction(k) \in Int
  BY <1>1, SumCut
<1>3. \A y \in S : k[y] = h[y]
  BY <1>1, <1>2 DEF Without, DiffersAt
<1>4. SumFunction(h) = h[x] + SumFunction(k)
  BY <1>1, <1>3, SumSplit
<1>5. f[x] \in Int /\ h[x] \in Int
  OBVIOUS
<1> QED BY <1>2, <1>4, <1>5

\* A sum over a part is no more than the whole.
LEMMA SumPart ==
  ASSUME NEW D, IsFiniteSet(D), NEW E \in SUBSET D, NEW f \in [D -> Nat], NEW h \in [E -> Nat],
         \A x \in E : h[x] = f[x]
  PROVE  SumFunction(h) <= SumFunction(f)
<1>1. PICK p : p = [x \in D |-> IF x \in E THEN f[x] ELSE 0]
  OBVIOUS
<1>2. /\ p \in [D -> Int] /\ f \in [D -> Int] /\ h \in [E -> Int]
      /\ \A x \in D : p[x] <= f[x]
      /\ \A x \in E : p[x] = h[x]
      /\ \A x \in D \ E : p[x] = 0
  BY <1>1
<1>3. SumFunction(p) <= SumFunction(f)
  BY <1>2, SumMonotone
<1>4. SumFunction(p) = SumFunction(h)
  BY <1>2, SumPad
<1> QED BY <1>3, <1>4

\* p gives every element of D one of its own in E.
Pairs(p, D, E) ==
  /\ p \in [D -> E]
  /\ \A x, y \in D : p[x] = p[y] => x = y
  /\ \A z \in E : \E x \in D : p[x] = z

\* The order and the names of the terms are nothing to a sum.
LEMMA SumReindex ==
  ASSUME NEW D, IsFiniteSet(D), NEW E, NEW p, Pairs(p, D, E),
         NEW h \in [D -> Int], NEW f \in [E -> Int], \A x \in D : h[x] = f[p[x]]
  PROVE  SumFunction(h) = SumFunction(f)
<1> DEFINE T == {n \in Nat : \A A \in SUBSET D, B \in SUBSET E :
                   \A q, a, b : /\ Cardinality(A) = n /\ Pairs(q, A, B)
                                /\ a \in [A -> Int] /\ b \in [B -> Int]
                                /\ \A x \in A : a[x] = b[q[x]]
                                => SumFunction(a) = SumFunction(b)}
<1>0. \A A \in SUBSET D : IsFiniteSet(A) /\ Cardinality(A) \in Nat
  BY FS_Subset, FS_CardinalityType
<1>1. 0 \in T
  <2>1. SUFFICES ASSUME NEW A \in SUBSET D, NEW B \in SUBSET E, NEW q, NEW a \in [A -> Int],
                        NEW b \in [B -> Int], Cardinality(A) = 0, Pairs(q, A, B)
                 PROVE  SumFunction(a) = SumFunction(b)
    OBVIOUS
  <2>2. A = {}
    BY <1>0, <2>1, FS_EmptySet
  <2>3. B = {}
    BY <2>1, <2>2 DEF Pairs
  <2>4. SumFunction(a) = 0 /\ SumFunction(b) = 0
    BY <2>2, <2>3, SumEmpty
  <2> QED BY <2>4
<1>2. ASSUME NEW n \in Nat, NEW m \in Nat, n \in T, m = n + 1 PROVE m \in T
  <2>1. SUFFICES ASSUME NEW A \in SUBSET D, NEW B \in SUBSET E, NEW q, NEW a \in [A -> Int],
                        NEW b \in [B -> Int], Cardinality(A) = m, Pairs(q, A, B),
                        \A x \in A : a[x] = b[q[x]]
                 PROVE  SumFunction(a) = SumFunction(b)
    OBVIOUS
  <2>2. PICK x \in A : TRUE
    <3>1. m # 0
      <4> HIDE DEF T
      <4> QED BY <1>2
    <3>2. A # {}
      BY <2>1, <3>1, FS_EmptySet
    <3> QED BY <3>2
  <2>3. PICK R, S : R = A \ {x} /\ S = B \ {q[x]}
    OBVIOUS
  <2>4. R \in SUBSET D /\ S \in SUBSET E /\ Cardinality(R) = n
    <3>1. IsFiniteSet(A)
      BY <1>0
    <3>2. Cardinality(R) = Cardinality(A) - 1
      BY <2>2, <2>3, <3>1, FS_RemoveElement
    <3>3. Cardinality(R) = n
      BY <1>2, <2>1, <3>2
    <3> QED BY <2>3, <3>3
  <2>5. /\ IsFiniteSet(A) /\ IsFiniteSet(B) /\ q[x] \in B
        /\ Without(R, A, x) /\ Without(S, B, q[x])
    <3>1. IsFiniteSet(A) /\ q \in [A -> B] /\ q \in Surjection(A, B)
      BY <1>0, <2>1 DEF Pairs, Surjection
    <3>2. IsFiniteSet(B)
      BY <3>1, FS_Surjection
    <3> QED BY <2>2, <2>3, <3>1, <3>2 DEF Without
  <2>6. PICK a2 \in [R -> Int] : /\ \A y \in R : a2[y] = a[y]
                                 /\ SumFunction(a) = a[x] + SumFunction(a2)
                                 /\ SumFunction(a2) \in Int
    BY <2>2, <2>5, SumCut
  <2>7. PICK b2 \in [S -> Int] : /\ \A y \in S : b2[y] = b[y]
                                 /\ SumFunction(b) = b[q[x]] + SumFunction(b2)
                                 /\ SumFunction(b2) \in Int
    BY <2>5, SumCut
  <2>8. PICK r : r = [y \in R |-> q[y]]
    OBVIOUS
  <2>9. \A y \in R : y \in A /\ q[y] \in S /\ r[y] = q[y]
    BY <2>1, <2>2, <2>3, <2>8 DEF Pairs
  <2>10. Pairs(r, R, S)
    <3>1. r \in [R -> S]
      BY <2>8, <2>9
    <3>2. \A y, z \in R : r[y] = r[z] => y = z
      BY <2>1, <2>9 DEF Pairs
    <3>3. ASSUME NEW z \in S PROVE \E y \in R : r[y] = z
      <4>1. z \in B /\ z # q[x]
        BY <2>3
      <4>2. PICK y \in A : q[y] = z
        BY <2>1, <4>1 DEF Pairs
      <4>3. y \in R
        BY <2>3, <4>1, <4>2
      <4> QED BY <2>9, <4>2, <4>3
    <3> QED BY <3>1, <3>2, <3>3 DEF Pairs
  <2>11. \A y \in R : a2[y] = b2[r[y]]
    BY <2>1, <2>6, <2>7, <2>9
  <2>12. SumFunction(a2) = SumFunction(b2)
    BY <1>2, <2>4, <2>10, <2>11
  <2>13. a[x] = b[q[x]]
    BY <2>1, <2>2
  <2> QED BY <2>6, <2>7, <2>12, <2>13
<1>3. Nat \subseteq T
  <2> HIDE DEF T
  <2> QED BY <1>1, <1>2, Inductive
<1>4. E \in SUBSET E /\ D \in SUBSET D
  OBVIOUS
<1>5. Cardinality(D) \in T
  <2> HIDE DEF T
  <2> QED BY <1>0, <1>3
<1> QED BY <1>4, <1>5

-----------------------------------------------------------------------------
(* Folds over sequences, which go through the domain from its end *)

Largest(s) == Max(s)
Smaller(s) == s \ {Max(s)}

LEMMA LastOf ==
  ASSUME NEW k \in Nat, NEW m \in Nat, m = k + 1, NEW s \in SUBSET (1..m), s # {}
  PROVE  Smaller(s) \in SUBSET (1..k)
<1>1. CASE m \in s
  <2>1. \A y \in s : m >= y /\ y \in Nat
    OBVIOUS
  <2>2. PICK c : c = Max(s)
    OBVIOUS
  <2>3. c \in s /\ \A y \in s : c >= y
    BY <1>1, <2>1, <2>2, Zenon DEF Max
  <2>4. c = m
    BY <1>1, <2>1, <2>3
  <2>5. \A y \in s : y # m => y \in 1..k
    BY <2>1
  <2> QED BY <2>2, <2>4, <2>5 DEF Smaller
<1>2. CASE m \notin s
  <2>1. \A y \in s : y # m => y \in 1..k
    OBVIOUS
  <2> QED BY <1>2, <2>1 DEF Smaller
<1> QED BY <1>1, <1>2

LEMMA LastUpTo ==
  ASSUME NEW k \in Nat, NEW m \in Nat, m = k + 1
  PROVE  1..m # {} /\ Largest(1..m) = m /\ Smaller(1..m) = 1..k
<1>1. m \in 1..m /\ \A y \in 1..m : m >= y
  OBVIOUS
<1>2. Max(1..m) = m
  BY <1>1 DEF Max
<1> QED BY <1>1, <1>2 DEF Largest, Smaller

-----------------------------------------------------------------------------
(* Order *)

Keys(key) == DOMAIN key \subseteq Int /\ key \in [DOMAIN key -> Int \X Int]

LEMMA KeysOrder ==
  ASSUME NEW key, Keys(key), NEW a \in DOMAIN key, NEW b \in DOMAIN key, NEW c \in DOMAIN key
  PROVE  /\ a # b => Before(key, a, b) \/ Before(key, b, a)
         /\ Before(key, a, b) => a # b
         /\ Before(key, a, b) /\ Before(key, b, c) => Before(key, a, c)
<1>1. PICK p \in Int, q \in Int : key[a] = <<p, q>>
  BY DEF Keys
<1>2. PICK r \in Int, s \in Int : key[b] = <<r, s>>
  BY DEF Keys
<1>3. PICK t \in Int, u \in Int : key[c] = <<t, u>>
  BY DEF Keys
<1>4. a \in Int /\ b \in Int /\ c \in Int
  BY DEF Keys
<1> QED BY <1>1, <1>2, <1>3, <1>4 DEF Before

\* Of any of the ids, one is the last.
LEMMA LastId ==
  ASSUME NEW key, Keys(key), IsFiniteSet(DOMAIN key), NEW S \in SUBSET (DOMAIN key), S # {}
  PROVE  \E x \in S : \A y \in S : y # x => Before(key, y, x)
<1> DEFINE T == {n \in Nat : \A R \in SUBSET (DOMAIN key) : Cardinality(R) = n /\ R # {} =>
                               \E x \in R : \A y \in R : y # x => Before(key, y, x)}
<1>0. \A R \in SUBSET (DOMAIN key) : IsFiniteSet(R) /\ Cardinality(R) \in Nat
  BY FS_Subset, FS_CardinalityType
<1>1. 0 \in T
  BY <1>0, FS_EmptySet
<1>2. ASSUME NEW n \in Nat, NEW m \in Nat, n \in T, m = n + 1 PROVE m \in T
  <2>1. SUFFICES ASSUME NEW R \in SUBSET (DOMAIN key), Cardinality(R) = m, R # {}
                 PROVE  \E x \in R : \A y \in R : y # x => Before(key, y, x)
    OBVIOUS
  <2>2. PICK a \in R : TRUE
    BY <2>1
  <2>3. PICK Q : Q = R \ {a}
    OBVIOUS
  <2>4. Q \in SUBSET (DOMAIN key) /\ Cardinality(Q) = n
    <3>1. IsFiniteSet(R)
      BY <1>0
    <3>2. Cardinality(Q) = Cardinality(R) - 1
      BY <2>2, <2>3, <3>1, FS_RemoveElement
    <3> HIDE DEF T
    <3> QED BY <1>2, <2>1, <2>3, <3>2
  <2>5. CASE Q = {}
    BY <2>3, <2>5
  <2>6. CASE Q # {}
    <3>1. PICK x \in Q : \A y \in Q : y # x => Before(key, y, x)
      BY <1>2, <2>4, <2>6
    <3>2. a \in DOMAIN key /\ x \in DOMAIN key /\ a # x /\ x \in R
      BY <2>2, <2>3, <3>1
    <3>3. CASE Before(key, a, x)
      BY <2>3, <3>1, <3>2, <3>3
    <3>4. CASE Before(key, x, a)
      <4>1. ASSUME NEW y \in R, y # a PROVE Before(key, y, a)
        <5>1. y \in Q /\ y \in DOMAIN key
          BY <2>3, <4>1
        <5>2. y = x \/ Before(key, y, x)
          BY <3>1, <5>1
        <5> QED BY <3>2, <3>4, <5>1, <5>2, KeysOrder
      <4> QED BY <4>1
    <3> QED BY <3>2, <3>3, <3>4, KeysOrder
  <2> QED BY <2>5, <2>6
<1>3. Nat \subseteq T
  <2> HIDE DEF T
  <2> QED BY <1>1, <1>2, Inductive
<1> QED BY <1>0, <1>3

InOrderOf(key, ids, n, S) ==
  /\ ids \in [1..n -> S]
  /\ \A i, j \in 1..n : i < j => Before(key, ids[i], ids[j])

LEMMA OrderExists ==
  ASSUME NEW key, Keys(key), IsFiniteSet(DOMAIN key)
  PROVE  \E ids : InOrderOf(key, ids, Cardinality(DOMAIN key), DOMAIN key)
<1> DEFINE T == {n \in Nat : \A R \in SUBSET (DOMAIN key) : Cardinality(R) = n =>
                               \E ids : InOrderOf(key, ids, n, R)}
<1>0. \A R \in SUBSET (DOMAIN key) : IsFiniteSet(R) /\ Cardinality(R) \in Nat
  BY FS_Subset, FS_CardinalityType
<1>1. 0 \in T
  <2>1. SUFFICES ASSUME NEW R \in SUBSET (DOMAIN key) PROVE \E ids : InOrderOf(key, ids, 0, R)
    OBVIOUS
  <2> DEFINE ids == [i \in 1..0 |-> 0]
  <2>2. InOrderOf(key, ids, 0, R)
    BY DEF InOrderOf
  <2> QED BY <2>2
<1>2. ASSUME NEW n \in Nat, NEW m \in Nat, n \in T, m = n + 1 PROVE m \in T
  <2>1. SUFFICES ASSUME NEW R \in SUBSET (DOMAIN key), Cardinality(R) = m
                 PROVE  \E ids : InOrderOf(key, ids, m, R)
    OBVIOUS
  <2>2. R # {}
    <3>1. m # 0
      <4> HIDE DEF T
      <4> QED BY <1>2
    <3> QED BY <2>1, <3>1, FS_EmptySet
  <2>3. PICK x \in R : \A y \in R : y # x => Before(key, y, x)
    BY <2>2, LastId
  <2>4. PICK Q : Q = R \ {x}
    OBVIOUS
  <2>5. Q \in SUBSET (DOMAIN key) /\ Cardinality(Q) = n
    <3>1. IsFiniteSet(R)
      BY <1>0
    <3>2. Cardinality(Q) = Cardinality(R) - 1
      BY <2>3, <2>4, <3>1, FS_RemoveElement
    <3> HIDE DEF T
    <3> QED BY <1>2, <2>1, <2>4, <3>2
  <2>6. PICK f : InOrderOf(key, f, n, Q)
    BY <1>2, <2>5
  <2> DEFINE ids == [i \in 1..m |-> IF i = m THEN x ELSE f[i]]
  <2>7. m = n + 1
    <3> HIDE DEF T
    <3> QED BY <1>2
  <2>8. \A i \in 1..n : f[i] \in R /\ f[i] # x
    BY <2>4, <2>6 DEF InOrderOf
  <2>9. InOrderOf(key, ids, m, R)
    <3>1. ids \in [1..m -> R]
      BY <2>3, <2>7, <2>8
    <3>2. ASSUME NEW i \in 1..m, NEW j \in 1..m, i < j PROVE Before(key, ids[i], ids[j])
      <4>1. i \in 1..n /\ ids[i] = f[i]
        BY <2>7, <3>2
      <4>2. CASE j = m
        BY <2>3, <2>8, <4>1, <4>2
      <4>3. CASE j # m
        <5>1. j \in 1..n /\ ids[j] = f[j]
          BY <2>7, <4>3
        <5> QED BY <2>6, <3>2, <4>1, <5>1 DEF InOrderOf
      <4> QED BY <4>2, <4>3
    <3> QED BY <3>1, <3>2 DEF InOrderOf
  <2> QED BY <2>9
<1>3. Nat \subseteq T
  <2> HIDE DEF T
  <2> QED BY <1>1, <1>2, Inductive
<1> QED BY <1>0, <1>3

\* InOrder lists ids of the domain, none twice.
LEMMA InOrderLists ==
  ASSUME NEW key, Keys(key), IsFiniteSet(DOMAIN key), NEW ids, ids = InOrder(key)
  PROVE  \E n \in Nat : /\ ids \in [1..n -> DOMAIN key]
                        /\ \A i, j \in 1..n : i < j => ids[i] # ids[j]
<1>1. PICK n \in Nat : n = Cardinality(DOMAIN key)
  BY FS_CardinalityType
<1>2. PICK f : InOrderOf(key, f, n, DOMAIN key)
  BY <1>1, OrderExists
<1>3. /\ f \in [1..n -> DOMAIN key]
      /\ \A i, j \in DOMAIN f : i < j => Before(key, f[i], f[j])
  BY <1>2 DEF InOrderOf
<1>4. /\ ids \in [1..n -> DOMAIN key]
      /\ \A i, j \in DOMAIN ids : i < j => Before(key, ids[i], ids[j])
  BY <1>1, <1>3, Zenon DEF InOrder
<1>5. DOMAIN ids = 1..n /\ \A i \in 1..n : ids[i] \in DOMAIN key
  BY <1>4
<1>6. \A i, j \in 1..n : i < j => ids[i] # ids[j]
  BY <1>4, <1>5, KeysOrder
<1> QED BY <1>4, <1>6

\* Every id of the domain, each before the next.
AllInOrder(key, ids, n) ==
  /\ InOrderOf(key, ids, n, DOMAIN key)
  /\ \A x \in DOMAIN key : \E i \in 1..n : ids[i] = x

LEMMA InOrderAll ==
  ASSUME NEW key, Keys(key), IsFiniteSet(DOMAIN key), NEW ids, ids = InOrder(key)
  PROVE  \E n \in Nat : AllInOrder(key, ids, n)
<1>1. PICK n \in Nat : n = Cardinality(DOMAIN key)
  BY FS_CardinalityType
<1>2. PICK f : InOrderOf(key, f, n, DOMAIN key)
  BY <1>1, OrderExists
<1>3. /\ f \in [1..n -> DOMAIN key]
      /\ \A i, j \in DOMAIN f : i < j => Before(key, f[i], f[j])
  BY <1>2 DEF InOrderOf
<1>4. /\ ids \in [1..n -> DOMAIN key]
      /\ \A i, j \in DOMAIN ids : i < j => Before(key, ids[i], ids[j])
  BY <1>1, <1>3, Zenon DEF InOrder
<1>5. DOMAIN ids = 1..n /\ \A i \in 1..n : ids[i] \in DOMAIN key
  BY <1>4
<1>6. InOrderOf(key, ids, n, DOMAIN key)
  BY <1>4, <1>5 DEF InOrderOf
<1>7. ids \in Injection(1..n, DOMAIN key)
  <2>1. ASSUME NEW i \in 1..n, NEW j \in 1..n, ids[i] = ids[j] PROVE i = j
    <3>1. i < j \/ j < i \/ i = j
      OBVIOUS
    <3> QED BY <1>4, <1>5, <2>1, <3>1, KeysOrder
  <2>2. IsInjective(ids)
    BY <1>5, <2>1 DEF IsInjective
  <2> QED BY <1>4, <2>2 DEF Injection
<1>8. ids \in Surjection(1..n, DOMAIN key)
  <2>1. Cardinality(1..n) = n
    BY FS_Interval
  <2> QED BY <1>1, <1>7, <2>1, FS_Injection
<1>9. \A x \in DOMAIN key : \E i \in 1..n : ids[i] = x
  BY <1>8 DEF Surjection
<1> QED BY <1>6, <1>9 DEF AllInOrder

\* What the functions g[i] of a set of indices come to at one argument.
Across(g, L, z) == SumFunction([i \in {j \in L : z \in DOMAIN g[j]} |-> g[i][z]])

NatFamily(g, L) == IsFiniteSet(L) /\ \A i \in L : g[i] \in [DOMAIN g[i] -> Nat]

LEMMA AcrossSplit ==
  ASSUME NEW L, NEW g, NatFamily(g, L), NEW x \in L, NEW K, K = L \ {x}, NEW z
  PROVE  /\ Across(g, L, z) \in Nat /\ Across(g, K, z) \in Nat
         /\ Across(g, L, z) = Across(g, K, z) + (IF z \in DOMAIN g[x] THEN g[x][z] ELSE 0)
<1>0. IsFiniteSet(L) /\ \A i \in L : g[i] \in [DOMAIN g[i] -> Nat]
  BY DEF NatFamily
<1>1. PICK D, E : D = {j \in L : z \in DOMAIN g[j]} /\ E = {j \in K : z \in DOMAIN g[j]}
  OBVIOUS
<1>2. PICK f, h : f = [i \in D |-> g[i][z]] /\ h = [i \in E |-> g[i][z]]
  OBVIOUS
<1>3. f \in [D -> Nat] /\ h \in [E -> Nat] /\ IsFiniteSet(D) /\ IsFiniteSet(E)
  <2>1. \A i \in D : g[i][z] \in Nat
    BY <1>0, <1>1
  <2>2. E \subseteq D /\ D \subseteq L
    BY <1>1
  <2> QED BY <1>0, <1>2, <2>1, <2>2, FS_Subset
<1>4. SumFunction(f) \in Nat /\ SumFunction(h) \in Nat
  BY <1>3, SumNat
<1>5. Across(g, L, z) = SumFunction(f) /\ Across(g, K, z) = SumFunction(h)
  BY <1>1, <1>2 DEF Across
<1>6. CASE z \in DOMAIN g[x]
  <2>1. x \in D /\ Without(E, D, x)
    BY <1>1, <1>6 DEF Without
  <2>2. f \in [D -> Int] /\ h \in [E -> Int] /\ (\A y \in E : h[y] = f[y]) /\ f[x] = g[x][z]
    BY <1>1, <1>2, <1>3, <2>1
  <2>3. SumFunction(f) = f[x] + SumFunction(h)
    BY <1>3, <2>1, <2>2, SumSplit
  <2>4. f[x] \in Nat
    BY <1>3, <2>1
  <2> QED BY <1>4, <1>5, <1>6, <2>2, <2>3, <2>4
<1>7. CASE z \notin DOMAIN g[x]
  <2>1. D = E
    BY <1>1, <1>7
  <2>2. f = h
    BY <1>2, <2>1
  <2> QED BY <1>4, <1>5, <1>7, <2>2
<1> QED BY <1>6, <1>7

\* Summed over the arguments first or over the indices first.
LEMMA SumsSwap ==
  ASSUME NEW D, IsFiniteSet(D), NEW Z, IsFiniteSet(Z), NEW g,
         \A i \in D : DOMAIN g[i] \subseteq Z /\ g[i] \in [DOMAIN g[i] -> Nat]
  PROVE  \A L \in SUBSET D :
           SumFunction([z \in Z |-> Across(g, L, z)]) = SumFunction([i \in L |-> SumFunction(g[i])])
<1> DEFINE T == {n \in Nat : \A L \in SUBSET D : Cardinality(L) = n =>
             SumFunction([z \in Z |-> Across(g, L, z)]) = SumFunction([i \in L |-> SumFunction(g[i])])}
<1>0. \A L \in SUBSET D : IsFiniteSet(L) /\ Cardinality(L) \in Nat
  BY FS_Subset, FS_CardinalityType
<1>1. 0 \in T
  <2>1. SUFFICES ASSUME NEW L \in SUBSET D, Cardinality(L) = 0
                 PROVE  SumFunction([z \in Z |-> Across(g, L, z)]) = SumFunction([i \in L |-> SumFunction(g[i])])
    OBVIOUS
  <2>2. L = {}
    BY <1>0, <2>1, FS_EmptySet
  <2>3. PICK f, h : f = [z \in Z |-> Across(g, L, z)] /\ h = [i \in L |-> SumFunction(g[i])]
    OBVIOUS
  <2>4. ASSUME NEW z \in Z PROVE f[z] = 0
    <3>1. PICK e : e = [i \in {j \in L : z \in DOMAIN g[j]} |-> g[i][z]]
      OBVIOUS
    <3>2. SumFunction(e) = 0
      BY <2>2, <3>1, SumEmpty
    <3> QED BY <2>3, <3>1, <3>2 DEF Across
  <2>5. f \in [Z -> Int]
    BY <2>3, <2>4
  <2>6. SumFunction(f) = 0
    BY <2>4, <2>5, SumZero
  <2>7. SumFunction(h) = 0
    BY <2>2, <2>3, SumEmpty
  <2> QED BY <2>3, <2>6, <2>7
<1>2. ASSUME NEW n \in Nat, NEW m \in Nat, n \in T, m = n + 1 PROVE m \in T
  <2>1. SUFFICES ASSUME NEW L \in SUBSET D, Cardinality(L) = m
                 PROVE  SumFunction([z \in Z |-> Across(g, L, z)]) = SumFunction([i \in L |-> SumFunction(g[i])])
    OBVIOUS
  <2>2. PICK x \in L : TRUE
    <3>1. m # 0
      <4> HIDE DEF T
      <4> QED BY <1>2
    <3> QED BY <2>1, <3>1, FS_EmptySet
  <2>3. PICK K : K = L \ {x}
    OBVIOUS
  <2>4. K \in SUBSET D /\ Cardinality(K) = n /\ x \in D
    <3>1. IsFiniteSet(L)
      BY <1>0
    <3>2. Cardinality(K) = Cardinality(L) - 1
      BY <2>2, <2>3, <3>1, FS_RemoveElement
    <3> HIDE DEF T
    <3> QED BY <1>2, <2>1, <2>2, <2>3, <3>2
  <2>5. PICK f, k, p : /\ f = [z \in Z |-> Across(g, L, z)] /\ k = [z \in Z |-> Across(g, K, z)]
                       /\ p = [z \in Z |-> IF z \in DOMAIN g[x] THEN g[x][z] ELSE 0]
    OBVIOUS
  <2>6. PICK h, e : /\ h = [i \in L |-> SumFunction(g[i])] /\ e = [i \in K |-> SumFunction(g[i])]
    OBVIOUS
  <2>7. SumFunction(k) = SumFunction(e)
    BY <1>2, <2>4, <2>5, <2>6
  <2>8. \A i \in L : g[i] \in [DOMAIN g[i] -> Nat]
    BY <2>1
  <2>9. ASSUME NEW z \in Z
        PROVE  f[z] \in Nat /\ k[z] \in Nat /\ p[z] \in Nat /\ f[z] = k[z] + p[z]
    <3>1. /\ Across(g, L, z) \in Nat /\ Across(g, K, z) \in Nat
          /\ Across(g, L, z) = Across(g, K, z) + (IF z \in DOMAIN g[x] THEN g[x][z] ELSE 0)
      <4>1. IsFiniteSet(L)
        BY <1>0
      <4>2. NatFamily(g, L)
        BY <2>8, <4>1 DEF NatFamily
      <4> HIDE DEF T
      <4> QED BY <2>2, <2>3, <4>2, AcrossSplit
    <3>2. p[z] \in Nat
      <4>1. g[x] \in [DOMAIN g[x] -> Nat]
        BY <2>2, <2>8
      <4> QED BY <2>5, <4>1
    <3> QED BY <2>5, <3>1, <3>2
  <2>10. SumFunction(f) = SumFunction(k) + SumFunction(p)
    <3>1. f \in [Z -> Int] /\ k \in [Z -> Int] /\ p \in [Z -> Int]
      BY <2>5, <2>9
    <3> QED BY <2>9, <3>1, SumPlus
  <2>11. IsFiniteSet(DOMAIN g[x]) /\ g[x] \in [DOMAIN g[x] -> Int]
    BY <2>4, FS_Subset
  <2>12. SumFunction(p) = SumFunction(g[x])
    <3>1. p \in [Z -> Int]
      BY <2>5, <2>9
    <3>2. DOMAIN g[x] \in SUBSET Z
      BY <2>4
    <3>3. (\A z \in DOMAIN g[x] : p[z] = g[x][z]) /\ (\A z \in Z \ DOMAIN g[x] : p[z] = 0)
      BY <2>5, <3>2
    <3> QED BY <2>11, <3>1, <3>2, <3>3, SumPad
  <2>13. SumFunction(h) = h[x] + SumFunction(e)
    <3>1. ASSUME NEW i \in L PROVE SumFunction(g[i]) \in Int
      <4>1. IsFiniteSet(DOMAIN g[i]) /\ g[i] \in [DOMAIN g[i] -> Int]
        BY <2>1, FS_Subset
      <4> QED BY <4>1, SumType
    <3>2. h \in [L -> Int] /\ e \in [K -> Int] /\ \A i \in K : e[i] = h[i]
      BY <2>3, <2>6, <3>1
    <3>3. IsFiniteSet(L) /\ Without(K, L, x)
      BY <1>0, <2>1, <2>3 DEF Without
    <3> HIDE DEF T
    <3> QED BY <2>2, <3>2, <3>3, SumSplit
  <2>14. h[x] = SumFunction(g[x])
    BY <2>2, <2>6
  <2>15. SumFunction(f) = SumFunction(h)
    <3>1. SumFunction(k) \in Int /\ SumFunction(g[x]) \in Int
      <4>1. k \in [Z -> Int]
        BY <2>5, <2>9
      <4> QED BY <2>11, <4>1, SumType
    <3> HIDE DEF T
    <3> QED BY <2>7, <2>10, <2>12, <2>13, <2>14, <3>1
  <2> QED BY <2>5, <2>6, <2>15
<1>3. Nat \subseteq T
  <2> HIDE DEF T
  <2> QED BY <1>1, <1>2, Inductive
<1> QED BY <1>0, <1>3

\* k is f and h, term by term.
Adds(f, h, k, D) ==
  /\ f \in [D -> Int] /\ h \in [D -> Int] /\ k \in [D -> Int]
  /\ \A x \in D : k[x] = f[x] + h[x]

LEMMA SumAdds ==
  ASSUME NEW D, IsFiniteSet(D), NEW f, NEW h, NEW k, Adds(f, h, k, D)
  PROVE  SumFunction(k) = SumFunction(f) + SumFunction(h)
BY SumPlus DEF Adds

\* The functions g[i] are amounts at arguments in Z.
Within(g, L, Z) == \A i \in L : DOMAIN g[i] \subseteq Z /\ g[i] \in [DOMAIN g[i] -> Nat]

LEMMA SumAcross ==
  ASSUME NEW L, IsFiniteSet(L), NEW Z, IsFiniteSet(Z), NEW g, Within(g, L, Z)
  PROVE  SumFunction([z \in Z |-> Across(g, L, z)]) = SumFunction([i \in L |-> SumFunction(g[i])])
<1>1. \A M \in SUBSET L :
        SumFunction([z \in Z |-> Across(g, M, z)]) = SumFunction([i \in M |-> SumFunction(g[i])])
  BY SumsSwap DEF Within
<1>2. L \in SUBSET L
  OBVIOUS
<1> QED BY <1>1, <1>2
=============================================================================
