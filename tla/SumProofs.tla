------------------------------ MODULE SumProofs -----------------------------
(***************************************************************************)
(* What SumFunction computes, for every function on a finite set: sums of  *)
(* integers are integers, in whatever order the elements are picked.  The  *)
(* inductions are by a smallest counterexample, which the well-foundedness *)
(* of strict inclusion between finite sets gives.                          *)
(***************************************************************************)
EXTENDS Integers, FiniteSets, Functions, FiniteSetTheorems, WellFoundedInduction, TLAPS

\* Some member of a family of subsets of a finite set contains no other.
LEMMA SmallestSet ==
  ASSUME NEW D, IsFiniteSet(D), NEW T \in SUBSET (SUBSET D), T # {}
  PROVE  \E m \in T : \A n \in T : n \subseteq m => n = m
<1> DEFINE R == StrictSubsetOrdering(D)
<1>1. IsWellFoundedOn(R, SUBSET D)
  BY FS_StrictSubsetOrderingWellFounded, FS_FiniteSubsetsOfFinite
<1>2. \A m, n \in SUBSET D : n \subseteq m /\ n # m => <<n, m>> \in R
  BY DEF StrictSubsetOrdering
<1> HIDE DEF R
<1>3. PICK m \in T : \A n \in T : ~ (<<n, m>> \in R)
  BY <1>1, WFMin
<1> QED
  BY <1>2, <1>3
-----------------------------------------------------------------------------
\* The function that SumFunction builds: sums over the subsets of D.
Pick(s) == CHOOSE y \in s : TRUE
Adds(f, D, g) ==
  g = [s \in SUBSET D |-> IF s = {} THEN 0 ELSE f[Pick(s)] + g[s \ {Pick(s)}]]
Sum(f, s) == (CHOOSE g : Adds(f, s, g))[s]

\* SumFunction is the sum over a function's domain.
LEMMA SumIs ==
  ASSUME NEW f
  PROVE  SumFunction(f) = Sum(f, DOMAIN f)
BY DEF SumFunction, SumFunctionOnSet, FoldFunctionOnSet, MapThenFoldSet, Sum, Adds, Pick

\* A non-empty set has a member to pick.
LEMMA PickIn == ASSUME NEW s, s # {} PROVE Pick(s) \in s
BY DEF Pick

\* What such a function gives for each subset.
LEMMA AddsIs ==
  ASSUME NEW f, NEW D, NEW g, Adds(f, D, g), NEW s \in SUBSET D
  PROVE  /\ s = {} => g[s] = 0
         /\ s # {} => g[s] = f[Pick(s)] + g[s \ {Pick(s)}] /\ s \ {Pick(s)} \in SUBSET D
                      /\ Pick(s) \in s
<1>1. g[s] = IF s = {} THEN 0 ELSE f[Pick(s)] + g[s \ {Pick(s)}]
  BY DEF Adds
<1> QED
  BY <1>1, PickIn

\* Two such functions agree where both are defined.
LEMMA AddsUnique ==
  ASSUME NEW f, NEW D, IsFiniteSet(D), NEW E \in SUBSET D, NEW g, NEW h,
         Adds(f, D, g), Adds(f, E, h)
  PROVE  \A s \in SUBSET E : g[s] = h[s]
<1> DEFINE Bad == {s \in SUBSET E : g[s] # h[s]}
<1> SUFFICES ASSUME Bad # {}
             PROVE  FALSE
  OBVIOUS
<1>1. IsFiniteSet(E)
  BY FS_Subset
<1>2. Bad \in SUBSET (SUBSET E) /\ Bad # {}
  OBVIOUS
<1> HIDE DEF Bad
<1>3. PICK m \in Bad : \A n \in Bad : n \subseteq m => n = m
  BY <1>1, <1>2, SmallestSet
<1>4. m \in SUBSET E /\ m \in SUBSET D /\ g[m] # h[m]
  BY <1>3 DEF Bad
<1>5. m # {}
  BY <1>4, AddsIs
<1>6. /\ g[m] = f[Pick(m)] + g[m \ {Pick(m)}] /\ h[m] = f[Pick(m)] + h[m \ {Pick(m)}]
      /\ Pick(m) \in m /\ m \ {Pick(m)} \in SUBSET E
  <2>1. g[m] = f[Pick(m)] + g[m \ {Pick(m)}] /\ Pick(m) \in m
    BY <1>4, <1>5, AddsIs
  <2>2. h[m] = f[Pick(m)] + h[m \ {Pick(m)}] /\ m \ {Pick(m)} \in SUBSET E
    BY <1>4, <1>5, AddsIs
  <2> QED
    BY <2>1, <2>2
<1>7. m \ {Pick(m)} \notin Bad
  BY <1>3, <1>6
<1> QED
  BY <1>4, <1>6, <1>7 DEF Bad

\* There is one for every finite set.
LEMMA AddsExists ==
  ASSUME NEW f, NEW D, IsFiniteSet(D)
  PROVE  \E g : Adds(f, D, g)
<1> DEFINE Bad == {E \in SUBSET D : ~ \E g : Adds(f, E, g)}
<1> SUFFICES ASSUME Bad # {}
             PROVE  FALSE
  BY DEF Bad
<1>1. Bad \in SUBSET (SUBSET D) /\ Bad # {}
  OBVIOUS
<1> HIDE DEF Bad
<1>2. PICK m \in Bad : \A n \in Bad : n \subseteq m => n = m
  BY <1>1, SmallestSet
<1>3. m \in SUBSET D /\ ~ \E g : Adds(f, m, g)
  BY <1>2 DEF Bad
<1> DEFINE F(s) == CHOOSE g : Adds(f, s, g)
<1>4. \A s \in SUBSET m : s # m => Adds(f, s, F(s))
  BY <1>2, <1>3 DEF Bad
<1> DEFINE V(s) == F(s)[s]
<1>5. ASSUME NEW u \in SUBSET m, u # m
      PROVE  V(u) = IF u = {} THEN 0 ELSE f[Pick(u)] + V(u \ {Pick(u)})
  <2>1. u \in SUBSET u /\ Adds(f, u, F(u))
    BY <1>4, <1>5
  <2>2. CASE u = {}
    BY <2>1, <2>2, AddsIs
  <2>3. CASE u # {}
    <3> DEFINE w == u \ {Pick(u)}
    <3>1. V(u) = f[Pick(u)] + F(u)[w] /\ Pick(u) \in u /\ w \in SUBSET u
      <4> DEFINE g == F(u)
      <4>1. Adds(f, u, g) /\ u \in SUBSET u
        BY <2>1
      <4> HIDE DEF g
      <4>2. g[u] = f[Pick(u)] + g[w] /\ Pick(u) \in u /\ w \in SUBSET u
        BY <4>1, <2>3, AddsIs
      <4> QED
        BY <4>2 DEF g
    <3>2. w \in SUBSET m /\ w # m
      BY <1>5, <3>1
    <3>3. Adds(f, w, F(w))
      BY <1>4, <3>2
    <3>4. IsFiniteSet(u) /\ w \in SUBSET w
      BY <1>3, FS_Subset
    <3> HIDE DEF F, w
    <3>5. F(u)[w] = F(w)[w]
      BY <2>1, <3>1, <3>3, <3>4, AddsUnique
    <3> QED
      BY <2>3, <3>1, <3>5 DEF w
  <2> QED
    BY <2>2, <2>3
<1> HIDE DEF V, F
<1> DEFINE h == [s \in SUBSET m |-> IF s = {} THEN 0 ELSE f[Pick(s)] + V(s \ {Pick(s)})]
<1>6. \A u \in SUBSET m : u # m => h[u] = V(u)
  BY <1>5
<1>7. \A s \in SUBSET m : s # {} => s \ {Pick(s)} \in SUBSET m /\ s \ {Pick(s)} # m
  BY PickIn
<1>8. \A s \in SUBSET m : s # {} => h[s \ {Pick(s)}] = V(s \ {Pick(s)})
  BY <1>6, <1>7
<1>9. Adds(f, m, h)
  <2>1. h = [s \in SUBSET m |-> IF s = {} THEN 0 ELSE f[Pick(s)] + h[s \ {Pick(s)}]]
    BY <1>8
  <2> QED
    BY <2>1 DEF Adds
<1> QED
  BY <1>3, <1>9

\* A sum is the picked element's value and the sum of the rest.
LEMMA SumStep ==
  ASSUME NEW f, NEW s, IsFiniteSet(s)
  PROVE  /\ s = {} => Sum(f, s) = 0
         /\ s # {} => Pick(s) \in s /\ Sum(f, s) = f[Pick(s)] + Sum(f, s \ {Pick(s)})
<1> DEFINE F(t) == CHOOSE g : Adds(f, t, g)
<1>1. Adds(f, s, F(s)) /\ s \in SUBSET s
  BY AddsExists
<1>2. s = {} => F(s)[s] = 0
  BY <1>1, AddsIs
<1>3. ASSUME s # {}
      PROVE  Pick(s) \in s /\ F(s)[s] = f[Pick(s)] + F(s \ {Pick(s)})[s \ {Pick(s)}]
  <2> DEFINE w == s \ {Pick(s)}
  <2>1. Pick(s) \in s /\ F(s)[s] = f[Pick(s)] + F(s)[w]
    BY <1>1, <1>3, AddsIs
  <2>2. w \in SUBSET s /\ w \in SUBSET w /\ IsFiniteSet(w)
    BY FS_Subset
  <2> HIDE DEF w
  <2>3. Adds(f, w, F(w))
    BY <2>2, AddsExists
  <2> HIDE DEF F
  <2>4. F(s)[w] = F(w)[w]
    BY <1>1, <2>2, <2>3, AddsUnique
  <2> QED
    BY <2>1, <2>4 DEF w
<1> QED
  BY <1>2, <1>3 DEF Sum
-----------------------------------------------------------------------------
(* Sums over a subset of a function's domain *)

\* Sums of integers are integers, and an element may be taken out first.
LEMMA SumRemoves ==
  ASSUME NEW D, IsFiniteSet(D), NEW f, \A x \in D : f[x] \in Int
  PROVE  /\ Sum(f, D) \in Int
         /\ \A x \in D : Sum(f, D) = f[x] + Sum(f, D \ {x})
<1> DEFINE Good(s) == Sum(f, s) \in Int /\ \A x \in s : Sum(f, s) = f[x] + Sum(f, s \ {x})
           Bad == {s \in SUBSET D : ~Good(s)}
<1> SUFFICES ASSUME Bad # {}
             PROVE  FALSE
  OBVIOUS
<1>1. Bad \in SUBSET (SUBSET D) /\ Bad # {}
  OBVIOUS
<1> HIDE DEF Bad
<1>2. PICK m \in Bad : \A n \in Bad : n \subseteq m => n = m
  BY <1>1, SmallestSet
<1>3. m \in SUBSET D /\ ~Good(m) /\ \A s \in SUBSET m : s # m => Good(s)
  BY <1>2 DEF Bad
<1>4. IsFiniteSet(m) /\ \A s \in SUBSET m : IsFiniteSet(s)
  BY <1>3, FS_Subset
<1>5. m # {}
  <2> SUFFICES ASSUME m = {}
               PROVE  FALSE
    OBVIOUS
  <2>1. Sum(f, m) = 0
    BY <1>4, SumStep
  <2> QED
    BY <1>3, <2>1
<1> DEFINE y == Pick(m)
<1>6. y \in m /\ Sum(f, m) = f[y] + Sum(f, m \ {y})
  BY <1>4, <1>5, SumStep
<1> HIDE DEF y
<1>7. \A x \in m : m \ {x} \in SUBSET m /\ m \ {x} # m /\ f[x] \in Int /\ Good(m \ {x})
  BY <1>3
<1>8. Sum(f, m) \in Int
  BY <1>6, <1>7
<1>9. ASSUME NEW x \in m
      PROVE  Sum(f, m) = f[x] + Sum(f, m \ {x})
  <2>1. CASE x = y
    BY <1>6, <2>1
  <2>2. CASE x # y
    <3> DEFINE rest == (m \ {y}) \ {x}
    <3>1. rest = (m \ {x}) \ {y} /\ x \in m \ {y} /\ y \in m \ {x}
      BY <1>6, <2>2
    <3>2. Sum(f, m \ {y}) = f[x] + Sum(f, rest) /\ Sum(f, m \ {x}) = f[y] + Sum(f, rest)
      BY <1>6, <1>7, <3>1
    <3>3. Sum(f, rest) \in Int
      <4>1. rest \in SUBSET m /\ rest # m
        BY <1>6
      <4> QED
        BY <1>3, <4>1
    <3> HIDE DEF rest
    <3> QED
      BY <1>6, <1>7, <3>2, <3>3
  <2> QED
    BY <2>1, <2>2
<1> QED
  BY <1>3, <1>8, <1>9

\* Nothing adds up to 0.
LEMMA SumEmpty ==
  ASSUME NEW f
  PROVE  Sum(f, {}) = 0
BY SumStep, FS_EmptySet

\* Functions that agree on a set have the same sum over it.
LEMMA SumAgrees ==
  ASSUME NEW D, IsFiniteSet(D), NEW f, NEW g, \A x \in D : f[x] = g[x]
  PROVE  Sum(f, D) = Sum(g, D)
<1> DEFINE Bad == {s \in SUBSET D : Sum(f, s) # Sum(g, s)}
<1> SUFFICES ASSUME Bad # {}
             PROVE  FALSE
  OBVIOUS
<1>1. Bad \in SUBSET (SUBSET D) /\ Bad # {}
  OBVIOUS
<1> HIDE DEF Bad
<1>2. PICK m \in Bad : \A n \in Bad : n \subseteq m => n = m
  BY <1>1, SmallestSet
<1>3. m \in SUBSET D /\ Sum(f, m) # Sum(g, m) /\ \A s \in SUBSET m : s # m => Sum(f, s) = Sum(g, s)
  BY <1>2 DEF Bad
<1>4. IsFiniteSet(m)
  BY <1>3, FS_Subset
<1>5. m # {}
  BY <1>3, <1>4, SumStep
<1>6. Pick(m) \in m /\ Sum(f, m) = f[Pick(m)] + Sum(f, m \ {Pick(m)})
  BY <1>4, <1>5, SumStep
<1>7. Sum(g, m) = g[Pick(m)] + Sum(g, m \ {Pick(m)})
  BY <1>4, <1>5, SumStep
<1>8. Sum(f, m \ {Pick(m)}) = Sum(g, m \ {Pick(m)}) /\ f[Pick(m)] = g[Pick(m)]
  BY <1>3, <1>6
<1> QED
  BY <1>3, <1>6, <1>7, <1>8

\* Naturals add up to a natural.
LEMMA SumIsNat ==
  ASSUME NEW D, IsFiniteSet(D), NEW f, \A x \in D : f[x] \in Nat
  PROVE  Sum(f, D) \in Nat
<1> DEFINE Bad == {s \in SUBSET D : Sum(f, s) \notin Nat}
<1> SUFFICES ASSUME Bad # {}
             PROVE  FALSE
  OBVIOUS
<1>1. Bad \in SUBSET (SUBSET D) /\ Bad # {}
  OBVIOUS
<1> HIDE DEF Bad
<1>2. PICK m \in Bad : \A n \in Bad : n \subseteq m => n = m
  BY <1>1, SmallestSet
<1>3. m \in SUBSET D /\ Sum(f, m) \notin Nat /\ \A s \in SUBSET m : s # m => Sum(f, s) \in Nat
  BY <1>2 DEF Bad
<1>4. IsFiniteSet(m)
  BY <1>3, FS_Subset
<1>5. m # {}
  BY <1>3, <1>4, SumStep
<1>6. Pick(m) \in m /\ Sum(f, m) = f[Pick(m)] + Sum(f, m \ {Pick(m)})
  BY <1>4, <1>5, SumStep
<1>7. Sum(f, m \ {Pick(m)}) \in Nat /\ f[Pick(m)] \in Nat
  BY <1>3, <1>6
<1> QED
  BY <1>3, <1>6, <1>7
-----------------------------------------------------------------------------
(* What the models use *)

\* Sums of integers are integers, and of naturals naturals.
LEMMA SumType ==
  ASSUME NEW f, IsFiniteSet(DOMAIN f)
  PROVE  /\ (\A x \in DOMAIN f : f[x] \in Int) => SumFunction(f) \in Int
         /\ (\A x \in DOMAIN f : f[x] \in Nat) => SumFunction(f) \in Nat
BY SumIs, SumRemoves, SumIsNat

\* Where two functions differ in one place, so do their sums.
LEMMA SumDiffers ==
  ASSUME NEW D, IsFiniteSet(D), NEW f, NEW g, NEW a \in D,
         DOMAIN f = D, DOMAIN g = D, \A x \in D : f[x] \in Int /\ g[x] \in Int,
         \A x \in D : x # a => f[x] = g[x]
  PROVE  SumFunction(g) - SumFunction(f) = g[a] - f[a]
<1>1. IsFiniteSet(D \ {a}) /\ \A x \in D \ {a} : f[x] = g[x]
  BY FS_Subset
<1>2. Sum(f, D \ {a}) = Sum(g, D \ {a})
  BY <1>1, SumAgrees
<1>3. Sum(f, D) = f[a] + Sum(f, D \ {a}) /\ Sum(g, D) = g[a] + Sum(g, D \ {a})
  BY SumRemoves
<1>4. Sum(f, D \ {a}) \in Int
  BY <1>1, SumRemoves
<1> QED
  BY <1>2, <1>3, <1>4, SumIs

\* A sum over more elements is a sum over fewer with 0 for the others.
LEMMA SumOverMore ==
  ASSUME NEW D, IsFiniteSet(D), NEW E \in SUBSET D, NEW f, \A x \in E : f[x] \in Int
  PROVE  Sum(f, E) = Sum([x \in D |-> IF x \in E THEN f[x] ELSE 0], D)
<1> DEFINE g == [x \in D |-> IF x \in E THEN f[x] ELSE 0]
           Bad == {s \in SUBSET D : E \subseteq s /\ Sum(g, s) # Sum(f, E)}
<1> SUFFICES ASSUME Bad # {}
             PROVE  FALSE
  OBVIOUS
<1>0. \A x \in D : g[x] \in Int /\ (x \in E => g[x] = f[x]) /\ (x \notin E => g[x] = 0)
  OBVIOUS
<1>1. Bad \in SUBSET (SUBSET D) /\ Bad # {}
  OBVIOUS
<1> HIDE DEF Bad, g
<1>2. PICK m \in Bad : \A n \in Bad : n \subseteq m => n = m
  BY <1>1, SmallestSet
<1>3. /\ m \in SUBSET D /\ E \subseteq m /\ Sum(g, m) # Sum(f, E)
      /\ \A s \in SUBSET m : E \subseteq s /\ s # m => Sum(g, s) = Sum(f, E)
  BY <1>2 DEF Bad
<1>4. IsFiniteSet(m) /\ IsFiniteSet(E)
  BY <1>3, FS_Subset
<1>5. m # E
  BY <1>0, <1>3, <1>4, SumAgrees
<1>6. PICK x \in m : x \notin E
  BY <1>3, <1>5
<1>7. Sum(g, m) = g[x] + Sum(g, m \ {x})
  BY <1>0, <1>3, <1>4, <1>6, SumRemoves
<1>8. Sum(g, m \ {x}) = Sum(f, E)
  BY <1>3, <1>6
<1>9. Sum(f, E) \in Int
  BY <1>4, SumRemoves
<1> QED
  BY <1>0, <1>3, <1>6, <1>7, <1>8, <1>9
-----------------------------------------------------------------------------
(* Sums of sums *)

\* A family of sets with the empty one, closed under adding an element, has D.
LEMMA SetGrows ==
  ASSUME NEW D, IsFiniteSet(D), NEW Good \in SUBSET (SUBSET D), {} \in Good,
         \A s \in Good, x \in D : x \notin s => s \cup {x} \in Good
  PROVE  D \in Good
<1> DEFINE Bad == (SUBSET D) \ Good
<1> SUFFICES ASSUME Bad # {}
             PROVE  FALSE
  OBVIOUS
<1>1. Bad \in SUBSET (SUBSET D) /\ Bad # {}
  OBVIOUS
<1> HIDE DEF Bad
<1>2. PICK m \in Bad : \A n \in Bad : n \subseteq m => n = m
  BY <1>1, SmallestSet
<1>3. m \in SUBSET D /\ m \notin Good /\ \A s \in SUBSET m : s # m => s \in Good
  BY <1>2 DEF Bad
<1>4. PICK x \in m : TRUE
  BY <1>3
<1>5. m \ {x} \in Good /\ (m \ {x}) \cup {x} = m /\ x \in D
  BY <1>3, <1>4
<1> QED
  BY <1>3, <1>5

\* What an added element does to a sum.
LEMMA SumAdds ==
  ASSUME NEW D, IsFiniteSet(D), NEW f, \A x \in D : f[x] \in Int,
         NEW s \in SUBSET D, NEW x \in D, x \notin s
  PROVE  Sum(f, s \cup {x}) = f[x] + Sum(f, s) /\ Sum(f, s) \in Int /\ f[x] \in Int
<1>1. IsFiniteSet(s) /\ IsFiniteSet(s \cup {x}) /\ (s \cup {x}) \ {x} = s
  BY FS_Subset
<1>2. \A y \in s \cup {x} : f[y] \in Int
  OBVIOUS
<1>3. Sum(f, s \cup {x}) = f[x] + Sum(f, (s \cup {x}) \ {x})
  BY <1>1, <1>2, SumRemoves
<1>4. Sum(f, s) \in Int
  BY <1>1, <1>2, SumRemoves
<1> QED
  BY <1>1, <1>3, <1>4

\* A sum is that of a part and that of the rest.
LEMMA SumParts ==
  ASSUME NEW D, IsFiniteSet(D), NEW f, \A x \in D : f[x] \in Int,
         NEW A \in SUBSET D, NEW B \in SUBSET D,
         \A x \in D : x \in A <=> x \notin B
  PROVE  Sum(f, D) = Sum(f, A) + Sum(f, B) /\ Sum(f, A) \in Int /\ Sum(f, B) \in Int
<1>0. IsFiniteSet(A) /\ IsFiniteSet(B)
  BY FS_Subset
<1>1. Sum(f, A) \in Int /\ Sum(f, B) \in Int
  BY <1>0, SumRemoves
<1> DEFINE Good == {s \in SUBSET B : Sum(f, A \cup s) = Sum(f, A) + Sum(f, s)}
<1>2. {} \in Good
  <2>1. A \cup {} = A /\ Sum(f, {}) = 0
    BY SumEmpty
  <2> QED
    BY <1>1, <2>1
<1>3. ASSUME NEW s \in Good, NEW x \in B, x \notin s
      PROVE  s \cup {x} \in Good
  <2>1. s \in SUBSET B /\ A \cup s \in SUBSET D /\ x \notin A \cup s /\ s \in SUBSET D /\ x \in D
    BY <1>3
  <2>2. Sum(f, A \cup s) = Sum(f, A) + Sum(f, s)
    OBVIOUS
  <2>3. s \cup {x} \in SUBSET B
    BY <2>1
  <2> SUFFICES Sum(f, A \cup (s \cup {x})) = Sum(f, A) + Sum(f, s \cup {x})
    BY <2>3
  <2> HIDE DEF Good
  <2> DEFINE u == A \cup s
  <2>4. u \in SUBSET D /\ x \notin u
    BY <2>1
  <2>5. A \cup (s \cup {x}) = (A \cup s) \cup {x}
    OBVIOUS
  <2> HIDE DEF u
  <2>6. Sum(f, u \cup {x}) = f[x] + Sum(f, u) /\ f[x] \in Int
    BY <2>1, <2>4, SumAdds
  <2>7. Sum(f, s \cup {x}) = f[x] + Sum(f, s) /\ Sum(f, s) \in Int
    BY <1>3, <2>1, SumAdds
  <2>8. Sum(f, A \cup (s \cup {x})) = f[x] + (Sum(f, A) + Sum(f, s))
    BY <2>5, <2>6, <2>2 DEF u
  <2> QED
    BY <1>1, <2>6, <2>7, <2>8
<1>4. Good \in SUBSET (SUBSET B)
  OBVIOUS
<1> HIDE DEF Good
<1>5. B \in Good
  BY <1>0, <1>2, <1>3, <1>4, SetGrows
<1>6. A \cup B = D
  OBVIOUS
<1> QED
  BY <1>1, <1>5, <1>6 DEF Good

\* The sum of a sum of functions.
LEMMA SumPlus ==
  ASSUME NEW D, IsFiniteSet(D), NEW f, NEW g, NEW h,
         \A x \in D : f[x] \in Int /\ g[x] \in Int /\ h[x] = f[x] + g[x]
  PROVE  Sum(h, D) = Sum(f, D) + Sum(g, D)
<1>1. \A x \in D : h[x] \in Int
  OBVIOUS
<1>2. ASSUME NEW s \in SUBSET D, NEW x \in D, x \notin s, Sum(h, s) = Sum(f, s) + Sum(g, s)
      PROVE  Sum(h, s \cup {x}) = Sum(f, s \cup {x}) + Sum(g, s \cup {x})
  <2>1. Sum(f, s \cup {x}) = f[x] + Sum(f, s) /\ Sum(f, s) \in Int
    BY <1>2, SumAdds
  <2>2. Sum(g, s \cup {x}) = g[x] + Sum(g, s) /\ Sum(g, s) \in Int
    BY <1>2, SumAdds
  <2>3. Sum(h, s \cup {x}) = h[x] + Sum(h, s)
    BY <1>1, <1>2, SumAdds
  <2> QED
    BY <1>2, <2>1, <2>2, <2>3
<1> DEFINE Good == {s \in SUBSET D : Sum(h, s) = Sum(f, s) + Sum(g, s)}
<1>3. {} \in Good
  BY SumEmpty
<1>4. \A s \in Good, x \in D : x \notin s => s \cup {x} \in Good
  BY <1>2
<1>5. Good \in SUBSET (SUBSET D)
  OBVIOUS
<1> HIDE DEF Good
<1>6. D \in Good
  BY <1>3, <1>4, <1>5, SetGrows
<1> QED
  BY <1>6 DEF Good

\* Zeros add up to 0.
LEMMA SumZero ==
  ASSUME NEW D, IsFiniteSet(D), NEW f, \A x \in D : f[x] = 0
  PROVE  Sum(f, D) = 0
<1>1. Sum(f, D) = Sum(f, D) + Sum(f, D)
  BY SumPlus
<1>2. Sum(f, D) \in Int
  BY SumRemoves
<1> QED
  <2>1. \A x \in Int : x = x + x => x = 0
    OBVIOUS
  <2> QED
    BY ONLY <1>1, <1>2, <2>1, Zenon

\* The negatives add up to the negative.
LEMMA SumNegates ==
  ASSUME NEW D, IsFiniteSet(D), NEW f, NEW g, \A x \in D : f[x] \in Int /\ g[x] = -f[x]
  PROVE  Sum(g, D) = -Sum(f, D)
<1> DEFINE z == [x \in D |-> 0]
<1>1. \A x \in D : f[x] \in Int /\ g[x] \in Int /\ z[x] = f[x] + g[x]
  OBVIOUS
<1>2. Sum(z, D) = 0
  BY SumZero
<1> HIDE DEF z
<1>3. Sum(z, D) = Sum(f, D) + Sum(g, D)
  BY <1>1, SumPlus
<1>4. Sum(f, D) \in Int /\ Sum(g, D) \in Int
  BY <1>1, SumRemoves
<1> QED
  BY <1>2, <1>3, <1>4

\* Renaming the elements changes no sum.
LEMMA SumMoved ==
  ASSUME NEW D, IsFiniteSet(D), NEW E, IsFiniteSet(E), NEW f, \A y \in E : f[y] \in Int,
         NEW b, \A x \in D : b[x] \in E, \A x, y \in D : b[x] = b[y] => x = y,
         \A y \in E : \E x \in D : b[x] = y,
         NEW g, \A x \in D : g[x] = f[b[x]]
  PROVE  Sum(g, D) = Sum(f, E)
<1>1. \A x \in D : g[x] \in Int
  OBVIOUS
<1> DEFINE to(s) == {b[x] : x \in s}
<1>2. ASSUME NEW s \in SUBSET D, NEW x \in D, x \notin s, Sum(g, s) = Sum(f, to(s))
      PROVE  Sum(g, s \cup {x}) = Sum(f, to(s \cup {x}))
  <2>1. /\ to(s) \in SUBSET E /\ b[x] \in E /\ b[x] \notin to(s)
        /\ to(s \cup {x}) = to(s) \cup {b[x]}
    BY <1>2
  <2> HIDE DEF to
  <2>2. Sum(g, s \cup {x}) = g[x] + Sum(g, s)
    BY <1>1, <1>2, SumAdds
  <2>3. Sum(f, to(s) \cup {b[x]}) = f[b[x]] + Sum(f, to(s))
    BY <2>1, SumAdds
  <2> QED
    BY <1>2, <2>1, <2>2, <2>3
<1> DEFINE Good == {s \in SUBSET D : Sum(g, s) = Sum(f, to(s))}
<1>3. {} \in Good
  <2>1. to({}) = {}
    OBVIOUS
  <2> QED
    BY <2>1, SumEmpty
<1>4. \A s \in Good, x \in D : x \notin s => s \cup {x} \in Good
  <2> HIDE DEF to
  <2> QED
    BY <1>2
<1>5. Good \in SUBSET (SUBSET D)
  OBVIOUS
<1> HIDE DEF Good
<1>6. D \in Good
  BY <1>3, <1>4, <1>5, SetGrows
<1>7. to(D) = E
  OBVIOUS
<1> QED
  BY <1>6, <1>7 DEF Good

\* m is a table of integers with the rows r, which add up to u.
IsTable(m, S, A, r, u) ==
  /\ \A i \in S, a \in A : m[<<i, a>>] \in Int
  /\ \A i \in S, a \in A : r[i][a] = m[<<i, a>>]
  /\ \A i \in S : u[i] = Sum(r[i], A)

\* A table adds up by its rows.
LEMMA SumByRows ==
  ASSUME NEW S, IsFiniteSet(S), NEW A, IsFiniteSet(A), NEW m, NEW r, NEW u,
         IsTable(m, S, A, r, u)
  PROVE  /\ Sum(m, S \X A) = Sum(u, S)
         /\ \A i \in S : u[i] \in Int
<1> USE DEF IsTable
<1>1. \A i \in S : u[i] \in Int
  <2> TAKE i \in S
  <2>1. \A a \in A : r[i][a] \in Int
    OBVIOUS
  <2> QED
    BY <2>1, SumRemoves
<1>2. \A s \in SUBSET S : IsFiniteSet(s \X A)
  BY FS_Product, FS_Subset
<1>3. ASSUME NEW x \in S
      PROVE  Sum(m, {x} \X A) = u[x]
  <2> DEFINE b == [a \in A |-> <<x, a>>]
             E == {x} \X A
             g == r[x]
  <2>1. /\ \A a \in A : b[a] \in E /\ g[a] = m[b[a]]
        /\ \A a, c \in A : b[a] = b[c] => a = c
        /\ \A y \in E : \E a \in A : b[a] = y
        /\ \A y \in E : m[y] \in Int
    OBVIOUS
  <2>2. IsFiniteSet(E)
    BY <1>2
  <2>3. u[x] = Sum(g, A)
    OBVIOUS
  <2> HIDE DEF b, E, g
  <2>4. Sum(g, A) = Sum(m, E)
    BY <2>1, <2>2, SumMoved
  <2> QED
    BY <2>3, <2>4 DEF E
<1>4. ASSUME NEW s \in SUBSET S, NEW x \in S, x \notin s, Sum(m, s \X A) = Sum(u, s)
      PROVE  Sum(m, (s \cup {x}) \X A) = Sum(u, s \cup {x})
  <2> DEFINE D == (s \cup {x}) \X A
             P == s \X A
             Q == {x} \X A
  <2>1. P \in SUBSET D /\ Q \in SUBSET D /\ \A q \in D : q \in P <=> q \notin Q
    BY <1>4
  <2>5. IsFiniteSet(D) /\ D \in SUBSET (S \X A)
    BY <1>2
  <2>6. \A q \in D : m[q] \in Int
    BY <2>5
  <2>4. Sum(m, P) = Sum(u, s) /\ Sum(m, Q) = u[x]
    BY <1>3, <1>4
  <2> HIDE DEF D, P, Q
  <2>2. Sum(m, D) = Sum(m, P) + Sum(m, Q) /\ Sum(m, P) \in Int
    BY <2>1, <2>5, <2>6, SumParts
  <2>3. Sum(u, s \cup {x}) = u[x] + Sum(u, s) /\ u[x] \in Int
    BY <1>1, <1>4, SumAdds
  <2> QED
    BY <2>2, <2>3, <2>4 DEF D
<1> DEFINE Good == {s \in SUBSET S : Sum(m, s \X A) = Sum(u, s)}
<1>5. {} \in Good
  <2>1. {} \X A = {}
    OBVIOUS
  <2> QED
    BY <2>1, SumEmpty
<1>6. \A s \in Good, x \in S : x \notin s => s \cup {x} \in Good
  BY <1>4
<1>7. Good \in SUBSET (SUBSET S)
  OBVIOUS
<1> HIDE DEF Good
<1>8. S \in Good
  BY <1>5, <1>6, <1>7, SetGrows
<1> QED
  BY <1>1, <1>8 DEF Good

\* The columns of m are c, which add up to v.
HasColumns(m, S, A, c, v) ==
  /\ \A i \in S, a \in A : c[a][i] = m[<<i, a>>]
  /\ \A a \in A : v[a] = Sum(c[a], S)

\* A table adds up to the same by its rows and by its columns.
LEMMA SumBothWays ==
  ASSUME NEW S, IsFiniteSet(S), NEW A, IsFiniteSet(A), NEW m, NEW r, NEW u, NEW c, NEW v,
         IsTable(m, S, A, r, u), HasColumns(m, S, A, c, v)
  PROVE  /\ Sum(u, S) = Sum(v, A)
         /\ Sum(m, S \X A) = Sum(v, A)
         /\ \A a \in A : v[a] \in Int
<1>0. \A i \in S, a \in A : m[<<i, a>>] \in Int
  BY DEF IsTable
<1>8. IsFiniteSet(S) /\ IsFiniteSet(A) /\ IsTable(m, S, A, r, u)
  OBVIOUS
<1>9. Sum(m, S \X A) = Sum(u, S) /\ \A i \in S : u[i] \in Int
  BY ONLY <1>8, SumByRows
<1> DEFINE R == S \X A
           Q == A \X S
           b == [q \in Q |-> <<q[2], q[1]>>]
           t == [q \in Q |-> m[<<q[2], q[1]>>]]
<1>1. /\ \A q \in Q : b[q] \in R /\ t[q] = m[b[q]]
      /\ \A p, q \in Q : b[p] = b[q] => p = q
      /\ \A q \in R : m[q] \in Int
  BY <1>0
<1>2. \A q \in R : \E p \in Q : b[p] = q
  <2>1. \A q \in R : <<q[2], q[1]>> \in Q /\ b[<<q[2], q[1]>>] = q
    OBVIOUS
  <2> QED
    BY <2>1
<1>3. /\ \A a \in A, i \in S : t[<<a, i>>] \in Int
      /\ \A a \in A, i \in S : c[a][i] = t[<<a, i>>]
  BY <1>0 DEF HasColumns
<1>4. IsFiniteSet(R) /\ IsFiniteSet(Q)
  BY FS_Product
<1> HIDE DEF b, t
<1>5. Sum(t, Q) = Sum(m, R)
  <2> HIDE DEF Q, R
  <2> QED
    BY <1>1, <1>2, <1>4, SumMoved
<1>6. IsTable(t, A, S, c, v)
  BY <1>3 DEF IsTable, HasColumns
<1>7. Sum(t, Q) = Sum(v, A) /\ \A a \in A : v[a] \in Int
  BY <1>6, SumByRows
<1> QED
  BY <1>5, <1>7, <1>9

\* The community module's sum over a subset of a function's domain is that sum.
LEMMA SumOnSetIs ==
  ASSUME NEW f, NEW s
  PROVE  SumFunctionOnSet(f, s) = Sum(f, s)
BY DEF SumFunctionOnSet, FoldFunctionOnSet, MapThenFoldSet, Sum, Adds, Pick
=============================================================================
