------------------------------- MODULE Totals -------------------------------
(***************************************************************************)
(* Sums over finite sets, as the ledgers keep them: what MapThenSumSet is  *)
(* for the empty set, for one element more and for a disjoint union.       *)
(*                                                                         *)
(* MapThenSumSet is a recursive function on the subsets of its set.  That  *)
(* such a function exists, and what it does, is shown without an induction *)
(* theorem: of the sets a statement fails for, one has the fewest          *)
(* elements, and taking one element from it gives a smaller one.           *)
(***************************************************************************)
EXTENDS FiniteSetsExt, FiniteSetTheorems, TLAPS

\* The sum of f over S: MapThenSumSet, of a function.
Total(f, S) == MapThenSumSet(LAMBDA x : f[x], S)

\* The element the sum adds next, and what it is at s when g is what it is
\* below s; g is a run when it grows that way at every subset of S.
Pick(s) == CHOOSE x \in s : TRUE
Grow(f, g, s) == IF s = {} THEN 0 ELSE f[Pick(s)] + g[s \ {Pick(s)}]
IsRun(f, S, g) == g = [s \in SUBSET S |-> Grow(f, g, s)]

\* The run MapThenSumSet is defined by.
Run(f, S) == CHOOSE g : IsRun(f, S, g)

-----------------------------------------------------------------------------
(* Smallest counterexamples. *)

\* Natural numbers have a smallest one.
LEMMA NatHasMin ==
  ASSUME NEW T \in SUBSET Nat, T # {}
  PROVE  \E n \in T : \A m \in T : n <= m
<1> DEFINE R == {ss \in Nat \X Nat : ss[1] < ss[2]}
<1>1. OpToRel(<, Nat) = R
  BY DEF OpToRel
<1>2. IsWellFoundedOn(R, Nat)
  BY <1>1, NatLessThanWellFounded
<1> HIDE DEF R
<1>3. PICK n \in T : \A m \in T : ~ (<<m, n>> \in R)
  BY <1>2, WFMin
<1>4. \A m \in T : ~ (m < n)
  BY <1>3 DEF R
<1> QED
  BY <1>4

\* Of finite sets, one has the fewest elements.
LEMMA SmallestSet ==
  ASSUME NEW C, \A S \in C : IsFiniteSet(S), C # {}
  PROVE  \E S \in C : \A T \in C : Cardinality(S) <= Cardinality(T)
<1> DEFINE sizes == {Cardinality(S) : S \in C}
<1>1. sizes \in SUBSET Nat /\ sizes # {}
  BY FS_CardinalityType
<1>2. PICK n \in sizes : \A m \in sizes : n <= m
  BY <1>1, NatHasMin
<1> QED
  BY <1>2

\* A set loses size when it loses an element.
LEMMA OneLess ==
  ASSUME NEW S, IsFiniteSet(S), NEW x \in S
  PROVE  IsFiniteSet(S \ {x}) /\ ~ (Cardinality(S) <= Cardinality(S \ {x}))
<1>1. Cardinality(S) \in Nat /\ Cardinality(S) # 0
  BY FS_EmptySet, FS_CardinalityType
<1>2. IsFiniteSet(S \ {x}) /\ Cardinality(S \ {x}) = Cardinality(S) - 1
  BY FS_RemoveElement
<1> QED
  BY <1>1, <1>2

\* So it does when it loses the element the sum adds next.
LEMMA Picked ==
  ASSUME NEW s, IsFiniteSet(s), s # {}
  PROVE  /\ Pick(s) \in s
         /\ IsFiniteSet(s \ {Pick(s)})
         /\ ~ (Cardinality(s) <= Cardinality(s \ {Pick(s)}))
<1>1. Pick(s) \in s
  BY DEF Pick
<1> QED
  BY <1>1, OneLess

-----------------------------------------------------------------------------
(* The recursion. *)

\* Unfolded, a sum is the value of its run.
LEMMA TotalRun ==
  ASSUME NEW f, NEW S
  PROVE  Total(f, S) = Run(f, S)[S]
BY DEF Total, MapThenSumSet, MapThenFoldSet, Run, IsRun, Grow, Pick

\* Two runs have the same values where both are defined.
LEMMA RunsAgree ==
  ASSUME NEW f, NEW S, NEW T, NEW g, NEW h,
         IsFiniteSet(S), IsFiniteSet(T), IsRun(f, S, g), IsRun(f, T, h),
         NEW s \in (SUBSET S) \cap (SUBSET T)
  PROVE  g[s] = h[s]
<1> DEFINE bad == {u \in (SUBSET S) \cap (SUBSET T) : g[u] # h[u]}
<1>1. SUFFICES ASSUME bad # {} PROVE FALSE
  OBVIOUS
<1>2. \A u \in bad : IsFiniteSet(u)
  BY FS_Subset
<1>3. PICK u \in bad : \A v \in bad : Cardinality(u) <= Cardinality(v)
  BY <1>1, <1>2, SmallestSet
<1>4. g[u] = Grow(f, g, u) /\ h[u] = Grow(f, h, u)
  BY DEF IsRun
<1>5. CASE u = {}
  BY <1>4, <1>5 DEF Grow
<1>6. CASE u # {}
  <2> DEFINE rest == u \ {Pick(u)}
  <2>1. /\ rest \in (SUBSET S) \cap (SUBSET T)
        /\ ~ (Cardinality(u) <= Cardinality(rest))
    BY <1>2, <1>6, Picked
  <2>2. rest \notin bad
    BY <1>3, <2>1
  <2>3. g[rest] = h[rest]
    BY <2>1, <2>2
  <2> QED
    BY <1>4, <1>6, <2>3 DEF Grow
<1> QED
  BY <1>5, <1>6

\* Every finite set has a run: a smallest set without one would get its run
\* from those of its proper subsets.
LEMMA RunExists ==
  ASSUME NEW f, NEW S, IsFiniteSet(S)
  PROVE  IsRun(f, S, Run(f, S))
<1> DEFINE bad == {T \in SUBSET S : ~ \E g : IsRun(f, T, g)}
<1>1. SUFFICES ASSUME bad # {} PROVE FALSE
  BY DEF Run
<1>2. \A T \in bad : IsFiniteSet(T)
  BY FS_Subset
<1>3. PICK U \in bad : \A T \in bad : Cardinality(U) <= Cardinality(T)
  BY <1>1, <1>2, SmallestSet
<1> DEFINE below == (SUBSET U) \ {U}
<1>4. ASSUME NEW T \in below PROVE IsFiniteSet(T) /\ IsRun(f, T, Run(f, T))
  <2>1. IsFiniteSet(T) /\ Cardinality(T) < Cardinality(U)
    BY <1>2, FS_Subset, FS_CardinalityType
  <2>2. T \notin bad
    BY <1>2, <1>3, <2>1, FS_CardinalityType
  <2> QED
    BY <2>1, <2>2 DEF Run
<1> DEFINE last(s) == Run(f, s)[s]
           g == [s \in SUBSET U |->
                   IF s = {} THEN 0 ELSE f[Pick(s)] + last(s \ {Pick(s)})]
<1>5. ASSUME NEW s \in below PROVE g[s] = last(s)
  <2>1. Run(f, s)[s] = Grow(f, Run(f, s), s)
    BY <1>4 DEF IsRun
  <2>2. CASE s = {}
    BY <2>1, <2>2 DEF Grow
  <2>3. CASE s # {}
    <3> DEFINE rest == s \ {Pick(s)}
    <3>1. Pick(s) \in s
      BY <2>3 DEF Pick
    <3>2. rest \in below
      BY <3>1
    <3>3. Run(f, s)[rest] = Run(f, rest)[rest]
      BY <1>4, <3>2, RunsAgree
    <3>4. Run(f, s)[s] = f[Pick(s)] + Run(f, s)[rest]
      BY <2>1, <2>3 DEF Grow
    <3> QED
      BY <2>3, <3>3, <3>4
  <2> QED
    BY <2>2, <2>3
<1>6. ASSUME NEW s \in SUBSET U PROVE g[s] = Grow(f, g, s)
  <2>1. CASE s = {}
    BY <2>1 DEF Grow
  <2>2. CASE s # {}
    <3> DEFINE rest == s \ {Pick(s)}
    <3>1. rest \in below
      BY <2>2 DEF Pick
    <3>2. g[rest] = last(rest)
      BY <1>5, <3>1
    <3>3. g[s] = f[Pick(s)] + last(rest)
      BY <2>2
    <3> HIDE DEF g
    <3> QED
      BY <2>2, <3>2, <3>3 DEF Grow
  <2> QED
    BY <2>1, <2>2
<1>7. IsRun(f, U, g)
  <2>1. g = [s \in SUBSET U |-> g[s]]
    OBVIOUS
  <2> HIDE DEF g
  <2> QED
    BY <1>6, <2>1 DEF IsRun
<1> QED
  BY <1>3, <1>7

\* A set's run gives the sums of its subsets.
LEMMA TotalIsRun ==
  ASSUME NEW f, NEW S, IsFiniteSet(S), NEW T \in SUBSET S
  PROVE  Total(f, T) = Run(f, S)[T]
<1>1. IsFiniteSet(T)
  BY FS_Subset
<1>2. Total(f, T) = Run(f, T)[T]
  BY TotalRun
<1> QED
  BY <1>1, <1>2, RunExists, RunsAgree

-----------------------------------------------------------------------------
(* Sums. *)

\* The empty sum is 0.
LEMMA TotalEmpty == ASSUME NEW f PROVE Total(f, {}) = 0
<1>1. IsRun(f, {}, Run(f, {})) /\ Total(f, {}) = Run(f, {})[{}]
  BY RunExists, TotalIsRun, FS_EmptySet
<1> QED
  BY <1>1 DEF IsRun, Grow

\* The sum takes its picked element first.
LEMMA TotalPicked ==
  ASSUME NEW f, NEW S, IsFiniteSet(S), S # {}
  PROVE  Total(f, S) = f[Pick(S)] + Total(f, S \ {Pick(S)})
<1>1. Run(f, S)[S] = Grow(f, Run(f, S), S)
  <2> DEFINE g == Run(f, S)
  <2>1. g = [s \in SUBSET S |-> Grow(f, g, s)]
    BY RunExists DEF IsRun
  <2> HIDE DEF g
  <2>2. g[S] = Grow(f, g, S)
    BY <2>1
  <2> QED
    BY <2>2 DEF g
<1>2. /\ Total(f, S) = Run(f, S)[S]
      /\ Total(f, S \ {Pick(S)}) = Run(f, S)[S \ {Pick(S)}]
  BY TotalIsRun
<1> QED
  BY <1>1, <1>2 DEF Grow

\* Natural numbers add up to a natural number.
LEMMA TotalType ==
  ASSUME NEW f, NEW S, IsFiniteSet(S), \A x \in S : f[x] \in Nat
  PROVE  Total(f, S) \in Nat
<1> DEFINE bad == {T \in SUBSET S : Total(f, T) \notin Nat}
<1>1. SUFFICES ASSUME bad # {} PROVE FALSE
  OBVIOUS
<1>2. \A T \in bad : IsFiniteSet(T)
  BY FS_Subset
<1>3. PICK T \in bad : \A U \in bad : Cardinality(T) <= Cardinality(U)
  BY <1>1, <1>2, SmallestSet
<1>4. T # {}
  BY TotalEmpty
<1> DEFINE rest == T \ {Pick(T)}
<1>5. Total(f, rest) \in Nat
  <2>1. rest \notin bad
    BY <1>2, <1>3, <1>4, Picked
  <2> QED
    BY <2>1
<1>6. Total(f, T) = f[Pick(T)] + Total(f, rest)
  BY <1>2, <1>4, TotalPicked
<1>7. f[Pick(T)] \in Nat
  BY <1>2, <1>4, Picked
<1> QED
  BY <1>5, <1>6, <1>7

\* Any element may be taken first.
LEMMA TotalTake ==
  ASSUME NEW f, NEW S, IsFiniteSet(S), \A x \in S : f[x] \in Nat, NEW x \in S
  PROVE  Total(f, S) = f[x] + Total(f, S \ {x})
<1> DEFINE bad == {T \in SUBSET S : \E y \in T : Total(f, T) # f[y] + Total(f, T \ {y})}
<1>1. SUFFICES ASSUME bad # {} PROVE FALSE
  OBVIOUS
<1>2. \A T \in SUBSET S : IsFiniteSet(T)
  BY FS_Subset
<1>3. PICK T \in bad : \A U \in bad : Cardinality(T) <= Cardinality(U)
  BY <1>1, <1>2, SmallestSet
<1>4. PICK y \in T : Total(f, T) # f[y] + Total(f, T \ {y})
  OBVIOUS
<1> DEFINE p == Pick(T)
<1>5. T \in SUBSET S /\ IsFiniteSet(T) /\ p \in T
  BY <1>2, <1>4, Picked
<1>6. Total(f, T) = f[p] + Total(f, T \ {p})
  BY <1>4, <1>5, TotalPicked
<1> HIDE DEF p
<1>7. p # y
  BY <1>4, <1>6
<1>8. ASSUME NEW z \in T, NEW u \in T \ {z}
      PROVE  Total(f, T \ {z}) = f[u] + Total(f, (T \ {z}) \ {u})
  <2>1. T \ {z} \in SUBSET S /\ ~ (Cardinality(T) <= Cardinality(T \ {z}))
    BY <1>5, OneLess
  <2>2. T \ {z} \notin bad
    BY <1>3, <2>1
  <2> QED
    BY <2>1, <2>2
<1>9. /\ Total(f, T \ {p}) = f[y] + Total(f, (T \ {p}) \ {y})
      /\ Total(f, T \ {y}) = f[p] + Total(f, (T \ {y}) \ {p})
  BY <1>5, <1>7, <1>8
<1>10. (T \ {p}) \ {y} = (T \ {y}) \ {p}
  OBVIOUS
<1> DEFINE rest == Total(f, (T \ {y}) \ {p})
<1>11. rest \in Nat /\ f[p] \in Nat /\ f[y] \in Nat
  <2>1. (T \ {y}) \ {p} \in SUBSET S
    BY <1>5
  <2> QED
    BY <1>2, <1>5, <2>1, TotalType
<1>12. Total(f, T) = f[p] + (f[y] + rest) /\ Total(f, T \ {y}) = f[p] + rest
  BY <1>6, <1>9, <1>10
<1> HIDE DEF rest
<1> QED
  BY <1>4, <1>11, <1>12

\* A new element adds its value.
LEMMA TotalAdd ==
  ASSUME NEW f, NEW S, IsFiniteSet(S), NEW x, x \notin S,
         \A y \in S \cup {x} : f[y] \in Nat
  PROVE  Total(f, S \cup {x}) = f[x] + Total(f, S)
<1>1. IsFiniteSet(S \cup {x}) /\ x \in S \cup {x} /\ (S \cup {x}) \ {x} = S
  BY FS_AddElement
<1> QED
  BY <1>1, TotalTake

\* Only the values on the set matter.
LEMMA TotalCongruence ==
  ASSUME NEW f, NEW g, NEW S, IsFiniteSet(S), \A x \in S : f[x] = g[x]
  PROVE  Total(f, S) = Total(g, S)
<1> DEFINE bad == {T \in SUBSET S : Total(f, T) # Total(g, T)}
<1>1. SUFFICES ASSUME bad # {} PROVE FALSE
  OBVIOUS
<1>2. \A T \in bad : IsFiniteSet(T)
  BY FS_Subset
<1>3. PICK T \in bad : \A U \in bad : Cardinality(T) <= Cardinality(U)
  BY <1>1, <1>2, SmallestSet
<1>4. T # {}
  BY TotalEmpty
<1> DEFINE rest == T \ {Pick(T)}
<1>5. Total(f, rest) = Total(g, rest)
  <2>1. rest \notin bad
    BY <1>2, <1>3, <1>4, Picked
  <2> QED
    BY <2>1
<1>6. /\ Total(f, T) = f[Pick(T)] + Total(f, rest)
      /\ Total(g, T) = g[Pick(T)] + Total(g, rest)
  BY <1>2, <1>4, TotalPicked
<1>7. f[Pick(T)] = g[Pick(T)]
  BY <1>2, <1>4, Picked
<1> QED
  BY <1>5, <1>6, <1>7

\* The sum over a disjoint union.
LEMMA TotalUnion ==
  ASSUME NEW f, NEW S, NEW T, IsFiniteSet(S), IsFiniteSet(T), S \cap T = {},
         \A x \in S \cup T : f[x] \in Nat
  PROVE  Total(f, S \cup T) = Total(f, S) + Total(f, T)
<1> DEFINE bad == {U \in SUBSET T : Total(f, S \cup U) # Total(f, S) + Total(f, U)}
<1>1. SUFFICES ASSUME bad # {} PROVE FALSE
  OBVIOUS
<1>2. \A U \in SUBSET T : IsFiniteSet(U) /\ IsFiniteSet(S \cup U)
  BY FS_Subset, FS_Union
<1>3. PICK U \in bad : \A V \in bad : Cardinality(U) <= Cardinality(V)
  BY <1>1, <1>2, SmallestSet
<1>4. Total(f, S) \in Nat
  BY TotalType
<1>5. U # {}
  <2>1. S \cup {} = S /\ Total(f, S) + 0 = Total(f, S)
    BY <1>4
  <2> QED
    BY <2>1, TotalEmpty
<1>6. PICK x \in U : TRUE
  BY <1>5
<1> DEFINE rest == U \ {x}
<1>7. Total(f, S \cup rest) = Total(f, S) + Total(f, rest)
  <2>1. rest \in SUBSET T /\ ~ (Cardinality(U) <= Cardinality(rest))
    BY <1>2, OneLess
  <2>2. rest \notin bad
    BY <1>3, <2>1
  <2> QED
    BY <2>1, <2>2
<1>8. Total(f, U) = f[x] + Total(f, rest)
  BY <1>2, TotalTake
<1>9. Total(f, S \cup U) = f[x] + Total(f, S \cup rest)
  <2>1. (S \cup U) \ {x} = S \cup rest
    OBVIOUS
  <2> QED
    BY <1>2, <2>1, TotalTake
<1>10. f[x] \in Nat /\ Total(f, rest) \in Nat
  BY <1>2, TotalType
<1> HIDE DEF rest
<1> QED
  BY <1>4, <1>7, <1>8, <1>9, <1>10

\* What m maps to y.
Part(S, m, y) == {x \in S : m[x] = y}

\* A sum part by part.
LEMMA TotalByParts ==
  ASSUME NEW f, NEW S, IsFiniteSet(S), \A x \in S : f[x] \in Nat, NEW m,
         NEW g, NEW I, IsFiniteSet(I),
         \A x \in S : m[x] \in I,
         \A y \in I : g[y] = Total(f, Part(S, m, y))
  PROVE  /\ \A y \in I : g[y] \in Nat
         /\ Total(g, I) = Total(f, S)
<1> DEFINE Parts(Y) == {x \in S : m[x] \in Y}
           bad == {Y \in SUBSET I : Total(g, Y) # Total(f, Parts(Y))}
<1>1. \A Y : IsFiniteSet(Parts(Y)) /\ IsFiniteSet(Part(S, m, Y))
  BY FS_Subset DEF Part
<1>2. \A y \in I : g[y] \in Nat
  <2> SUFFICES ASSUME NEW y \in I PROVE g[y] \in Nat
    OBVIOUS
  <2>1. g[y] = Total(f, Part(S, m, y)) /\ \A x \in Part(S, m, y) : f[x] \in Nat
    BY DEF Part
  <2>2. IsFiniteSet(Part(S, m, y))
    BY <1>1
  <2>3. Total(f, Part(S, m, y)) \in Nat
    BY <2>1, <2>2, TotalType
  <2> QED
    BY <2>1, <2>3
<1>3. bad = {}
  <2>1. SUFFICES ASSUME bad # {} PROVE FALSE
    OBVIOUS
  <2>2. \A Y \in SUBSET I : IsFiniteSet(Y)
    BY FS_Subset
  <2>3. PICK Y \in bad : \A Z \in bad : Cardinality(Y) <= Cardinality(Z)
    BY <2>1, <2>2, SmallestSet
  <2>4. Y # {}
    <3>1. Parts({}) = {}
      OBVIOUS
    <3> QED
      BY <3>1, TotalEmpty
  <2>5. PICK y \in Y : TRUE
    BY <2>4
  <2> DEFINE rest == Y \ {y}
  <2>6. Total(g, rest) = Total(f, Parts(rest))
    <3>1. rest \in SUBSET I /\ ~ (Cardinality(Y) <= Cardinality(rest))
      BY <2>2, OneLess
    <3> QED
      BY <2>3, <3>1
  <2>7. Total(g, Y) = g[y] + Total(g, rest)
    BY <1>2, <2>2, TotalTake
  <2>8. Total(f, Parts(Y)) = Total(f, Part(S, m, y)) + Total(f, Parts(rest))
    <3>1. Parts(Y) = Part(S, m, y) \cup Parts(rest) /\ Part(S, m, y) \cap Parts(rest) = {}
      BY DEF Part
    <3>2. \A x \in Part(S, m, y) \cup Parts(rest) : f[x] \in Nat
      BY DEF Part
    <3>3. IsFiniteSet(Part(S, m, y)) /\ IsFiniteSet(Parts(rest))
      BY <1>1
    <3> HIDE DEF Parts, bad
    <3>4. Total(f, Part(S, m, y) \cup Parts(rest)) = Total(f, Part(S, m, y)) + Total(f, Parts(rest))
      BY <3>1, <3>2, <3>3, TotalUnion
    <3> QED
      BY <3>1, <3>4
  <2>9. g[y] = Total(f, Part(S, m, y))
    OBVIOUS
  <2> QED
    BY <2>6, <2>7, <2>8, <2>9
<1>4. Parts(I) = S
  OBVIOUS
<1> QED
  BY <1>2, <1>3, <1>4

\* A part adds up to no more than the whole.
LEMMA TotalMonotone ==
  ASSUME NEW f, NEW T, IsFiniteSet(T), \A x \in T : f[x] \in Nat, NEW S \in SUBSET T
  PROVE  Total(f, S) <= Total(f, T)
<1>1. IsFiniteSet(S) /\ IsFiniteSet(T \ S)
  BY FS_Subset
<1>2. S \cup (T \ S) = T /\ S \cap (T \ S) = {}
  OBVIOUS
<1>3. Total(f, T) = Total(f, S) + Total(f, T \ S)
  BY <1>1, <1>2, TotalUnion
<1>4. Total(f, S) \in Nat /\ Total(f, T \ S) \in Nat
  BY <1>1, TotalType
<1> QED
  BY <1>3, <1>4

\* If each value is within the sum of two others, so is the total.
LEMMA TotalWithin ==
  ASSUME NEW f, NEW g, NEW h, NEW S, IsFiniteSet(S),
         \A x \in S : f[x] \in Nat /\ g[x] \in Nat /\ h[x] \in Nat /\ f[x] <= g[x] + h[x]
  PROVE  Total(f, S) <= Total(g, S) + Total(h, S)
<1> DEFINE bad == {T \in SUBSET S : ~ (Total(f, T) <= Total(g, T) + Total(h, T))}
<1>1. SUFFICES ASSUME bad # {} PROVE FALSE
  OBVIOUS
<1>2. \A T \in SUBSET S : IsFiniteSet(T)
  BY FS_Subset
<1>3. PICK T \in bad : \A U \in bad : Cardinality(T) <= Cardinality(U)
  BY <1>1, <1>2, SmallestSet
<1>4. T # {}
  <2>1. Total(f, {}) = 0 /\ Total(g, {}) = 0 /\ Total(h, {}) = 0
    BY TotalEmpty
  <2>2. Total(f, {}) <= Total(g, {}) + Total(h, {})
    BY <2>1
  <2> QED
    BY <2>2
<1>5. PICK x \in T : TRUE
  BY <1>4
<1> DEFINE rest == T \ {x}
<1>6. Total(f, rest) <= Total(g, rest) + Total(h, rest)
  <2>1. rest \in SUBSET S /\ rest \notin bad
    BY <1>2, <1>3, OneLess
  <2> QED
    BY <2>1
<1>7. /\ Total(f, T) = f[x] + Total(f, rest)
      /\ Total(g, T) = g[x] + Total(g, rest)
      /\ Total(h, T) = h[x] + Total(h, rest)
  BY <1>2, TotalTake
<1>8. Total(f, rest) \in Nat /\ Total(g, rest) \in Nat /\ Total(h, rest) \in Nat
  BY <1>2, TotalType
<1>9. ~ (Total(f, T) <= Total(g, T) + Total(h, T))
  OBVIOUS
<1>10. f[x] \in Nat /\ g[x] \in Nat /\ h[x] \in Nat /\ f[x] <= g[x] + h[x]
  OBVIOUS
<1> HIDE DEF rest, bad
<1> QED
  BY <1>6, <1>7, <1>8, <1>9, <1>10

\* So many values, none above m.
LEMMA TotalBound ==
  ASSUME NEW f, NEW S, IsFiniteSet(S), NEW m \in Nat,
         \A x \in S : f[x] \in Nat /\ f[x] <= m
  PROVE  Total(f, S) <= Cardinality(S) * m
<1> DEFINE bad == {T \in SUBSET S : ~ (Total(f, T) <= Cardinality(T) * m)}
<1>1. SUFFICES ASSUME bad # {} PROVE FALSE
  OBVIOUS
<1>2. \A T \in SUBSET S : IsFiniteSet(T)
  BY FS_Subset
<1>3. PICK T \in bad : \A U \in bad : Cardinality(T) <= Cardinality(U)
  BY <1>1, <1>2, SmallestSet
<1>4. PICK x \in T : TRUE
  <2>1. 0 <= 0 * m
    OBVIOUS
  <2> QED
    BY <1>3, <2>1, TotalEmpty, FS_EmptySet
<1> DEFINE rest == T \ {x}
<1>5. Total(f, T) = f[x] + Total(f, rest)
  BY <1>2, TotalTake
<1>6. Total(f, rest) <= Cardinality(rest) * m
  <2>1. rest \in SUBSET S /\ ~ (Cardinality(T) <= Cardinality(rest))
    BY <1>2, OneLess
  <2> QED
    BY <1>3, <2>1
<1>7. Cardinality(rest) \in Nat /\ Cardinality(T) = Cardinality(rest) + 1
  BY <1>2, FS_RemoveElement, FS_AddElement, FS_CardinalityType
<1>8. Total(f, rest) \in Nat /\ f[x] \in Nat /\ f[x] <= m
  BY <1>2, TotalType
<1>9. ~ (Total(f, T) <= Cardinality(T) * m)
  OBVIOUS
<1> HIDE DEF bad, rest
<1>10. \A k \in Nat : (k + 1) * m = k * m + m
  OBVIOUS
<1>11. \A k \in Nat : k * m \in Nat
  OBVIOUS
<1> QED
  BY <1>5, <1>6, <1>7, <1>8, <1>9, <1>10, <1>11

\* Zeros may be left out.
LEMMA TotalNonzero ==
  ASSUME NEW f, NEW S, IsFiniteSet(S), \A x \in S : f[x] \in Nat,
         NEW T \in SUBSET S, \A x \in S \ T : f[x] = 0
  PROVE  Total(f, S) = Total(f, T)
<1>1. IsFiniteSet(T) /\ IsFiniteSet(S \ T)
  BY FS_Subset
<1>2. T \cup (S \ T) = S /\ T \cap (S \ T) = {}
  OBVIOUS
<1>3. Total(f, S) = Total(f, T) + Total(f, S \ T)
  BY <1>1, <1>2, TotalUnion
<1>4. Total(f, S \ T) <= Cardinality(S \ T) * 0
  BY <1>1, TotalBound
<1>5. Total(f, T) \in Nat /\ Total(f, S \ T) \in Nat /\ Cardinality(S \ T) \in Nat
  BY <1>1, TotalType, FS_CardinalityType
<1> QED
  BY <1>3, <1>4, <1>5

\* Finitely many natural numbers have a greatest.
LEMMA FiniteHasMax ==
  ASSUME NEW S \in SUBSET Nat, IsFiniteSet(S), S # {}
  PROVE  Max(S) \in S /\ \A x \in S : x <= Max(S)
<1> DEFINE bad == {T \in SUBSET S : T # {} /\ ~ \E x \in T : \A y \in T : x >= y}
<1>1. bad = {}
  <2>1. SUFFICES ASSUME bad # {} PROVE FALSE
    OBVIOUS
  <2>2. \A T \in bad : IsFiniteSet(T)
    BY FS_Subset
  <2>3. PICK T \in bad : \A U \in bad : Cardinality(T) <= Cardinality(U)
    BY <2>1, <2>2, SmallestSet
  <2>4. PICK x \in T : TRUE
    OBVIOUS
  <2> DEFINE rest == T \ {x}
  <2>5. ~ (Cardinality(T) <= Cardinality(rest))
    BY <2>2, OneLess
  <2>6. CASE rest = {}
    BY <2>6
  <2>7. CASE rest # {}
    <3>1. PICK m \in rest : \A y \in rest : m >= y
      BY <2>3, <2>5, <2>7
    <3> QED
      BY <3>1
  <2> QED
    BY <2>6, <2>7
<1>2. \E x \in S : \A y \in S : x >= y
  BY <1>1
<1> QED
  BY <1>2 DEF Max
=============================================================================
