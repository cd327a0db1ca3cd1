-------------------------------- MODULE Sums --------------------------------
(***************************************************************************)
(* What SumFunctionOnSet computes over a finite set.  The function inside  *)
(* it is recursive; that it exists, and that the order in which it takes   *)
(* the elements does not matter, is proved by looking at a smallest        *)
(* counterexample (WFMin), which needs no induction over a predicate.      *)
(***************************************************************************)
EXTENDS FiniteSetTheorems, TLAPS

\* A set of natural numbers has a smallest element.
LEMMA Smallest ==
  ASSUME NEW T \in SUBSET Nat, T # {}
  PROVE  \E n \in T : \A m \in T : n <= m
<1>1. \E n \in T : \A m \in T : <<m, n>> \notin OpToRel(<, Nat)
  BY NatLessThanWellFounded, WFMin
<1>2. PICK n \in T : \A m \in T : <<m, n>> \notin OpToRel(<, Nat)
  BY <1>1
<1>3. \A m \in T : ~(m < n)
  BY <1>2 DEF OpToRel
<1> QED BY <1>3

\* g follows the recursion of SumFunctionOnSet on the sets of D.
AnyOf(s) == CHOOSE x \in s : TRUE
Recurs(g, w, D) ==
  g = [s \in D |-> IF s = {} THEN 0 ELSE w[AnyOf(s)] + g[s \ {AnyOf(s)}]]

LEMMA AnyIn == ASSUME NEW s, s # {} PROVE AnyOf(s) \in s
BY DEF AnyOf

LEMMA OneLess ==
  ASSUME NEW s, IsFiniteSet(s), NEW x \in s
  PROVE  /\ IsFiniteSet(s \ {x})
         /\ Cardinality(s) \in Nat /\ Cardinality(s \ {x}) \in Nat
         /\ Cardinality(s \ {x}) = Cardinality(s) - 1
BY FS_RemoveElement, FS_CardinalityType

\* The subsets with at most n elements.
Layer(S, n) == {s \in SUBSET S : Cardinality(s) <= n}

LEMMA LayerHasSum ==
  ASSUME NEW S, IsFiniteSet(S), NEW w, NEW n \in Nat
  PROVE  \E g : Recurs(g, w, Layer(S, n))
<1> DEFINE Bad == {k \in Nat : ~\E g : Recurs(g, w, Layer(S, k))}
<1>0. \A s \in SUBSET S : IsFiniteSet(s) /\ Cardinality(s) \in Nat
  BY FS_Subset, FS_CardinalityType
<1>1. 0 \notin Bad
  <2>1. \A s \in Layer(S, 0) : s = {}
    BY <1>0, FS_EmptySet DEF Layer
  <2>2. Recurs([s \in Layer(S, 0) |-> 0], w, Layer(S, 0))
    BY <2>1 DEF Recurs
  <2> QED BY <2>2
<1>2. ASSUME NEW k \in Nat, k \notin Bad PROVE (k + 1) \notin Bad
  <2>1. PICK g : Recurs(g, w, Layer(S, k))
    BY <1>2
  <2> DEFINE h == [s \in Layer(S, k + 1) |->
                     IF s = {} THEN 0 ELSE w[AnyOf(s)] + g[s \ {AnyOf(s)}]]
  <2>2. \A s \in Layer(S, k) : s \in Layer(S, k + 1) /\ h[s] = g[s]
    <3>1. \A s \in Layer(S, k) : s \in Layer(S, k + 1)
      BY <1>0 DEF Layer
    <3>2. \A s \in Layer(S, k) : g[s] = IF s = {} THEN 0 ELSE w[AnyOf(s)] + g[s \ {AnyOf(s)}]
      BY <2>1 DEF Recurs
    <3> QED BY <3>1, <3>2
  <2>3. \A s \in Layer(S, k + 1) : s # {} => s \ {AnyOf(s)} \in Layer(S, k)
    BY <1>0, AnyIn, OneLess DEF Layer
  <2>4. Recurs(h, w, Layer(S, k + 1))
    BY <2>2, <2>3 DEF Recurs
  <2> QED BY <2>4
<1>3. Bad = {}
  <2> SUFFICES ASSUME Bad # {} PROVE FALSE
    OBVIOUS
  <2>1. PICK k \in Bad : \A m \in Bad : k <= m
    BY Smallest
  <2>2. k - 1 \in Nat /\ k - 1 \notin Bad
    BY <1>1, <2>1
  <2>3. k \notin Bad
    BY <1>2, <2>2
  <2> QED BY <2>1, <2>3
<1> QED BY <1>3

IsSum(g, w, S) == Recurs(g, w, SUBSET S)

LEMMA HasSum ==
  ASSUME NEW S, IsFiniteSet(S), NEW w
  PROVE  \E g : IsSum(g, w, S)
<1>1. Layer(S, Cardinality(S)) = SUBSET S
  BY FS_Subset DEF Layer
<1>2. Cardinality(S) \in Nat
  BY FS_CardinalityType
<1>3. \E g : Recurs(g, w, Layer(S, Cardinality(S)))
  BY <1>2, LayerHasSum
<1> QED BY <1>1, <1>3 DEF IsSum

LEMMA SumFollows ==
  ASSUME NEW S, IsFiniteSet(S), NEW w
  PROVE  \E g : IsSum(g, w, S) /\ SumFunctionOnSet(w, S) = g[S]
<1> DEFINE h == CHOOSE g : IsSum(g, w, S)
<1>1. IsSum(h, w, S)
  BY HasSum
<1>2. SumFunctionOnSet(w, S) = h[S]
  BY DEF SumFunctionOnSet, FoldFunctionOnSet, MapThenFoldSet, IsSum, Recurs, AnyOf
<1> QED BY <1>1, <1>2

\* The sum over the other elements is the one this recursion has found.
LEMMA SumsAgree ==
  ASSUME NEW w, NEW S, IsFiniteSet(S), NEW g, IsSum(g, w, S),
         NEW T \in SUBSET S, NEW h, IsSum(h, w, T)
  PROVE  g[T] = h[T]
<1> DEFINE Bad == {k \in Nat : \E s \in SUBSET T : Cardinality(s) = k /\ g[s] # h[s]}
<1>0. \A s \in SUBSET T : IsFiniteSet(s) /\ Cardinality(s) \in Nat /\ s \in SUBSET S
  BY FS_Subset, FS_CardinalityType
<1>1. Bad = {}
  <2> SUFFICES ASSUME Bad # {} PROVE FALSE
    OBVIOUS
  <2>1. PICK k \in Bad : \A m \in Bad : k <= m
    BY Smallest
  <2>2. PICK s \in SUBSET T : Cardinality(s) = k /\ g[s] # h[s]
    BY <2>1
  <2>3. g[s] = IF s = {} THEN 0 ELSE w[AnyOf(s)] + g[s \ {AnyOf(s)}]
    BY <1>0 DEF IsSum, Recurs
  <2>4. h[s] = IF s = {} THEN 0 ELSE w[AnyOf(s)] + h[s \ {AnyOf(s)}]
    BY DEF IsSum, Recurs
  <2>5. s # {} /\ g[s \ {AnyOf(s)}] # h[s \ {AnyOf(s)}]
    BY <2>2, <2>3, <2>4
  <2>6. s \ {AnyOf(s)} \in SUBSET T
    OBVIOUS
  <2>7. Cardinality(s \ {AnyOf(s)}) = k - 1 /\ k - 1 \in Nat
    BY <1>0, <2>2, <2>5, AnyIn, OneLess
  <2>8. k - 1 \in Bad
    BY <2>5, <2>6, <2>7
  <2> QED BY <2>1, <2>8
<1>2. Cardinality(T) \notin Bad /\ Cardinality(T) \in Nat
  BY <1>0, <1>1
<1> QED BY <1>2

LEMMA SumEmpty == ASSUME NEW w PROVE SumFunctionOnSet(w, {}) = 0
<1>1. PICK g : IsSum(g, w, {}) /\ SumFunctionOnSet(w, {}) = g[{}]
  BY SumFollows, FS_EmptySet
<1> QED BY <1>1 DEF IsSum, Recurs

LEMMA SumFirst ==
  ASSUME NEW S, IsFiniteSet(S), S # {}, NEW w
  PROVE  SumFunctionOnSet(w, S) = w[AnyOf(S)] + SumFunctionOnSet(w, S \ {AnyOf(S)})
<1> DEFINE T == S \ {AnyOf(S)}
<1>1. IsFiniteSet(T) /\ T \in SUBSET S
  BY AnyIn, OneLess
<1>2. PICK g : IsSum(g, w, S) /\ SumFunctionOnSet(w, S) = g[S]
  BY SumFollows
<1>3. PICK h : IsSum(h, w, T) /\ SumFunctionOnSet(w, T) = h[T]
  BY <1>1, SumFollows
<1>4. g[T] = h[T]
  <2> HIDE DEF T
  <2> QED BY <1>1, <1>2, <1>3, SumsAgree
<1>5. g[S] = w[AnyOf(S)] + g[T]
  BY <1>2 DEF IsSum, Recurs
<1> QED BY <1>2, <1>3, <1>4, <1>5

\* A sum is in any set that holds 0 and what can be added up.
LEMMA SumClosed ==
  ASSUME NEW S, IsFiniteSet(S), NEW D, 0 \in D, \A a \in D : \A b \in D : a + b \in D,
         NEW w, \A x \in S : w[x] \in D
  PROVE  SumFunctionOnSet(w, S) \in D
<1> DEFINE Bad == {k \in Nat : \E s \in SUBSET S : Cardinality(s) = k /\ SumFunctionOnSet(w, s) \notin D}
<1>0. \A s \in SUBSET S : IsFiniteSet(s) /\ Cardinality(s) \in Nat
  BY FS_Subset, FS_CardinalityType
<1>1. Bad = {}
  <2> SUFFICES ASSUME Bad # {} PROVE FALSE
    OBVIOUS
  <2>1. PICK k \in Bad : \A m \in Bad : k <= m
    BY Smallest
  <2>2. PICK s \in SUBSET S : Cardinality(s) = k /\ SumFunctionOnSet(w, s) \notin D
    BY <2>1
  <2>3. s # {}
    BY <2>2, SumEmpty
  <2>4. SumFunctionOnSet(w, s) = w[AnyOf(s)] + SumFunctionOnSet(w, s \ {AnyOf(s)})
    BY <1>0, <2>3, SumFirst
  <2>5. w[AnyOf(s)] \in D
    BY <2>3, AnyIn
  <2>6. Cardinality(s \ {AnyOf(s)}) = k - 1 /\ k - 1 \in Nat /\ s \ {AnyOf(s)} \in SUBSET S
    BY <1>0, <2>2, <2>3, AnyIn, OneLess
  <2>7. SumFunctionOnSet(w, s \ {AnyOf(s)}) \notin D
    BY <2>2, <2>4, <2>5
  <2>8. k - 1 \in Bad
    BY <2>6, <2>7
  <2> QED BY <2>1, <2>8
<1>2. Cardinality(S) \notin Bad /\ Cardinality(S) \in Nat
  BY <1>0, <1>1
<1> QED BY <1>2

LEMMA SumInt ==
  ASSUME NEW S, IsFiniteSet(S), NEW w, \A x \in S : w[x] \in Int
  PROVE  SumFunctionOnSet(w, S) \in Int
BY SumClosed

LEMMA SumNat ==
  ASSUME NEW S, IsFiniteSet(S), NEW w, \A x \in S : w[x] \in Nat
  PROVE  SumFunctionOnSet(w, S) \in Nat
<1>1. 0 \in Nat /\ \A a \in Nat : \A b \in Nat : a + b \in Nat
  OBVIOUS
<1> QED BY <1>1, SumClosed, Zenon

\* Any element may be taken out first.
LEMMA SumTake ==
  ASSUME NEW S, IsFiniteSet(S), NEW w, \A x \in S : w[x] \in Int, NEW a \in S
  PROVE  SumFunctionOnSet(w, S) = w[a] + SumFunctionOnSet(w, S \ {a})
<1> DEFINE Sum(s) == SumFunctionOnSet(w, s)
           Wrong(s) == \E x \in s : Sum(s) # w[x] + Sum(s \ {x})
           Bad == {k \in Nat : \E s \in SUBSET S : Cardinality(s) = k /\ Wrong(s)}
<1>0. \A s \in SUBSET S : IsFiniteSet(s) /\ Cardinality(s) \in Nat /\ Sum(s) \in Int
  BY FS_Subset, FS_CardinalityType, SumInt
<1>1. Bad = {}
  <2> SUFFICES ASSUME Bad # {} PROVE FALSE
    OBVIOUS
  <2>1. PICK k \in Bad : \A m \in Bad : k <= m
    BY Smallest
  <2>2. PICK s \in SUBSET S : Cardinality(s) = k /\ Wrong(s)
    BY <2>1
  <2>3. PICK x \in s : Sum(s) # w[x] + Sum(s \ {x})
    BY <2>2
  <2> DEFINE c == AnyOf(s)
             t == s \ {c}
             u == s \ {x}
  <2>4. c \in s
    BY <2>3, AnyIn
  <2>5. Sum(s) = w[c] + Sum(t)
    BY <1>0, <2>3, SumFirst
  <2>6. c # x
    BY <2>3, <2>5
  <2>7. /\ t \in SUBSET S /\ Cardinality(t) = k - 1 /\ k - 1 \in Nat
        /\ u \in SUBSET S /\ Cardinality(u) = k - 1
    BY <1>0, <2>2, <2>4, OneLess
  <2>8. ~Wrong(t) /\ ~Wrong(u)
    <3> HIDE DEF Wrong, t, u
    <3>1. k - 1 \notin Bad
      BY <2>1, <2>7
    <3> QED BY <2>7, <3>1
  <2>9. Sum(t) = w[x] + Sum(t \ {x})
    BY <2>6, <2>8
  <2>10. Sum(u) = w[c] + Sum(u \ {c})
    BY <2>4, <2>6, <2>8
  <2>11. t \ {x} = u \ {c}
    OBVIOUS
  <2>12. w[c] \in Int /\ w[x] \in Int /\ Sum(u \ {c}) \in Int
    BY <1>0, <2>4
  <2> HIDE DEF Sum, c, t, u
  <2>13. Sum(t) = w[x] + Sum(u \ {c})
    BY <2>9, <2>11
  <2>14. Sum(s) = w[x] + Sum(u)
    BY <2>5, <2>10, <2>12, <2>13
  <2> QED BY <2>3, <2>14 DEF u
<1>2. ~Wrong(S)
  <2> HIDE DEF Wrong
  <2>1. Cardinality(S) \notin Bad /\ Cardinality(S) \in Nat
    BY <1>0, <1>1
  <2> QED BY <2>1
<1> QED BY <1>2

LEMMA SumAdd ==
  ASSUME NEW S, IsFiniteSet(S), NEW w, NEW a, a \notin S, \A x \in S \cup {a} : w[x] \in Int
  PROVE  SumFunctionOnSet(w, S \cup {a}) = SumFunctionOnSet(w, S) + w[a]
<1>1. IsFiniteSet(S \cup {a})
  BY FS_AddElement
<1>2. SumFunctionOnSet(w, S \cup {a}) = w[a] + SumFunctionOnSet(w, S)
  <2> DEFINE T == S \cup {a}
  <2>1. SumFunctionOnSet(w, T) = w[a] + SumFunctionOnSet(w, T \ {a})
    <3>1. IsFiniteSet(T) /\ a \in T /\ \A x \in T : w[x] \in Int
      BY <1>1
    <3> HIDE DEF T
    <3> QED BY <3>1, SumTake
  <2>2. T \ {a} = S
    OBVIOUS
  <2> HIDE DEF T
  <2> QED BY <2>1, <2>2 DEF T
<1>3. SumFunctionOnSet(w, S) \in Int /\ w[a] \in Int
  BY SumInt
<1> QED BY <1>2, <1>3

\* Only the values on the set count.
LEMMA SumSame ==
  ASSUME NEW S, IsFiniteSet(S), NEW w, NEW v, \A x \in S : w[x] = v[x]
  PROVE  SumFunctionOnSet(w, S) = SumFunctionOnSet(v, S)
<1> DEFINE Bad == {k \in Nat : \E s \in SUBSET S :
                     Cardinality(s) = k /\ SumFunctionOnSet(w, s) # SumFunctionOnSet(v, s)}
<1>0. \A s \in SUBSET S : IsFiniteSet(s) /\ Cardinality(s) \in Nat
  BY FS_Subset, FS_CardinalityType
<1>1. Bad = {}
  <2> SUFFICES ASSUME Bad # {} PROVE FALSE
    OBVIOUS
  <2>1. PICK k \in Bad : \A m \in Bad : k <= m
    BY Smallest
  <2>2. PICK s \in SUBSET S : Cardinality(s) = k /\ SumFunctionOnSet(w, s) # SumFunctionOnSet(v, s)
    BY <2>1
  <2>3. s # {}
    BY <2>2, SumEmpty
  <2>4. /\ SumFunctionOnSet(w, s) = w[AnyOf(s)] + SumFunctionOnSet(w, s \ {AnyOf(s)})
        /\ SumFunctionOnSet(v, s) = v[AnyOf(s)] + SumFunctionOnSet(v, s \ {AnyOf(s)})
    BY <1>0, <2>3, SumFirst
  <2>5. w[AnyOf(s)] = v[AnyOf(s)]
    BY <2>3, AnyIn
  <2>6. Cardinality(s \ {AnyOf(s)}) = k - 1 /\ k - 1 \in Nat /\ s \ {AnyOf(s)} \in SUBSET S
    BY <1>0, <2>2, <2>3, AnyIn, OneLess
  <2>7. k - 1 \in Bad
    BY <2>2, <2>4, <2>5, <2>6
  <2> QED BY <2>1, <2>7
<1>2. Cardinality(S) \notin Bad /\ Cardinality(S) \in Nat
  BY <1>0, <1>1
<1> QED BY <1>2

\* Sums over two sets that have nothing in common.
LEMMA SumUnion ==
  ASSUME NEW S, NEW T, IsFiniteSet(S), IsFiniteSet(T), S \cap T = {}, NEW w,
         \A x \in S \cup T : w[x] \in Int
  PROVE  SumFunctionOnSet(w, S \cup T) = SumFunctionOnSet(w, S) + SumFunctionOnSet(w, T)
<1> DEFINE Sum(s) == SumFunctionOnSet(w, s)
           Bad == {k \in Nat : \E s \in SUBSET T : Cardinality(s) = k /\ Sum(S \cup s) # Sum(S) + Sum(s)}
<1>0. \A s \in SUBSET T : IsFiniteSet(s) /\ Cardinality(s) \in Nat /\ Sum(s) \in Int
  BY FS_Subset, FS_CardinalityType, SumInt
<1>1. Bad = {}
  <2> SUFFICES ASSUME Bad # {} PROVE FALSE
    OBVIOUS
  <2>1. PICK k \in Bad : \A m \in Bad : k <= m
    BY Smallest
  <2>2. PICK s \in SUBSET T : Cardinality(s) = k /\ Sum(S \cup s) # Sum(S) + Sum(s)
    BY <2>1
  <2>3. Sum(S) \in Int /\ Sum({}) = 0 /\ S \cup {} = S
    BY SumInt, SumEmpty
  <2>4. s # {}
    <3> HIDE DEF Sum
    <3> QED BY <2>2, <2>3
  <2>5. PICK a \in s : TRUE
    BY <2>4
  <2> DEFINE t == s \ {a}
  <2>6. t \in SUBSET T /\ Cardinality(t) = k - 1 /\ k - 1 \in Nat
    BY <1>0, <2>2, <2>5, OneLess
  <2>7. Sum(S \cup t) = Sum(S) + Sum(t)
    <3> HIDE DEF Sum, t
    <3>1. k - 1 \notin Bad
      BY <2>1, <2>6
    <3> QED BY <2>6, <3>1
  <2>8. s = t \cup {a} /\ S \cup s = (S \cup t) \cup {a} /\ a \notin S \cup t
    BY <2>2, <2>5
  <2>9. IsFiniteSet(t) /\ IsFiniteSet(S \cup t)
    BY <1>0, <2>6, FS_Union
  <2>10. \A x \in s \cup S : w[x] \in Int
    BY <2>2
  <2>11. Sum(t \cup {a}) = Sum(t) + w[a]
    <3>1. a \notin t /\ \A x \in t \cup {a} : w[x] \in Int
      BY <2>8, <2>10
    <3> HIDE DEF t
    <3> QED BY <2>9, <3>1, SumAdd
  <2>12. Sum((S \cup t) \cup {a}) = Sum(S \cup t) + w[a]
    <3> DEFINE u == S \cup t
    <3>1. a \notin u /\ IsFiniteSet(u) /\ \A x \in u \cup {a} : w[x] \in Int
      BY <2>8, <2>9, <2>10
    <3>2. Sum(u \cup {a}) = Sum(u) + w[a]
      <4> HIDE DEF u
      <4> QED BY <3>1, SumAdd
    <3> QED BY <3>2
  <2>13. Sum(t) \in Int /\ w[a] \in Int
    BY <1>0, <2>5, <2>6, <2>10
  <2>14. Sum(s) = Sum(t) + w[a] /\ Sum(S \cup s) = Sum(S \cup t) + w[a]
    <3> HIDE DEF Sum, t
    <3> QED BY <2>8, <2>11, <2>12
  <2> HIDE DEF Sum, t
  <2> QED BY <2>2, <2>3, <2>7, <2>13, <2>14
<1>2. Cardinality(T) \notin Bad /\ Cardinality(T) \in Nat
  BY <1>0, <1>1
<1> QED BY <1>2

\* Fewer elements have no larger sum, when none is negative.
LEMMA SumLess ==
  ASSUME NEW S, IsFiniteSet(S), NEW T \in SUBSET S, NEW w, \A x \in S : w[x] \in Nat
  PROVE  SumFunctionOnSet(w, T) <= SumFunctionOnSet(w, S)
<1> DEFINE U == S \ T
<1>1. T \cup U = S /\ T \cap U = {} /\ U \in SUBSET S
  OBVIOUS
<1>2. IsFiniteSet(T) /\ IsFiniteSet(U)
  BY <1>1, FS_Subset
<1>3. /\ \A x \in T : w[x] \in Nat
      /\ \A x \in U : w[x] \in Nat
      /\ \A x \in T \cup U : w[x] \in Int
  OBVIOUS
<1> HIDE DEF U
<1>4. SumFunctionOnSet(w, T \cup U) = SumFunctionOnSet(w, T) + SumFunctionOnSet(w, U)
  BY <1>1, <1>2, <1>3, SumUnion
<1>5. SumFunctionOnSet(w, T) \in Nat /\ SumFunctionOnSet(w, U) \in Nat
  BY <1>2, <1>3, SumNat
<1>6. SumFunctionOnSet(w, S) = SumFunctionOnSet(w, T \cup U)
  BY <1>1
<1> QED BY <1>4, <1>5, <1>6
=============================================================================
