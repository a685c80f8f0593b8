---------------------------- MODULE SumTheorems ----------------------------
(***************************************************************************)
(* What a sum of integers over a finite set is, for SumFunctionOnSet of    *)
(* Functions.  It is a fold in an order that CHOOSE gives, hence a         *)
(* recursion on finite sets.  The provers cannot instantiate an induction  *)
(* theorem, whose predicate is a parameter; each induction here is on a    *)
(* smallest counterexample instead, in a set of them.                      *)
(***************************************************************************)
EXTENDS Integers, Functions, FiniteSetTheorems, WellFoundedInduction, TLAPS

-----------------------------------------------------------------------------
(* A nonempty set of subsets of a finite set has a smallest one.           *)
LEMMA SmallestSubset ==
    ASSUME NEW S, IsFiniteSet(S), NEW C, C \subseteq SUBSET S, C # {}
    PROVE  \E T \in C : \A U \in C : U \subseteq T => U = T
<1>1. C \subseteq FiniteSubsetsOf(S)
  BY FS_FiniteSubsetsOfFinite
<1>2. PICK T \in C : \A U \in C : <<U, T>> \notin StrictSubsetOrdering(S)
  BY <1>1, FS_StrictSubsetOrderingWellFounded, WFMin
<1> QED
  BY <1>2 DEF StrictSubsetOrdering

\* The element the fold takes first.
First(s) == CHOOSE x \in s : TRUE

\* g sums f over every subset of S.
Sums(f, S, g) ==
    g = [s \in SUBSET S |-> IF s = {} THEN 0 ELSE f[First(s)] + g[s \ {First(s)}]]

\* The first element is one.
LEMMA FirstIn == ASSUME NEW s, s # {} PROVE First(s) \in s
  BY DEF First

\* A sum is a value of the recursive function on the subsets,
LEMMA SumDef ==
    ASSUME NEW f, NEW S
    PROVE  SumFunctionOnSet(f, S) = (CHOOSE g : Sums(f, S, g))[S]
  BY DEF SumFunctionOnSet, FoldFunctionOnSet, MapThenFoldSet, Sums, First

\* ... which satisfies its equation.
LEMMA SumsAt ==
    ASSUME NEW f, NEW S, NEW g, Sums(f, S, g), NEW s \in SUBSET S
    PROVE  g[s] = IF s = {} THEN 0 ELSE f[First(s)] + g[s \ {First(s)}]
  BY DEF Sums

(* Two such functions agree where both are defined. *)
LEMMA SumsAgree ==
    ASSUME NEW f, NEW S, NEW T, NEW g, NEW h, Sums(f, S, g), Sums(f, T, h),
           NEW s, s \subseteq S, s \subseteq T, IsFiniteSet(s)
    PROVE  g[s] = h[s]
<1> DEFINE C == {u \in SUBSET s : g[u] # h[u]}
<1> SUFFICES ASSUME s \in C PROVE FALSE
  OBVIOUS
<1>1. \A u \in C : u \in SUBSET s /\ IsFiniteSet(u)
  BY FS_Subset
<1>2. PICK u \in C : \A v \in C : v \subseteq u => v = u
  <2>1. C \subseteq SUBSET s /\ C # {}
    OBVIOUS
  <2> HIDE DEF C
  <2> QED
    BY <2>1, SmallestSubset
<1>3. u \in SUBSET S /\ u \in SUBSET T /\ g[u] # h[u]
  BY <1>2
<1>4. u # {}
  BY <1>3, SumsAt
<1> DEFINE v == u \ {First(u)}
<1>5. v \notin C
  BY <1>2, <1>4, FirstIn
<1>6. g[v] = h[v]
  BY <1>2, <1>5
<1>7. g[u] = f[First(u)] + g[v] /\ h[u] = f[First(u)] + h[v]
  BY <1>3, <1>4, SumsAt
<1> QED
  BY <1>3, <1>6, <1>7

(* There is one for every finite set. *)
LEMMA SumsExist ==
    ASSUME NEW f, NEW S, IsFiniteSet(S)
    PROVE  \E g : Sums(f, S, g)
<1> DEFINE C == {u \in SUBSET S : ~ \E g : Sums(f, u, g)}
<1> SUFFICES ASSUME S \in C PROVE FALSE
  OBVIOUS
<1>1. \A u \in C : u \in SUBSET S /\ IsFiniteSet(u)
  BY FS_Subset
<1>2. PICK u \in C : \A v \in C : v \subseteq u => v = u
  <2>1. C \subseteq SUBSET S /\ C # {}
    OBVIOUS
  <2> HIDE DEF C
  <2> QED
    BY <2>1, SmallestSubset
<1> DEFINE G(t) == CHOOSE g : Sums(f, t, g)
           h == [s \in SUBSET u |->
                    IF s = {} THEN 0 ELSE f[First(s)] + SumFunctionOnSet(f, s \ {First(s)})]
<1>3. ASSUME NEW t \in SUBSET u, t # u PROVE Sums(f, t, G(t)) /\ IsFiniteSet(t)
  <2>1. t \notin C
    BY <1>2, <1>3
  <2>2. \E g : Sums(f, t, g)
    BY <1>2, <2>1
  <2> QED
    BY <1>1, <1>2, <2>2, FS_Subset
<1>4. ASSUME NEW t \in SUBSET u, t # u PROVE h[t] = SumFunctionOnSet(f, t)
  <2>1. SumFunctionOnSet(f, t) = G(t)[t]
    BY SumDef
  <2>2. G(t)[t] = IF t = {} THEN 0 ELSE f[First(t)] + G(t)[t \ {First(t)}]
    BY <1>3, <1>4, SumsAt
  <2>3. CASE t = {}
    BY <2>1, <2>2, <2>3
  <2>4. CASE t # {}
    <3> DEFINE v == t \ {First(t)}
    <3>1. v \in SUBSET u /\ v # u /\ v \subseteq t
      BY <1>4
    <3>2. Sums(f, v, G(v)) /\ IsFiniteSet(v) /\ Sums(f, t, G(t))
      BY <3>1, <1>3, <1>4
    <3>3. G(t)[v] = G(v)[v]
      <4> HIDE DEF v, G
      <4> QED
        BY <3>1, <3>2, SumsAgree
    <3>4. SumFunctionOnSet(f, v) = G(v)[v]
      BY SumDef
    <3>5. h[t] = f[First(t)] + SumFunctionOnSet(f, v)
      BY <2>4
    <3> QED
      BY <2>1, <2>2, <2>4, <3>3, <3>4, <3>5
  <2> QED
    BY <2>3, <2>4
<1>5. ASSUME NEW s \in SUBSET u, s # {}
      PROVE  h[s \ {First(s)}] = SumFunctionOnSet(f, s \ {First(s)})
  <2>1. s \ {First(s)} \in SUBSET u /\ s \ {First(s)} # u
    BY <1>5, FirstIn
  <2> HIDE DEF h
  <2> QED
    BY <1>4, <2>1
<1>6. Sums(f, u, h)
  <2>1. \A s \in SUBSET u :
           h[s] = IF s = {} THEN 0 ELSE f[First(s)] + h[s \ {First(s)}]
    BY <1>5
  <2> QED
    BY <2>1 DEF Sums
<1> QED
  BY <1>2, <1>6

-----------------------------------------------------------------------------
(* The fold takes one element after the other. *)
LEMMA SumStep ==
    ASSUME NEW f, NEW S, IsFiniteSet(S)
    PROVE  SumFunctionOnSet(f, S) =
               IF S = {} THEN 0 ELSE f[First(S)] + SumFunctionOnSet(f, S \ {First(S)})
<1> DEFINE G(t) == CHOOSE g : Sums(f, t, g)
           v == S \ {First(S)}
<1>1. IsFiniteSet(v)
  BY FS_Subset
<1>2. Sums(f, S, G(S)) /\ Sums(f, v, G(v))
  BY <1>1, SumsExist
<1>3. SumFunctionOnSet(f, S) = G(S)[S] /\ SumFunctionOnSet(f, v) = G(v)[v]
  BY SumDef
<1>4. G(S)[S] = IF S = {} THEN 0 ELSE f[First(S)] + G(S)[v]
  <2> HIDE DEF G
  <2> QED
    BY <1>2, SumsAt
<1>5. G(S)[v] = G(v)[v]
  <2>1. v \subseteq S
    OBVIOUS
  <2> HIDE DEF G, v
  <2> QED
    BY <1>1, <1>2, <2>1, SumsAgree
<1> QED
  BY <1>3, <1>4, <1>5

\* The empty sum,
LEMMA SumEmpty == ASSUME NEW f PROVE SumFunctionOnSet(f, {}) = 0
  BY SumStep, FS_EmptySet

(* A sum of integers is one. *)
LEMMA SumType ==
    ASSUME NEW f, NEW S, IsFiniteSet(S), \A x \in S : f[x] \in Int
    PROVE  SumFunctionOnSet(f, S) \in Int
<1> DEFINE C == {u \in SUBSET S : SumFunctionOnSet(f, u) \notin Int}
<1> SUFFICES ASSUME S \in C PROVE FALSE
  OBVIOUS
<1>1. \A u \in C : u \in SUBSET S /\ IsFiniteSet(u)
  BY FS_Subset
<1>2. PICK u \in C : \A v \in C : v \subseteq u => v = u
  <2>1. C \subseteq SUBSET S /\ C # {}
    OBVIOUS
  <2> HIDE DEF C
  <2> QED
    BY <2>1, SmallestSubset
<1>3. SumFunctionOnSet(f, u) =
          IF u = {} THEN 0 ELSE f[First(u)] + SumFunctionOnSet(f, u \ {First(u)})
  BY <1>1, <1>2, SumStep
<1>4. CASE u = {}
  BY <1>2, <1>3, <1>4
<1>5. CASE u # {}
  <2>1. First(u) \in u
    BY <1>5, FirstIn
  <2>2. u \ {First(u)} \notin C
    BY <1>2, <2>1
  <2> QED
    BY <1>2, <1>3, <1>5, <2>1, <2>2
<1> QED
  BY <1>4, <1>5

(* Whatever element is taken out first, the sum is the same. *)
LEMMA SumRemove ==
    ASSUME NEW f, NEW S, IsFiniteSet(S), \A x \in S : f[x] \in Int, NEW x \in S
    PROVE  SumFunctionOnSet(f, S) = f[x] + SumFunctionOnSet(f, S \ {x})
<1> DEFINE Sum(u) == SumFunctionOnSet(f, u)
           C == {u \in SUBSET S : \E y \in u : Sum(u) # f[y] + Sum(u \ {y})}
<1> SUFFICES ASSUME S \in C PROVE FALSE
  OBVIOUS
<1>1. \A u \in C : u \in SUBSET S /\ IsFiniteSet(u)
  BY FS_Subset
<1>2. PICK u \in C : \A v \in C : v \subseteq u => v = u
  <2>1. C \subseteq SUBSET S /\ C # {}
    OBVIOUS
  <2> HIDE DEF C
  <2> QED
    BY <2>1, SmallestSubset
<1>3. PICK y \in u : Sum(u) # f[y] + Sum(u \ {y})
  BY <1>2
<1> DEFINE c == First(u)
<1>4. c \in u /\ u \subseteq S
  BY <1>2, <1>3, FirstIn
<1>5. Sum(u) = f[c] + Sum(u \ {c})
  BY <1>1, <1>2, <1>4, SumStep
<1>6. y # c
  BY <1>3, <1>5
<1> HIDE DEF c
<1>7. ASSUME NEW a \in u, NEW b \in u, a # b
      PROVE  Sum(u \ {a}) = f[b] + Sum((u \ {a}) \ {b})
  <2>1. u \ {a} \notin C
    BY <1>2
  <2>2. b \in u \ {a} /\ u \ {a} \in SUBSET S
    BY <1>4, <1>7
  <2> QED
    BY <2>1, <2>2
<1>8. (u \ {c}) \ {y} = (u \ {y}) \ {c}
  OBVIOUS
<1> DEFINE w == (u \ {c}) \ {y}
<1>9. Sum(u \ {c}) = f[y] + Sum(w) /\ Sum(u \ {y}) = f[c] + Sum(w)
  BY <1>4, <1>6, <1>7, <1>8
<1>10. Sum(w) \in Int /\ f[c] \in Int /\ f[y] \in Int
  <2>1. w \subseteq S
    BY <1>4
  <2>2. IsFiniteSet(w)
    BY <2>1, FS_Subset
  <2> QED
    BY <1>4, <2>1, <2>2, SumType
<1> QED
  BY <1>3, <1>5, <1>9, <1>10

\* ... and that of a set with one element more.
LEMMA SumInsert ==
    ASSUME NEW f, NEW S, IsFiniteSet(S), NEW x, x \notin S, \A y \in S \cup {x} : f[y] \in Int
    PROVE  SumFunctionOnSet(f, S \cup {x}) = f[x] + SumFunctionOnSet(f, S)
<1>1. IsFiniteSet(S \cup {x}) /\ (S \cup {x}) \ {x} = S
  BY FS_AddElement
<1> QED
  BY <1>1, SumRemove

(* Zeros sum to zero. *)
LEMMA SumZero ==
    ASSUME NEW f, NEW S, IsFiniteSet(S), \A x \in S : f[x] = 0
    PROVE  SumFunctionOnSet(f, S) = 0
<1> DEFINE C == {u \in SUBSET S : SumFunctionOnSet(f, u) # 0}
<1> SUFFICES ASSUME S \in C PROVE FALSE
  OBVIOUS
<1>1. \A u \in C : u \in SUBSET S /\ IsFiniteSet(u)
  BY FS_Subset
<1>2. PICK u \in C : \A v \in C : v \subseteq u => v = u
  <2>1. C \subseteq SUBSET S /\ C # {}
    OBVIOUS
  <2> HIDE DEF C
  <2> QED
    BY <2>1, SmallestSubset
<1>3. SumFunctionOnSet(f, u) =
          IF u = {} THEN 0 ELSE f[First(u)] + SumFunctionOnSet(f, u \ {First(u)})
  BY <1>1, <1>2, SumStep
<1>4. First(u) \in u
  BY <1>2, <1>3, FirstIn
<1>5. SumFunctionOnSet(f, u \ {First(u)}) = 0
  BY <1>2, <1>4
<1> QED
  BY <1>2, <1>3, <1>4, <1>5

(* Functions that agree on a set have the same sum over it. *)
LEMMA SumSame ==
    ASSUME NEW f, NEW g, NEW S, IsFiniteSet(S), \A x \in S : f[x] = g[x]
    PROVE  SumFunctionOnSet(f, S) = SumFunctionOnSet(g, S)
<1> DEFINE C == {u \in SUBSET S : SumFunctionOnSet(f, u) # SumFunctionOnSet(g, u)}
<1> SUFFICES ASSUME S \in C PROVE FALSE
  OBVIOUS
<1>1. \A u \in C : u \in SUBSET S /\ IsFiniteSet(u)
  BY FS_Subset
<1>2. PICK u \in C : \A v \in C : v \subseteq u => v = u
  <2>1. C \subseteq SUBSET S /\ C # {}
    OBVIOUS
  <2> HIDE DEF C
  <2> QED
    BY <2>1, SmallestSubset
<1> DEFINE v == u \ {First(u)}
<1>3. /\ SumFunctionOnSet(f, u) = IF u = {} THEN 0 ELSE f[First(u)] + SumFunctionOnSet(f, v)
      /\ SumFunctionOnSet(g, u) = IF u = {} THEN 0 ELSE g[First(u)] + SumFunctionOnSet(g, v)
  BY <1>1, <1>2, SumStep
<1>4. u # {}
  BY <1>2, <1>3
<1>5. First(u) \in u
  BY <1>4, FirstIn
<1>6. SumFunctionOnSet(f, v) = SumFunctionOnSet(g, v)
  BY <1>2, <1>5
<1> QED
  BY <1>2, <1>3, <1>5, <1>6

(* A change at one place changes the sum by as much. *)
LEMMA SumChange ==
    ASSUME NEW f, NEW g, NEW S, IsFiniteSet(S), NEW x \in S,
           \A y \in S : f[y] \in Int /\ g[y] \in Int,
           \A y \in S \ {x} : f[y] = g[y]
    PROVE  SumFunctionOnSet(g, S) = SumFunctionOnSet(f, S) + (g[x] - f[x])
<1>1. IsFiniteSet(S \ {x})
  BY FS_Subset
<1>2. SumFunctionOnSet(f, S \ {x}) = SumFunctionOnSet(g, S \ {x})
  BY <1>1, SumSame
<1>3. /\ SumFunctionOnSet(f, S) = f[x] + SumFunctionOnSet(f, S \ {x})
      /\ SumFunctionOnSet(g, S) = g[x] + SumFunctionOnSet(g, S \ {x})
  BY SumRemove
<1>4. SumFunctionOnSet(f, S \ {x}) \in Int
  BY <1>1, SumType
<1> QED
  BY <1>2, <1>3, <1>4
=============================================================================
