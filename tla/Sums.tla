---------------------------------- MODULE Sums ----------------------------------
(***************************************************************************)
(* Sums over finite sets, by the fold of the community modules: what a sum *)
(* is when an element joins the set or changes its value.                  *)
(*                                                                         *)
(* The library states induction for an operator parameter, which the       *)
(* provers do not instantiate.  It is stated here for a set of sets, from  *)
(* the theorem that strict inclusion of finite sets is well founded.       *)
(***************************************************************************)
EXTENDS Integers, FiniteSets, Functions, FiniteSetTheorems, WellFoundedInduction, TLAPS

\* Induction on finite sets: what holds for a set that it holds for all subsets of holds
\* for the whole set.
LEMMA SetInduction ==
    ASSUME NEW S, IsFiniteSet(S), NEW G \in SUBSET SUBSET S,
           \A T \in SUBSET S : (\A U \in SUBSET T : U # T => U \in G) => T \in G
    PROVE  S \in G
<1> DEFINE F == (SUBSET S) \ G
<1> SUFFICES ASSUME F # {} PROVE FALSE
  OBVIOUS
<1>1. IsWellFoundedOn(StrictSubsetOrdering(S), FiniteSubsetsOf(S))
  BY FS_StrictSubsetOrderingWellFounded
<1>2. F \subseteq FiniteSubsetsOf(S)
  BY FS_FiniteSubsetsOfFinite
<1>3. PICK T \in F : \A U \in F : <<U, T>> \notin StrictSubsetOrdering(S)
  <2> HIDE DEF F
  <2> QED
    BY <1>1, <1>2, WFMin
<1>4. ASSUME NEW U \in SUBSET T, U # T PROVE U \in G
  BY <1>3, <1>4 DEF StrictSubsetOrdering
<1> QED
  BY <1>4

--------------------------------------------------------------------------------
(* The recursion of the fold *)

Pick(s) == CHOOSE x \in s : TRUE
Totals(iter, D, fun) ==
    iter = [s \in D |-> IF s = {} THEN 0 ELSE fun[Pick(s)] + iter[s \ {Pick(s)}]]
Recursion(fun, S) == CHOOSE iter : Totals(iter, SUBSET S, fun)

LEMMA SumUnfold ==
    ASSUME NEW fun, NEW S
    PROVE  SumFunctionOnSet(fun, S) = Recursion(fun, S)[S]
  BY DEF SumFunctionOnSet, FoldFunctionOnSet, MapThenFoldSet, Totals, Pick, Recursion

LEMMA PickIn == ASSUME NEW s, s # {} PROVE Pick(s) \in s
  BY DEF Pick

LEMMA ImageFinite ==
    ASSUME NEW S, IsFiniteSet(S), NEW f
    PROVE  IsFiniteSet({f[x] : x \in S})
<1> DEFINE T == {f[x] : x \in S}
           g == [x \in S |-> f[x]]
<1>1. g \in Surjection(S, T)
  BY DEF Surjection
<1> HIDE DEF g, T
<1>2. IsFiniteSet(T)
  BY <1>1, FS_Surjection
<1> QED
  BY <1>2 DEF T

LEMMA FiniteSubset == ASSUME NEW S, IsFiniteSet(S), NEW T, T \subseteq S PROVE IsFiniteSet(T)
  BY FS_Subset

\* Two recursions agree on the sets they share.
LEMMA TotalsUnique ==
    ASSUME NEW fun, NEW S, NEW R, NEW f, NEW g, NEW T, IsFiniteSet(T),
           T \subseteq S, T \subseteq R,
           Totals(f, SUBSET S, fun), Totals(g, SUBSET R, fun)
    PROVE  f[T] = g[T]
<1> DEFINE G == {U \in SUBSET T : f[U] = g[U]}
<1>1. ASSUME NEW U \in SUBSET T, \A V \in SUBSET U : V # U => V \in G
      PROVE  U \in G
  <2>1. CASE U = {}
    BY <2>1 DEF Totals
  <2>2. CASE U # {}
    <3>1. Pick(U) \in U
      BY <2>2, PickIn
    <3>2. /\ f[U] = fun[Pick(U)] + f[U \ {Pick(U)}]
          /\ g[U] = fun[Pick(U)] + g[U \ {Pick(U)}]
      BY <2>2 DEF Totals
    <3>3. f[U \ {Pick(U)}] = g[U \ {Pick(U)}]
      BY <1>1, <3>1
    <3> QED
      BY <3>2, <3>3
  <2> QED
    BY <2>1, <2>2
<1>2. T \in G
  <2>1. G \in SUBSET SUBSET T
    OBVIOUS
  <2> HIDE DEF G
  <2> QED
    BY <1>1, <2>1, SetInduction
<1> QED
  BY <1>2

\* The fold of a finite set is a recursion: the sums of its subsets are one.
LEMMA RecursionExists ==
    ASSUME NEW fun, NEW S, IsFiniteSet(S)
    PROVE  Totals(Recursion(fun, S), SUBSET S, fun)
<1> DEFINE G == {T \in SUBSET S : Totals(Recursion(fun, T), SUBSET T, fun)}
           sum(u) == Recursion(fun, u)[u]
<1>1. ASSUME NEW T \in SUBSET S, \A U \in SUBSET T : U # T => U \in G
      PROVE  T \in G
  <2> DEFINE iter == [s \in SUBSET T |-> IF s = {} THEN 0
                                         ELSE fun[Pick(s)] + sum(s \ {Pick(s)})]
  <2>1. ASSUME NEW u \in SUBSET T, u # T PROVE iter[u] = sum(u)
    <3>1. Totals(Recursion(fun, u), SUBSET u, fun)
      BY <1>1, <2>1
    <3>2. CASE u = {}
      <4>1. Recursion(fun, u)[u] = 0
        BY <3>1, <3>2 DEF Totals
      <4> QED
        BY <3>2, <4>1
    <3>3. CASE u # {}
      <4> DEFINE v == u \ {Pick(u)}
      <4>1. Pick(u) \in u
        BY <3>3, PickIn
      <4>2. Totals(Recursion(fun, v), SUBSET v, fun)
        BY <1>1, <2>1, <4>1
      <4>3. Recursion(fun, u)[v] = Recursion(fun, v)[v]
        <5>1. IsFiniteSet(v) /\ v \subseteq u
          BY FiniteSubset
        <5> HIDE DEF v
        <5> QED
          BY <3>1, <4>2, <5>1, TotalsUnique
      <4>4. sum(u) = fun[Pick(u)] + Recursion(fun, u)[v]
        BY <3>1, <3>3 DEF Totals
      <4>5. iter[u] = fun[Pick(u)] + sum(v)
        BY <3>3
      <4> QED
        BY <4>3, <4>4, <4>5
    <3> QED
      BY <3>2, <3>3
  <2>2. ASSUME NEW s \in SUBSET T, s # {} PROVE sum(s \ {Pick(s)}) = iter[s \ {Pick(s)}]
    <3>1. Pick(s) \in s
      BY <2>2, PickIn
    <3> QED
      BY <2>1, <3>1
  <2>3. Totals(iter, SUBSET T, fun)
    BY <2>2 DEF Totals
  <2> HIDE DEF iter
  <2>4. Totals(Recursion(fun, T), SUBSET T, fun)
    BY <2>3 DEF Recursion
  <2> QED
    BY <2>4
<1>2. S \in G
  <2>1. G \in SUBSET SUBSET S
    OBVIOUS
  <2> HIDE DEF G
  <2> QED
    BY <1>1, <2>1, SetInduction
<1> QED
  BY <1>2

--------------------------------------------------------------------------------
(* Sums *)

LEMMA SumEmpty == ASSUME NEW fun PROVE SumFunctionOnSet(fun, {}) = 0
<1>1. Totals(Recursion(fun, {}), SUBSET {}, fun)
  BY RecursionExists, FS_EmptySet
<1>2. Recursion(fun, {})[{}] = 0
  BY <1>1 DEF Totals
<1> QED
  BY <1>2, SumUnfold

LEMMA SumPick ==
    ASSUME NEW fun, NEW S, IsFiniteSet(S), S # {}
    PROVE  SumFunctionOnSet(fun, S) = fun[Pick(S)] + SumFunctionOnSet(fun, S \ {Pick(S)})
<1> DEFINE U == S \ {Pick(S)}
<1>1. IsFiniteSet(U)
  BY FS_RemoveElement
<1>2. Totals(Recursion(fun, S), SUBSET S, fun) /\ Totals(Recursion(fun, U), SUBSET U, fun)
  BY <1>1, RecursionExists
<1>3. Recursion(fun, S)[U] = Recursion(fun, U)[U]
  <2>1. U \subseteq S
    OBVIOUS
  <2> HIDE DEF U
  <2> QED
    BY <1>1, <1>2, <2>1, TotalsUnique
<1>4. Recursion(fun, S)[S] = fun[Pick(S)] + Recursion(fun, S)[U]
  BY <1>2 DEF Totals
<1> QED
  BY <1>3, <1>4, SumUnfold

LEMMA SumType ==
    ASSUME NEW S, IsFiniteSet(S), NEW fun, \A x \in S : fun[x] \in Int
    PROVE  SumFunctionOnSet(fun, S) \in Int
<1> DEFINE G == {T \in SUBSET S : SumFunctionOnSet(fun, T) \in Int}
<1>1. ASSUME NEW T \in SUBSET S, \A U \in SUBSET T : U # T => U \in G
      PROVE  T \in G
  <2>1. CASE T = {}
    BY <2>1, SumEmpty
  <2>2. CASE T # {}
    <3>1. Pick(T) \in T
      BY <2>2, PickIn
    <3>2. T \ {Pick(T)} \in G
      BY <1>1, <3>1
    <3>3. IsFiniteSet(T)
      BY FiniteSubset
    <3>4. SumFunctionOnSet(fun, T) = fun[Pick(T)] + SumFunctionOnSet(fun, T \ {Pick(T)})
      BY <2>2, <3>3, SumPick
    <3> QED
      BY <3>1, <3>2, <3>4
  <2> QED
    BY <2>1, <2>2
<1>2. S \in G
  <2>1. G \in SUBSET SUBSET S
    OBVIOUS
  <2> HIDE DEF G
  <2> QED
    BY <1>1, <2>1, SetInduction
<1> QED
  BY <1>2

LEMMA SumNat ==
    ASSUME NEW S, IsFiniteSet(S), NEW fun, \A x \in S : fun[x] \in Nat
    PROVE  SumFunctionOnSet(fun, S) \in Nat
<1> DEFINE G == {T \in SUBSET S : SumFunctionOnSet(fun, T) \in Nat}
<1>1. ASSUME NEW T \in SUBSET S, \A U \in SUBSET T : U # T => U \in G
      PROVE  T \in G
  <2>1. CASE T = {}
    BY <2>1, SumEmpty
  <2>2. CASE T # {}
    <3>1. Pick(T) \in T
      BY <2>2, PickIn
    <3>2. T \ {Pick(T)} \in G
      BY <1>1, <3>1
    <3>3. IsFiniteSet(T)
      BY FiniteSubset
    <3>4. SumFunctionOnSet(fun, T) = fun[Pick(T)] + SumFunctionOnSet(fun, T \ {Pick(T)})
      BY <2>2, <3>3, SumPick
    <3> QED
      BY <3>1, <3>2, <3>4
  <2> QED
    BY <2>1, <2>2
<1>2. S \in G
  <2>1. G \in SUBSET SUBSET S
    OBVIOUS
  <2> HIDE DEF G
  <2> QED
    BY <1>1, <2>1, SetInduction
<1> QED
  BY <1>2

LEMMA SumZero ==
    ASSUME NEW S, IsFiniteSet(S), NEW fun, \A x \in S : fun[x] = 0
    PROVE  SumFunctionOnSet(fun, S) = 0
<1> DEFINE G == {T \in SUBSET S : SumFunctionOnSet(fun, T) = 0}
<1>1. ASSUME NEW T \in SUBSET S, \A U \in SUBSET T : U # T => U \in G
      PROVE  T \in G
  <2>1. CASE T = {}
    BY <2>1, SumEmpty
  <2>2. CASE T # {}
    <3>1. Pick(T) \in T
      BY <2>2, PickIn
    <3>2. T \ {Pick(T)} \in G
      BY <1>1, <3>1
    <3>3. IsFiniteSet(T)
      BY FiniteSubset
    <3>4. SumFunctionOnSet(fun, T) = fun[Pick(T)] + SumFunctionOnSet(fun, T \ {Pick(T)})
      BY <2>2, <3>3, SumPick
    <3> QED
      BY <3>1, <3>2, <3>4
  <2> QED
    BY <2>1, <2>2
<1>2. S \in G
  <2>1. G \in SUBSET SUBSET S
    OBVIOUS
  <2> HIDE DEF G
  <2> QED
    BY <1>1, <2>1, SetInduction
<1> QED
  BY <1>2

\* A sum depends on the values at the elements of the set only.
LEMMA SumSame ==
    ASSUME NEW S, IsFiniteSet(S), NEW fun, NEW gun, \A x \in S : fun[x] = gun[x]
    PROVE  SumFunctionOnSet(fun, S) = SumFunctionOnSet(gun, S)
<1> DEFINE G == {T \in SUBSET S : SumFunctionOnSet(fun, T) = SumFunctionOnSet(gun, T)}
<1>1. ASSUME NEW T \in SUBSET S, \A U \in SUBSET T : U # T => U \in G
      PROVE  T \in G
  <2>1. CASE T = {}
    BY <2>1, SumEmpty
  <2>2. CASE T # {}
    <3>1. Pick(T) \in T
      BY <2>2, PickIn
    <3>2. T \ {Pick(T)} \in G
      BY <1>1, <3>1
    <3>3. IsFiniteSet(T)
      BY FiniteSubset
    <3>4. /\ SumFunctionOnSet(fun, T) = fun[Pick(T)] + SumFunctionOnSet(fun, T \ {Pick(T)})
          /\ SumFunctionOnSet(gun, T) = gun[Pick(T)] + SumFunctionOnSet(gun, T \ {Pick(T)})
      BY <2>2, <3>3, SumPick
    <3> QED
      BY <3>1, <3>2, <3>4
  <2> QED
    BY <2>1, <2>2
<1>2. S \in G
  <2>1. G \in SUBSET SUBSET S
    OBVIOUS
  <2> HIDE DEF G
  <2> QED
    BY <1>1, <2>1, SetInduction
<1> QED
  BY <1>2

\* An element may be taken out first, whichever the fold takes.
LEMMA SumRemove ==
    ASSUME NEW S, IsFiniteSet(S), NEW fun, \A x \in S : fun[x] \in Int, NEW y \in S
    PROVE  SumFunctionOnSet(fun, S) = fun[y] + SumFunctionOnSet(fun, S \ {y})
<1> DEFINE Sum(T) == SumFunctionOnSet(fun, T)
           G == {T \in SUBSET S : \A z \in T : Sum(T) = fun[z] + Sum(T \ {z})}
<1>1. ASSUME NEW U \in SUBSET S PROVE IsFiniteSet(U) /\ Sum(U) \in Int
  <2>1. IsFiniteSet(U)
    BY FiniteSubset
  <2> QED
    BY <2>1, SumType
<1>2. ASSUME NEW T \in SUBSET S, \A U \in SUBSET T : U # T => U \in G
      PROVE  T \in G
  <2> SUFFICES ASSUME NEW z \in T PROVE Sum(T) = fun[z] + Sum(T \ {z})
    OBVIOUS
  <2> DEFINE x == Pick(T)
             rest == Sum((T \ {x}) \ {z})
  <2>1. x \in T
    BY PickIn
  <2>2. Sum(T) = fun[x] + Sum(T \ {x})
    BY <1>1, SumPick
  <2>3. CASE x = z
    BY <2>2, <2>3
  <2>4. CASE x # z
    <3>1. Sum(T \ {x}) = fun[z] + Sum((T \ {x}) \ {z})
      BY <1>2, <2>1, <2>4
    <3>2. Sum(T \ {z}) = fun[x] + Sum((T \ {z}) \ {x})
      BY <1>2, <2>1, <2>4
    <3>3. (T \ {z}) \ {x} = (T \ {x}) \ {z}
      OBVIOUS
    <3>4. Sum(T \ {z}) = fun[x] + rest
      BY <3>2, <3>3
    <3>5. rest \in Int /\ fun[x] \in Int /\ fun[z] \in Int
      BY <1>1, <2>1
    <3>6. Sum(T \ {x}) = fun[z] + rest
      BY <3>1
    <3> HIDE DEF rest, Sum, x
    <3> QED
      BY <2>2, <3>4, <3>5, <3>6
  <2> QED
    BY <2>3, <2>4
<1>3. S \in G
  <2>1. G \in SUBSET SUBSET S
    OBVIOUS
  <2> HIDE DEF G
  <2> QED
    BY <1>2, <2>1, SetInduction
<1> QED
  BY <1>3

\* An element joins the set.
LEMMA SumAdd ==
    ASSUME NEW S, IsFiniteSet(S), NEW fun, NEW y, y \notin S,
           \A x \in S \cup {y} : fun[x] \in Int
    PROVE  SumFunctionOnSet(fun, S \cup {y}) = SumFunctionOnSet(fun, S) + fun[y]
<1>1. IsFiniteSet(S \cup {y})
  BY FS_AddElement
<1>2. (S \cup {y}) \ {y} = S
  OBVIOUS
<1>3. SumFunctionOnSet(fun, S \cup {y}) = fun[y] + SumFunctionOnSet(fun, S)
  BY <1>1, <1>2, SumRemove
<1> QED
  BY <1>3, SumType

\* One value changes.
LEMMA SumChange ==
    ASSUME NEW S, IsFiniteSet(S), NEW fun, NEW gun, NEW y \in S,
           \A x \in S : fun[x] \in Int /\ gun[x] \in Int,
           \A x \in S \ {y} : fun[x] = gun[x]
    PROVE  SumFunctionOnSet(gun, S) = SumFunctionOnSet(fun, S) + gun[y] - fun[y]
<1> DEFINE U == S \ {y}
<1>1. IsFiniteSet(U)
  BY FS_RemoveElement
<1>2. SumFunctionOnSet(fun, U) = SumFunctionOnSet(gun, U)
  BY <1>1, SumSame
<1>3. SumFunctionOnSet(fun, U) \in Int
  BY <1>1, SumType
<1>4. /\ SumFunctionOnSet(fun, S) = fun[y] + SumFunctionOnSet(fun, U)
      /\ SumFunctionOnSet(gun, S) = gun[y] + SumFunctionOnSet(gun, U)
  BY SumRemove
<1> QED
  BY <1>2, <1>3, <1>4

\* The sum of sums.
LEMMA SumPlus ==
    ASSUME NEW S, IsFiniteSet(S), NEW fun, NEW gun, NEW hun,
           \A x \in S : fun[x] \in Int /\ gun[x] \in Int /\ hun[x] = fun[x] + gun[x]
    PROVE  SumFunctionOnSet(hun, S) = SumFunctionOnSet(fun, S) + SumFunctionOnSet(gun, S)
<1> DEFINE G == {T \in SUBSET S : SumFunctionOnSet(hun, T) = SumFunctionOnSet(fun, T) + SumFunctionOnSet(gun, T)}
<1>1. ASSUME NEW T \in SUBSET S, \A U \in SUBSET T : U # T => U \in G
      PROVE  T \in G
  <2>1. CASE T = {}
    BY <2>1, SumEmpty
  <2>2. CASE T # {}
    <3> PICK x \in T : x = Pick(T)
      BY <2>2, PickIn
    <3> PICK U \in SUBSET T : U = T \ {x}
      OBVIOUS
    <3>1. IsFiniteSet(T) /\ IsFiniteSet(U)
      BY FiniteSubset
    <3>2. /\ SumFunctionOnSet(fun, T) = fun[x] + SumFunctionOnSet(fun, U)
          /\ SumFunctionOnSet(gun, T) = gun[x] + SumFunctionOnSet(gun, U)
          /\ SumFunctionOnSet(hun, T) = hun[x] + SumFunctionOnSet(hun, U)
      BY <2>2, <3>1, SumPick
    <3>3. SumFunctionOnSet(fun, U) \in Int /\ SumFunctionOnSet(gun, U) \in Int
      BY <3>1, SumType
    <3>4. SumFunctionOnSet(hun, U) = SumFunctionOnSet(fun, U) + SumFunctionOnSet(gun, U)
      BY <1>1
    <3> QED
      BY <3>2, <3>3, <3>4
  <2> QED
    BY <2>1, <2>2
<1>2. S \in G
  <2>1. G \in SUBSET SUBSET S
    OBVIOUS
  <2> HIDE DEF G
  <2> QED
    BY <1>1, <2>1, SetInduction
<1> QED
  BY <1>2

\* A sum grows with its values.
LEMMA SumLeq ==
    ASSUME NEW S, IsFiniteSet(S), NEW fun, NEW gun,
           \A x \in S : fun[x] \in Int /\ gun[x] \in Int /\ fun[x] <= gun[x]
    PROVE  SumFunctionOnSet(fun, S) <= SumFunctionOnSet(gun, S)
<1> DEFINE G == {T \in SUBSET S : SumFunctionOnSet(fun, T) <= SumFunctionOnSet(gun, T)}
<1>1. ASSUME NEW T \in SUBSET S, \A U \in SUBSET T : U # T => U \in G
      PROVE  T \in G
  <2>1. CASE T = {}
    BY <2>1, SumEmpty
  <2>2. CASE T # {}
    <3> PICK x \in T : x = Pick(T)
      BY <2>2, PickIn
    <3> PICK U \in SUBSET T : U = T \ {x}
      OBVIOUS
    <3>1. IsFiniteSet(T) /\ IsFiniteSet(U)
      BY FiniteSubset
    <3>2. /\ SumFunctionOnSet(fun, T) = fun[x] + SumFunctionOnSet(fun, U)
          /\ SumFunctionOnSet(gun, T) = gun[x] + SumFunctionOnSet(gun, U)
      BY <2>2, <3>1, SumPick
    <3>3. SumFunctionOnSet(fun, U) \in Int /\ SumFunctionOnSet(gun, U) \in Int
      BY <3>1, SumType
    <3>4. SumFunctionOnSet(fun, U) <= SumFunctionOnSet(gun, U)
      BY <1>1
    <3> QED
      BY <3>2, <3>3, <3>4
  <2> QED
    BY <2>1, <2>2
<1>2. S \in G
  <2>1. G \in SUBSET SUBSET S
    OBVIOUS
  <2> HIDE DEF G
  <2> QED
    BY <1>1, <2>1, SetInduction
<1> QED
  BY <1>2

\* A sum over a part is a sum over the whole, with zeros elsewhere.
LEMMA SumFilter ==
    ASSUME NEW S, IsFiniteSet(S), NEW C, NEW fun, \A x \in S : fun[x] \in Int,
           NEW gun, \A x \in S : gun[x] = IF x \in C THEN fun[x] ELSE 0
    PROVE  SumFunctionOnSet(fun, S \cap C) = SumFunctionOnSet(gun, S)
<1> DEFINE G == {T \in SUBSET S : SumFunctionOnSet(fun, T \cap C) = SumFunctionOnSet(gun, T)}
<1>1. ASSUME NEW T \in SUBSET S, \A U \in SUBSET T : U # T => U \in G
      PROVE  T \in G
  <2>1. CASE T = {}
    BY <2>1, SumEmpty
  <2>2. CASE T # {}
    <3> PICK x \in T : x = Pick(T)
      BY <2>2, PickIn
    <3> PICK U \in SUBSET T : U = T \ {x}
      OBVIOUS
    <3>1. IsFiniteSet(T) /\ IsFiniteSet(U \cap C)
      BY FiniteSubset
    <3>2. SumFunctionOnSet(gun, T) = gun[x] + SumFunctionOnSet(gun, U)
      BY <2>2, <3>1, SumPick
    <3>3. SumFunctionOnSet(fun, U \cap C) \in Int
      BY <3>1, SumType
    <3>4. SumFunctionOnSet(fun, U \cap C) = SumFunctionOnSet(gun, U)
      BY <1>1
    <3>5. CASE x \in C
      <4>1. ASSUME NEW V \in SUBSET S, IsFiniteSet(V), x \notin V
            PROVE  SumFunctionOnSet(fun, V \cup {x}) = SumFunctionOnSet(fun, V) + fun[x]
        BY <4>1, SumAdd
      <4> PICK V \in SUBSET S : V = U \cap C
        OBVIOUS
      <4>2. SumFunctionOnSet(fun, V \cup {x}) = SumFunctionOnSet(fun, V) + fun[x]
        BY <3>1, <4>1
      <4>3. T \cap C = V \cup {x}
        BY <3>5
      <4>4. SumFunctionOnSet(fun, T \cap C) = SumFunctionOnSet(fun, V) + fun[x]
        BY <4>2, <4>3
      <4> QED
        BY <3>2, <3>3, <3>4, <3>5, <4>4
    <3>6. CASE x \notin C
      <4>1. SumFunctionOnSet(gun, T) = SumFunctionOnSet(fun, U \cap C)
        BY <3>2, <3>3, <3>4, <3>6
      <4>2. T \cap C = U \cap C
        BY <3>6
      <4> QED
        BY <4>1, <4>2
    <3> QED
      BY <3>5, <3>6
  <2> QED
    BY <2>1, <2>2
<1>2. S \in G
  <2>1. G \in SUBSET SUBSET S
    OBVIOUS
  <2> HIDE DEF G
  <2> QED
    BY <1>1, <2>1, SetInduction
<1> QED
  BY <1>2

\* A set whose elements count for nothing or lie in two others sums to no more than these.
LEMMA SumCovered ==
    ASSUME NEW S, IsFiniteSet(S), NEW fun, \A x \in S : fun[x] \in Nat,
           NEW A \in SUBSET S, NEW B \in SUBSET S, NEW C \in SUBSET S,
           \A x \in C : fun[x] = 0 \/ x \in A \/ x \in B
    PROVE  SumFunctionOnSet(fun, C) <= SumFunctionOnSet(fun, A) + SumFunctionOnSet(fun, B)
<1> DEFINE part(T) == [x \in S |-> IF x \in T THEN fun[x] ELSE 0]
           both == [x \in S |-> part(A)[x] + part(B)[x]]
<1>1. ASSUME NEW T \in SUBSET S
      PROVE  SumFunctionOnSet(fun, T) = SumFunctionOnSet(part(T), S)
  <2>1. S \cap T = T /\ \A x \in S : part(T)[x] = IF x \in T THEN fun[x] ELSE 0
    OBVIOUS
  <2> HIDE DEF part
  <2> QED
    BY <2>1, SumFilter
<1>2. SumFunctionOnSet(both, S) = SumFunctionOnSet(part(A), S) + SumFunctionOnSet(part(B), S)
  <2>1. \A x \in S : part(A)[x] \in Int /\ part(B)[x] \in Int /\ both[x] = part(A)[x] + part(B)[x]
    OBVIOUS
  <2> HIDE DEF part, both
  <2> QED
    BY <2>1, SumPlus
<1>3. SumFunctionOnSet(part(C), S) <= SumFunctionOnSet(both, S)
  <2>1. \A x \in S : part(C)[x] \in Int /\ both[x] \in Int /\ part(C)[x] <= both[x]
    OBVIOUS
  <2> HIDE DEF part, both
  <2> QED
    BY <2>1, SumLeq
<1> HIDE DEF part, both
<1> QED
  BY <1>1, <1>2, <1>3

\* A sum over some rows is the sum over all with zero for the others.
LEMMA SumOfSome ==
  ASSUME NEW S, IsFiniteSet(S), NEW C \in SUBSET S, NEW f, \A x \in S : f[x] \in Int
  PROVE  SumFunctionOnSet(f, C) = SumFunctionOnSet([x \in S |-> IF x \in C THEN f[x] ELSE 0], S)
<1> DEFINE g == [x \in S |-> IF x \in C THEN f[x] ELSE 0]
<1>1. \A x \in S : g[x] = IF x \in C THEN f[x] ELSE 0
  OBVIOUS
<1> HIDE DEF g
<1>2. SumFunctionOnSet(f, S \cap C) = SumFunctionOnSet(g, S)
  BY <1>1, SumFilter
<1>3. S \cap C = C
  OBVIOUS
<1> QED BY <1>2, <1>3 DEF g
================================================================================
