------------------------------ MODULE SumProofs ------------------------------
(***************************************************************************)
(* What a sum over a finite set is: the library adds up the elements in     *)
(* whatever order CHOOSE takes them, and these lemmas say that the order    *)
(* makes no difference.                                                     *)
(***************************************************************************)
EXTENDS Sums, FiniteSetTheorems, WellFoundedInduction, TLAPS

(* Induction, as the provers can use it: a set of numbers that is not empty *)
(* has a least element.                                                     *)
LEMMA LeastNumber ==
    ASSUME NEW T \in SUBSET Nat, T # {}
    PROVE  \E n \in T : \A m \in T : n <= m
<1> DEFINE Below == {pair \in Nat \X Nat : pair[1] < pair[2]}
<1>1. IsWellFoundedOn(Below, Nat)
    BY NatLessThanWellFounded DEF OpToRel
<1>2. \A x, y \in Nat : y < x => <<y, x>> \in Below
    OBVIOUS
<1> HIDE DEF Below
<1>3. PICK n \in T : \A m \in T : ~ (<<m, n>> \in Below)
    BY <1>1, WFMin
<1>4. ASSUME NEW m \in T PROVE n <= m
  <2>1. m \in Nat /\ n \in Nat
      OBVIOUS
  <2>2. ~ (m < n)
      BY <1>2, <1>3, <2>1
  <2> QED BY <2>1, <2>2
<1> QED BY <1>4

(* And a set of subsets of a finite set has one that is smallest.           *)
LEMMA SmallestSubset ==
    ASSUME NEW S, IsFiniteSet(S), NEW T \in SUBSET (SUBSET S), T # {}
    PROVE  \E s \in T : \A x \in s : s \ {x} \notin T
<1>1. IsWellFoundedOn(StrictSubsetOrdering(S), SUBSET S)
    BY FS_StrictSubsetOrderingWellFounded, FS_FiniteSubsetsOfFinite
<1>2. PICK s \in T : \A t \in T : <<t, s>> \notin StrictSubsetOrdering(S)
    BY <1>1, WFMin
<1>3. ASSUME NEW x \in s, s \ {x} \in T PROVE FALSE
  <2>1. <<s \ {x}, s>> \in (SUBSET S) \X (SUBSET S)
      OBVIOUS
  <2>2. s \ {x} \subseteq s /\ s \ {x} # s
      OBVIOUS
  <2>3. <<s \ {x}, s>> \in StrictSubsetOrdering(S)
      BY <2>1, <2>2 DEF StrictSubsetOrdering
  <2> QED BY <1>2, <1>3, <2>3
<1> QED BY <1>3

-----------------------------------------------------------------------------
(* The recursive function the library's fold is made of.                    *)
Taken(s) == CHOOSE x \in s : TRUE

Adds(g, s, f) == IF s = {} THEN 0 ELSE f[Taken(s)] + g[s \ {Taken(s)}]

IsSum(g, S, f) == g = [s \in SUBSET S |-> Adds(g, s, f)]

(* The library's sum is that function's value at the set.                   *)
LEMMA SumUnfolds ==
    ASSUME NEW S, NEW f
    PROVE  SumOver(S, f) = (CHOOSE g : IsSum(g, S, f))[S]
    BY DEF SumOver, MapThenSumSet, MapThenFoldSet, IsSum, Adds, Taken

(* What is taken from a set that is not empty is in it.                     *)
LEMMA TakenBelongs ==
    ASSUME NEW s, s # {}
    PROVE  Taken(s) \in s
    BY DEF Taken

(* There is such a function: up to any number of elements, then for the set. *)
LEMMA SumExists ==
    ASSUME NEW S, IsFiniteSet(S), NEW f
    PROVE  \E g : IsSum(g, S, f)
<1> DEFINE UpTo(g, n) == g = [s \in SUBSET S |-> IF Cardinality(s) > n THEN 0 ELSE Adds(g, s, f)]
           Missing == {n \in Nat : ~ \E g : UpTo(g, n)}
<1>1. \A s \in SUBSET S : /\ Cardinality(s) \in Nat
                          /\ Cardinality(s) <= Cardinality(S)
                          /\ IsFiniteSet(s)
    BY FS_Subset, FS_CardinalityType
<1>2. \A s \in SUBSET S : s # {} => /\ s \ {Taken(s)} \in SUBSET S
                                    /\ Cardinality(s \ {Taken(s)}) = Cardinality(s) - 1
    BY <1>1, TakenBelongs, FS_RemoveElement
<1>3. \E g : UpTo(g, 0)
  <2> DEFINE g == [s \in SUBSET S |-> 0]
  <2>1. ASSUME NEW s \in SUBSET S, ~ (Cardinality(s) > 0) PROVE s = {}
      BY <1>1, <2>1, FS_EmptySet
  <2>2. UpTo(g, 0)
      BY <2>1 DEF Adds
  <2> QED BY <2>2
<1>4. ASSUME NEW n \in Nat, NEW g, UpTo(g, n) PROVE \E h : UpTo(h, n + 1)
  <2> DEFINE h == [s \in SUBSET S |-> IF Cardinality(s) > n + 1 THEN 0 ELSE Adds(g, s, f)]
  <2>1. ASSUME NEW s \in SUBSET S, ~ (Cardinality(s) > n) PROVE h[s] = g[s]
      BY <1>1, <1>4, <2>1
  <2>2. ASSUME NEW s \in SUBSET S, ~ (Cardinality(s) > n + 1) PROVE Adds(g, s, f) = Adds(h, s, f)
    <3> HIDE DEF h
    <3>1. CASE s = {}
        BY <3>1 DEF Adds
    <3>2. CASE s # {}
      <4>1. h[s \ {Taken(s)}] = g[s \ {Taken(s)}]
          BY <1>1, <1>2, <2>1, <2>2, <3>2
      <4> QED BY <4>1 DEF Adds
    <3> QED BY <3>1, <3>2
  <2>3. h = [s \in SUBSET S |-> IF Cardinality(s) > n + 1 THEN 0 ELSE Adds(h, s, f)]
      BY <2>2
  <2> HIDE DEF h
  <2> QED BY <2>3
<1> HIDE DEF UpTo
<1>5. Missing = {}
  <2> SUFFICES ASSUME Missing # {} PROVE FALSE
      OBVIOUS
  <2>1. PICK n \in Missing : \A m \in Missing : n <= m
      BY LeastNumber
  <2>2. n # 0
      BY <1>3
  <2>3. n - 1 \in Nat /\ n - 1 \notin Missing
      BY <2>1, <2>2
  <2>4. PICK g : UpTo(g, n - 1)
      BY <2>3
  <2>5. \E h : UpTo(h, (n - 1) + 1)
      BY <1>4, <2>3, <2>4
  <2> QED BY <2>5
<1>6. PICK g : UpTo(g, Cardinality(S))
    BY <1>1, <1>5
<1>7. g = [s \in SUBSET S |-> Adds(g, s, f)]
    BY <1>1, <1>6 DEF UpTo
<1> QED BY <1>7 DEF IsSum

(* Two of them agree on the sets they both sum.                             *)
LEMMA SumsAgree ==
    ASSUME NEW S, IsFiniteSet(S), NEW T \in SUBSET S, NEW f, NEW e,
           NEW g, IsSum(g, S, f), NEW h, IsSum(h, T, e),
           \A x \in T : f[x] = e[x]
    PROVE  g[T] = h[T]
<1> DEFINE Differ == {s \in SUBSET T : g[s] # h[s]}
<1>1. IsFiniteSet(T)
    BY FS_Subset
<1>2. Differ = {}
  <2> SUFFICES ASSUME Differ # {} PROVE FALSE
      OBVIOUS
  <2>1. PICK s \in Differ : \A x \in s : s \ {x} \notin Differ
      BY <1>1, SmallestSubset
  <2>2. g[s] = Adds(g, s, f) /\ h[s] = Adds(h, s, e)
      BY DEF IsSum
  <2>3. s # {}
      BY <2>2 DEF Adds
  <2>4. g[s \ {Taken(s)}] = h[s \ {Taken(s)}] /\ f[Taken(s)] = e[Taken(s)]
      BY <2>1, <2>3, TakenBelongs
  <2> QED BY <2>2, <2>4 DEF Adds
<1> QED BY <1>2

(* A sum does not depend on what its function is elsewhere.                 *)
LEMMA SumSame ==
    ASSUME NEW S, IsFiniteSet(S), NEW f, NEW e, \A x \in S : f[x] = e[x]
    PROVE  SumOver(S, f) = SumOver(S, e)
<1> DEFINE g == CHOOSE g : IsSum(g, S, f)
           h == CHOOSE h : IsSum(h, S, e)
<1>1. IsSum(g, S, f) /\ IsSum(h, S, e)
    BY SumExists
<1>2. SumOver(S, f) = g[S] /\ SumOver(S, e) = h[S]
    BY SumUnfolds
<1> HIDE DEF g, h
<1>3. S \in SUBSET S
    OBVIOUS
<1>4. g[S] = h[S]
    BY <1>1, <1>3, SumsAgree
<1> QED BY <1>2, <1>4

(* The sum of nothing.                                                      *)
LEMMA SumEmpty ==
    ASSUME NEW f
    PROVE  SumOver({}, f) = 0
<1>1. IsSum(CHOOSE g : IsSum(g, {}, f), {}, f)
    BY SumExists, FS_EmptySet
<1>2. (CHOOSE g : IsSum(g, {}, f))[{}] = 0
    BY <1>1 DEF IsSum, Adds
<1> QED BY <1>2, SumUnfolds

(* The element that is taken is added to the sum of the others.             *)
LEMMA SumTaken ==
    ASSUME NEW S, IsFiniteSet(S), S # {}, NEW f
    PROVE  SumOver(S, f) = f[Taken(S)] + SumOver(S \ {Taken(S)}, f)
<1> DEFINE T == S \ {Taken(S)}
           g == CHOOSE g : IsSum(g, S, f)
           h == CHOOSE h : IsSum(h, T, f)
<1>1. IsFiniteSet(T) /\ T \in SUBSET S
    BY FS_RemoveElement
<1>2. IsSum(g, S, f) /\ IsSum(h, T, f)
    BY <1>1, SumExists
<1>3. SumOver(S, f) = g[S] /\ SumOver(T, f) = h[T]
    BY SumUnfolds
<1> HIDE DEF g, h
<1>4. g[T] = h[T]
    BY <1>1, <1>2, SumsAgree
<1>5. g[S] = f[Taken(S)] + g[T]
    BY <1>2 DEF IsSum, Adds
<1> QED BY <1>3, <1>4, <1>5

(* Sums of integers are integers.                                           *)
LEMMA SumType ==
    ASSUME NEW S, IsFiniteSet(S), NEW f, \A x \in S : f[x] \in Int
    PROVE  SumOver(S, f) \in Int
<1> DEFINE Bad == {s \in SUBSET S : SumOver(s, f) \notin Int}
<1>1. Bad = {}
  <2> SUFFICES ASSUME Bad # {} PROVE FALSE
      OBVIOUS
  <2>1. PICK s \in Bad : \A x \in s : s \ {x} \notin Bad
      BY SmallestSubset
  <2>2. s # {}
      BY SumEmpty
  <2>3. Taken(s) \in s /\ SumOver(s \ {Taken(s)}, f) \in Int
      BY <2>1, <2>2, TakenBelongs
  <2>4. SumOver(s, f) = f[Taken(s)] + SumOver(s \ {Taken(s)}, f)
      BY <2>2, SumTaken, FS_Subset
  <2> QED BY <2>3, <2>4
<1> QED BY <1>1

(* Any element may be taken: the order makes no difference.                 *)
LEMMA SumRemove ==
    ASSUME NEW S, IsFiniteSet(S), NEW f, \A y \in S : f[y] \in Int, NEW x \in S
    PROVE  SumOver(S, f) = f[x] + SumOver(S \ {x}, f)
<1> DEFINE Right(s) == \A y \in s : SumOver(s, f) = f[y] + SumOver(s \ {y}, f)
           Wrong == {s \in SUBSET S : ~Right(s)}
<1>1. Wrong = {}
  <2> SUFFICES ASSUME Wrong # {} PROVE FALSE
      OBVIOUS
  <2>1. PICK s \in Wrong : \A y \in s : s \ {y} \notin Wrong
      BY SmallestSubset
  <2>2. PICK y \in s : SumOver(s, f) # f[y] + SumOver(s \ {y}, f)
      BY <2>1
  <2> DEFINE z == Taken(s)
  <2>3. z \in s /\ IsFiniteSet(s) /\ SumOver(s, f) = f[z] + SumOver(s \ {z}, f)
      BY <2>2, TakenBelongs, SumTaken, FS_Subset
  <2> HIDE DEF z
  <2>4. z # y
      BY <2>2, <2>3
  <2>5. Right(s \ {z}) /\ Right(s \ {y})
      BY <2>1, <2>2, <2>3
  <2>6. /\ SumOver(s \ {z}, f) = f[y] + SumOver((s \ {z}) \ {y}, f)
        /\ SumOver(s \ {y}, f) = f[z] + SumOver((s \ {y}) \ {z}, f)
      BY <2>2, <2>3, <2>4, <2>5
  <2>7. (s \ {z}) \ {y} = (s \ {y}) \ {z}
      OBVIOUS
  <2>8. IsFiniteSet((s \ {y}) \ {z})
      BY <2>3, FS_RemoveElement
  <2>9. SumOver((s \ {y}) \ {z}, f) \in Int /\ f[y] \in Int /\ f[z] \in Int
      BY <2>2, <2>3, <2>8, SumType
  <2> DEFINE rest == SumOver((s \ {y}) \ {z}, f)
  <2>10. SumOver(s, f) = f[z] + (f[y] + rest) /\ SumOver(s \ {y}, f) = f[z] + rest
      BY <2>3, <2>6, <2>7
  <2> HIDE DEF rest
  <2>11. f[z] + (f[y] + rest) = f[y] + (f[z] + rest)
      BY <2>9 DEF rest
  <2> QED BY <2>2, <2>10, <2>11
<1> QED BY <1>1

(* A new element adds its value.                                            *)
LEMMA SumAdd ==
    ASSUME NEW S, IsFiniteSet(S), NEW x, x \notin S,
           NEW f, \A y \in S \cup {x} : f[y] \in Int
    PROVE  SumOver(S \cup {x}, f) = f[x] + SumOver(S, f)
<1>1. IsFiniteSet(S \cup {x})
    BY FS_AddElement
<1>2. (S \cup {x}) \ {x} = S
    OBVIOUS
<1> QED BY <1>1, <1>2, SumRemove

(* One value changes.                                                       *)
LEMMA SumChange ==
    ASSUME NEW S, IsFiniteSet(S), NEW x \in S,
           NEW f, NEW e, \A y \in S : f[y] \in Int /\ e[y] \in Int,
           \A y \in S \ {x} : e[y] = f[y]
    PROVE  SumOver(S, e) = SumOver(S, f) + e[x] - f[x]
<1>1. IsFiniteSet(S \ {x})
    BY FS_RemoveElement
<1>2. SumOver(S, e) = e[x] + SumOver(S \ {x}, e)
    BY SumRemove
<1>3. SumOver(S, f) = f[x] + SumOver(S \ {x}, f)
    BY SumRemove
<1>4. SumOver(S \ {x}, e) = SumOver(S \ {x}, f)
    BY <1>1, SumSame
<1>5. SumOver(S \ {x}, f) \in Int
    BY <1>1, SumType
<1> QED BY <1>2, <1>3, <1>4, <1>5

(* An amount is credited, or debited, to one of them.                       *)
LEMMA SumCredit ==
    ASSUME NEW S, IsFiniteSet(S), NEW x \in S, NEW d \in Int,
           NEW f, NEW e, \A y \in S : f[y] \in Int,
           \A y \in S : e[y] = f[y] + (IF y = x THEN d ELSE 0)
    PROVE  /\ SumOver(S, e) = SumOver(S, f) + d
           /\ \A y \in S : e[y] \in Int
<1>1. \A y \in S : f[y] \in Int /\ e[y] \in Int
    OBVIOUS
<1>2. \A y \in S \ {x} : e[y] = f[y]
    OBVIOUS
<1>3. SumOver(S, e) = SumOver(S, f) + e[x] - f[x]
    BY <1>1, <1>2, SumChange
<1>4. e[x] = f[x] + d /\ f[x] \in Int /\ SumOver(S, f) \in Int
    BY SumType
<1> QED BY <1>1, <1>3, <1>4

(* Nothing but zeros sums to zero.                                          *)
LEMMA SumZero ==
    ASSUME NEW S, IsFiniteSet(S), NEW f, \A x \in S : f[x] = 0
    PROVE  SumOver(S, f) = 0
<1> DEFINE Bad == {s \in SUBSET S : SumOver(s, f) # 0}
<1>1. Bad = {}
  <2> SUFFICES ASSUME Bad # {} PROVE FALSE
      OBVIOUS
  <2>1. PICK s \in Bad : \A x \in s : s \ {x} \notin Bad
      BY SmallestSubset
  <2>2. s # {}
      BY SumEmpty
  <2>3. Taken(s) \in s /\ SumOver(s \ {Taken(s)}, f) = 0
      BY <2>1, <2>2, TakenBelongs
  <2>4. SumOver(s, f) = f[Taken(s)] + SumOver(s \ {Taken(s)}, f)
      BY <2>2, SumTaken, FS_Subset
  <2> QED BY <2>3, <2>4
<1> QED BY <1>1
=============================================================================
