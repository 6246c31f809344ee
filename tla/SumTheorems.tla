----------------------------- MODULE SumTheorems -----------------------------
(***************************************************************************)
(* What the sums of the community module Functions compute, for every      *)
(* finite set of indices.                                                  *)
(*                                                                         *)
(* SumFunctionOnSet is a recursive function that takes the indices out of  *)
(* the set one by one, as CHOOSE picks them.  Inductions go over the       *)
(* subsets of a finite set, and what they prove is that all of them are in *)
(* the set of those the claim holds for (SubsetInduction).                 *)
(***************************************************************************)
EXTENDS FiniteSetTheorems, Functions, TLAPS

LEMMA SubsetInduction ==
    ASSUME NEW S, IsFiniteSet(S), NEW Good,
           \A m \in SUBSET S : (\A t \in SUBSET m : t # m => t \in Good) => m \in Good
    PROVE  \A m \in SUBSET S : m \in Good
<1>1. IsWellFoundedOn(StrictSubsetOrdering(S), SUBSET S)
  <2>1. FiniteSubsetsOf(S) = SUBSET S
    BY FS_FiniteSubsetsOfFinite
  <2> QED
    BY <2>1, FS_StrictSubsetOrderingWellFounded
<1> DEFINE Bad == (SUBSET S) \ Good
<1> SUFFICES ASSUME Bad # {} PROVE FALSE
  OBVIOUS
<1>2. Bad \subseteq SUBSET S
  OBVIOUS
<1> HIDE DEF Bad
<1>3. PICK m \in Bad : \A t \in Bad : <<t, m>> \notin StrictSubsetOrdering(S)
  BY <1>1, <1>2, WFMin
<1>4. ASSUME NEW t \in SUBSET m, t # m
      PROVE  t \in Good
  <2>1. t \in SUBSET S /\ m \in SUBSET S
    BY <1>2
  <2>2. <<t, m>> \in StrictSubsetOrdering(S)
    BY <1>4, <2>1 DEF StrictSubsetOrdering
  <2> QED
    BY <1>3, <2>1, <2>2 DEF Bad
<1> QED
  BY <1>4 DEF Bad

------------------------------------------------------------------------------
(* The recursive function behind a sum. *)

Pick(s) == CHOOSE x \in s : TRUE

SumsUp(g, f, S) ==
    g = [s \in SUBSET S |-> IF s = {} THEN 0 ELSE f[Pick(s)] + g[s \ {Pick(s)}]]

Sums(f, S) == CHOOSE g : SumsUp(g, f, S)

LEMMA SumIsLastOfSums ==
    ASSUME NEW f, NEW S
    PROVE  SumFunctionOnSet(f, S) = Sums(f, S)[S]
BY DEF SumFunctionOnSet, FoldFunctionOnSet, MapThenFoldSet, Sums, SumsUp, Pick

LEMMA SumsUpEquation ==
    ASSUME NEW f, NEW S, NEW g, SumsUp(g, f, S), NEW s \in SUBSET S
    PROVE  g[s] = IF s = {} THEN 0 ELSE f[Pick(s)] + g[s \ {Pick(s)}]
BY DEF SumsUp

LEMMA PickIn ==
    ASSUME NEW s, s # {}
    PROVE  Pick(s) \in s /\ s \ {Pick(s)} \in SUBSET s /\ s \ {Pick(s)} # s
BY DEF Pick

(* Two such functions agree where both are defined. *)
LEMMA SumsAgree ==
    ASSUME NEW f, NEW S, NEW T, NEW g, NEW h, SumsUp(g, f, S), SumsUp(h, f, T),
           NEW u \in SUBSET S, u \in SUBSET T, IsFiniteSet(u)
    PROVE  g[u] = h[u]
<1> DEFINE Good == {t \in SUBSET u : g[t] = h[t]}
<1>1. ASSUME NEW m \in SUBSET u, \A t \in SUBSET m : t # m => t \in Good
      PROVE  m \in Good
  <2>1. m \in SUBSET S /\ m \in SUBSET T
    OBVIOUS
  <2>2. g[m] = IF m = {} THEN 0 ELSE f[Pick(m)] + g[m \ {Pick(m)}]
    BY <2>1, SumsUpEquation
  <2>3. h[m] = IF m = {} THEN 0 ELSE f[Pick(m)] + h[m \ {Pick(m)}]
    BY ONLY <2>1, SumsUp(h, f, T), SumsUpEquation
  <2>4. m # {} => g[m \ {Pick(m)}] = h[m \ {Pick(m)}]
    BY <1>1, PickIn
  <2> QED
    BY <2>2, <2>3, <2>4
<1> HIDE DEF Good
<1>2. u \in Good
  BY <1>1, SubsetInduction
<1> QED
  BY <1>2 DEF Good

LEMMA SumsExist ==
    ASSUME NEW f, NEW S, IsFiniteSet(S)
    PROVE  SumsUp(Sums(f, S), f, S)
<1> DEFINE Good == {t \in SUBSET S : SumsUp(Sums(f, t), f, t)}
<1>1. ASSUME NEW m \in SUBSET S, \A t \in SUBSET m : t # m => t \in Good
      PROVE  m \in Good
  <2>1. ASSUME NEW t \in SUBSET m, t # m
        PROVE  SumsUp(Sums(f, t), f, t) /\ IsFiniteSet(t)
    BY <1>1, <2>1, FS_Subset
  <2> DEFINE g == [t \in SUBSET m |->
                      IF t = {} THEN 0
                      ELSE f[Pick(t)] + Sums(f, t \ {Pick(t)})[t \ {Pick(t)}]]
  <2>2. ASSUME NEW t \in SUBSET m, t # m
        PROVE  g[t] = Sums(f, t)[t]
    <3>1. Sums(f, t)[t] = IF t = {} THEN 0 ELSE f[Pick(t)] + Sums(f, t)[t \ {Pick(t)}]
      BY <2>1, <2>2, SumsUpEquation
    <3>2. CASE t = {}
      BY <3>1, <3>2
    <3>3. CASE t # {}
      <4> DEFINE v == t \ {Pick(t)}
      <4>1. v \in SUBSET t /\ v \in SUBSET m /\ v # m
        BY <2>2, <3>3, PickIn
      <4>2. /\ SumsUp(Sums(f, v), f, v) /\ IsFiniteSet(v)
            /\ SumsUp(Sums(f, t), f, t)
        BY <2>1, <2>2, <4>1
      <4>3. Sums(f, t)[v] = Sums(f, v)[v]
        BY <4>1, <4>2, SumsAgree
      <4> QED
        BY <3>1, <3>3, <4>3
    <3> QED
      BY <3>2, <3>3
  <2>3. ASSUME NEW t \in SUBSET m, t # {}
        PROVE  g[t \ {Pick(t)}] = Sums(f, t \ {Pick(t)})[t \ {Pick(t)}]
    <3>1. t \ {Pick(t)} \in SUBSET m /\ t \ {Pick(t)} # m
      BY <2>3, PickIn
    <3> HIDE DEF g
    <3> QED
      BY <2>2, <3>1
  <2>4. g = [t \in SUBSET m |-> IF t = {} THEN 0 ELSE f[Pick(t)] + g[t \ {Pick(t)}]]
    BY <2>3
  <2>5. SumsUp(g, f, m)
    BY <2>4 DEF SumsUp
  <2> HIDE DEF g
  <2> QED
    BY <2>5 DEF Sums
<1> HIDE DEF Good
<1>2. S \in Good
  BY <1>1, SubsetInduction
<1> QED
  BY <1>2 DEF Good

(* How a sum is computed: the index that is picked first, and the rest. *)
LEMMA SumStep ==
    ASSUME NEW f, NEW S, IsFiniteSet(S), S # {}
    PROVE  SumFunctionOnSet(f, S) = f[Pick(S)] + SumFunctionOnSet(f, S \ {Pick(S)})
<1> DEFINE T == S \ {Pick(S)}
<1>1. T \in SUBSET S /\ IsFiniteSet(T)
  BY FS_Subset
<1>2. SumsUp(Sums(f, S), f, S) /\ SumsUp(Sums(f, T), f, T)
  BY <1>1, SumsExist
<1>3. Sums(f, S)[S] = f[Pick(S)] + Sums(f, S)[T]
  BY <1>2, SumsUpEquation
<1>4. Sums(f, S)[T] = Sums(f, T)[T]
  BY <1>1, <1>2, SumsAgree
<1> QED
  BY <1>3, <1>4, SumIsLastOfSums

------------------------------------------------------------------------------
(* The sum over no index is 0. *)
THEOREM SumOverNothing == \A f : SumFunctionOnSet(f, {}) = 0
<1> SUFFICES ASSUME NEW f PROVE SumFunctionOnSet(f, {}) = 0
  OBVIOUS
<1>1. SumsUp(Sums(f, {}), f, {})
  BY SumsExist, FS_EmptySet
<1> QED
  BY <1>1, SumsUpEquation, SumIsLastOfSums

(* A sum of integers is one, and of natural numbers a natural number. *)
THEOREM SumInRange ==
    ASSUME NEW f, NEW S, IsFiniteSet(S), NEW R \in {Int, Nat}, \A x \in S : f[x] \in R
    PROVE  SumFunctionOnSet(f, S) \in R
<1> DEFINE Good == {t \in SUBSET S : SumFunctionOnSet(f, t) \in R}
<1>1. ASSUME NEW m \in SUBSET S, \A t \in SUBSET m : t # m => t \in Good
      PROVE  m \in Good
  <2>1. CASE m = {}
    BY <2>1, SumOverNothing
  <2>2. CASE m # {}
    <3>1. SumFunctionOnSet(f, m) = f[Pick(m)] + SumFunctionOnSet(f, m \ {Pick(m)})
      BY <2>2, SumStep, FS_Subset
    <3>2. SumFunctionOnSet(f, m \ {Pick(m)}) \in R /\ f[Pick(m)] \in R
      BY <1>1, <2>2, PickIn
    <3> QED
      BY <3>1, <3>2
  <2> QED
    BY <2>1, <2>2
<1> HIDE DEF Good
<1>2. S \in Good
  BY <1>1, SubsetInduction
<1> QED
  BY <1>2 DEF Good

(* Sums of functions that agree on the indices are the same. *)
THEOREM SumOfEquals ==
    ASSUME NEW f, NEW g, NEW S, IsFiniteSet(S), \A x \in S : f[x] = g[x]
    PROVE  SumFunctionOnSet(f, S) = SumFunctionOnSet(g, S)
<1> DEFINE Good == {t \in SUBSET S : SumFunctionOnSet(f, t) = SumFunctionOnSet(g, t)}
<1>1. ASSUME NEW m \in SUBSET S, \A t \in SUBSET m : t # m => t \in Good
      PROVE  m \in Good
  <2>1. CASE m = {}
    BY <2>1, SumOverNothing
  <2>2. CASE m # {}
    <3>1. /\ SumFunctionOnSet(f, m) = f[Pick(m)] + SumFunctionOnSet(f, m \ {Pick(m)})
          /\ SumFunctionOnSet(g, m) = g[Pick(m)] + SumFunctionOnSet(g, m \ {Pick(m)})
      BY <2>2, SumStep, FS_Subset
    <3>2. /\ SumFunctionOnSet(f, m \ {Pick(m)}) = SumFunctionOnSet(g, m \ {Pick(m)})
          /\ f[Pick(m)] = g[Pick(m)]
      BY <1>1, <2>2, PickIn
    <3> QED
      BY <3>1, <3>2
  <2> QED
    BY <2>1, <2>2
<1> HIDE DEF Good
<1>2. S \in Good
  BY <1>1, SubsetInduction
<1> QED
  BY <1>2 DEF Good

(* Any index can be taken out of the sum. *)
THEOREM SumWithout ==
    ASSUME NEW f, NEW S, IsFiniteSet(S), \A x \in S : f[x] \in Int, NEW a \in S
    PROVE  SumFunctionOnSet(f, S) = f[a] + SumFunctionOnSet(f, S \ {a})
<1> DEFINE Sum(t) == SumFunctionOnSet(f, t)
           Good   == {t \in SUBSET S : \A x \in t : Sum(t) = f[x] + Sum(t \ {x})}
<1>1. ASSUME NEW m \in SUBSET S, \A t \in SUBSET m : t # m => t \in Good
      PROVE  m \in Good
  <2> SUFFICES ASSUME NEW x \in m PROVE Sum(m) = f[x] + Sum(m \ {x})
    OBVIOUS
  <2>1. PICK p \in m : Sum(m) = f[p] + Sum(m \ {p})
    BY SumStep, FS_Subset, PickIn
  <2>2. CASE x = p
    BY <2>1, <2>2
  <2>3. CASE x # p
    <3> DEFINE t == (m \ {p}) \ {x}
    <3>1. t = (m \ {x}) \ {p}
      OBVIOUS
    <3>2. Sum(m \ {p}) = f[x] + Sum(t)
      <4>1. m \ {p} \in SUBSET m /\ m \ {p} # m /\ x \in m \ {p}
        BY <2>3
      <4>2. m \ {p} \in Good
        BY <1>1, <4>1
      <4> QED
        BY <4>1, <4>2
    <3>3. Sum(m \ {x}) = f[p] + Sum(t)
      <4>1. m \ {x} \in SUBSET m /\ m \ {x} # m /\ p \in m \ {x}
        BY <2>3
      <4>2. m \ {x} \in Good
        BY <1>1, <4>1
      <4> QED
        BY <3>1, <4>1, <4>2
    <3>4. Sum(t) \in Int /\ f[p] \in Int /\ f[x] \in Int
      <4>1. IsFiniteSet(t) /\ t \in SUBSET S
        BY FS_Subset
      <4> QED
        BY <4>1, SumInRange
    <3> HIDE DEF t, Sum
    <3> QED
      BY <2>1, <3>2, <3>3, <3>4
  <2> QED
    BY <2>2, <2>3
<1> HIDE DEF Good
<1>2. S \in Good
  BY <1>1, SubsetInduction
<1> QED
  BY <1>2 DEF Good

(* Changing the value of one index changes the sum by as much. *)
THEOREM SumOfUpdate ==
    ASSUME NEW f, NEW g, NEW S, IsFiniteSet(S), NEW a \in S,
           \A x \in S : f[x] \in Int /\ g[x] \in Int,
           \A x \in S \ {a} : g[x] = f[x]
    PROVE  SumFunctionOnSet(g, S) = SumFunctionOnSet(f, S) - f[a] + g[a]
<1> DEFINE T == S \ {a}
<1>1. IsFiniteSet(T)
  BY FS_Subset
<1>2. SumFunctionOnSet(f, T) = SumFunctionOnSet(g, T)
  BY <1>1, SumOfEquals
<1>3. /\ SumFunctionOnSet(f, S) = f[a] + SumFunctionOnSet(f, T)
      /\ SumFunctionOnSet(g, S) = g[a] + SumFunctionOnSet(g, T)
  BY SumWithout
<1>4. SumFunctionOnSet(f, T) \in Int
  BY <1>1, SumInRange
<1> QED
  BY <1>2, <1>3, <1>4

(* A sum over two parts is the sum of the two. *)
THEOREM SumOfParts ==
    ASSUME NEW f, NEW S, IsFiniteSet(S), \A x \in S : f[x] \in Int, NEW P \in SUBSET S
    PROVE  SumFunctionOnSet(f, S) = SumFunctionOnSet(f, P) + SumFunctionOnSet(f, S \ P)
<1> DEFINE Sum(t) == SumFunctionOnSet(f, t)
           Good   == {t \in SUBSET P : Sum(S) = Sum(t) + Sum(S \ t)}
<1>1. ASSUME NEW m \in SUBSET P, \A t \in SUBSET m : t # m => t \in Good
      PROVE  m \in Good
  <2>1. CASE m = {}
    <3>1. Sum({}) = 0 /\ S \ {} = S /\ Sum(S) \in Int
      BY SumOverNothing, SumInRange
    <3> QED
      BY <2>1, <3>1
  <2>2. CASE m # {}
    <3>1. PICK p \in m : TRUE
      BY <2>2
    <3>2. m \ {p} \in Good
      BY <1>1, <3>1
    <3>3. /\ IsFiniteSet(m) /\ IsFiniteSet(m \ {p})
          /\ IsFiniteSet(S \ m) /\ IsFiniteSet(S \ (m \ {p}))
      BY FS_Subset
    <3>4. Sum(m) = f[p] + Sum(m \ {p})
      BY <3>3, SumWithout
    <3>5. Sum(S \ (m \ {p})) = f[p] + Sum(S \ m)
      <4>1. (S \ (m \ {p})) \ {p} = S \ m /\ p \in S \ (m \ {p})
        OBVIOUS
      <4>2. \A x \in S \ (m \ {p}) : f[x] \in Int
        OBVIOUS
      <4> QED
        BY ONLY <3>3, <4>1, <4>2, SumWithout DEF Sum
    <3>6. /\ Sum(m \ {p}) \in Int /\ Sum(S \ m) \in Int /\ f[p] \in Int
      BY <3>3, SumInRange
    <3> HIDE DEF Sum
    <3> QED
      BY <3>2, <3>4, <3>5, <3>6
  <2> QED
    BY <2>1, <2>2
<1> HIDE DEF Good
<1>2. P \in Good
  <2>1. IsFiniteSet(P)
    BY FS_Subset
  <2> QED
    BY <1>1, <2>1, SubsetInduction
<1> QED
  BY <1>2 DEF Good

(* Indices with the value 0 may be left out. *)
THEOREM SumOfNonzero ==
    ASSUME NEW f, NEW S, IsFiniteSet(S), \A x \in S : f[x] \in Int,
           NEW P \in SUBSET S, \A x \in S \ P : f[x] = 0
    PROVE  SumFunctionOnSet(f, S) = SumFunctionOnSet(f, P)
<1> DEFINE Rest == S \ P
           Good == {t \in SUBSET Rest : SumFunctionOnSet(f, t) = 0}
<1>1. ASSUME NEW m \in SUBSET Rest, \A t \in SUBSET m : t # m => t \in Good
      PROVE  m \in Good
  <2>1. CASE m = {}
    BY <2>1, SumOverNothing
  <2>2. CASE m # {}
    <3>1. IsFiniteSet(m)
      BY FS_Subset
    <3>2. SumFunctionOnSet(f, m) = f[Pick(m)] + SumFunctionOnSet(f, m \ {Pick(m)})
      BY <2>2, <3>1, SumStep
    <3>3. SumFunctionOnSet(f, m \ {Pick(m)}) = 0 /\ f[Pick(m)] = 0
      BY <1>1, <2>2, PickIn
    <3> QED
      BY <3>2, <3>3
  <2> QED
    BY <2>1, <2>2
<1>2. IsFiniteSet(Rest)
  BY FS_Subset
<1> HIDE DEF Good, Rest
<1>3. Rest \in Good
  BY <1>1, <1>2, SubsetInduction
<1>4. SumFunctionOnSet(f, P) \in Int
  BY FS_Subset, SumInRange
<1> QED
  BY <1>3, <1>4, SumOfParts DEF Good, Rest

(* A sum over more natural numbers is no less. *)
THEOREM SumIsMonotonic ==
    ASSUME NEW f, NEW S, IsFiniteSet(S), \A x \in S : f[x] \in Nat, NEW P \in SUBSET S
    PROVE  SumFunctionOnSet(f, P) <= SumFunctionOnSet(f, S)
<1>1. IsFiniteSet(P) /\ IsFiniteSet(S \ P)
  BY FS_Subset
<1>2. SumFunctionOnSet(f, P) \in Nat /\ SumFunctionOnSet(f, S \ P) \in Nat
  BY <1>1, SumInRange
<1>3. SumFunctionOnSet(f, S) = SumFunctionOnSet(f, P) + SumFunctionOnSet(f, S \ P)
  BY SumOfParts
<1> QED
  BY <1>2, <1>3

(* Renaming the indices one to one leaves the sum as it is. *)
THEOREM SumOfRenamed ==
    ASSUME NEW f, NEW g, NEW S, NEW T, IsFiniteSet(S), IsFiniteSet(T),
           NEW h \in [S -> T],
           \A y \in T : \E x \in S : h[x] = y,
           \A x, y \in S : h[x] = h[y] => x = y,
           \A x \in S : f[x] \in Int /\ g[h[x]] = f[x]
    PROVE  SumFunctionOnSet(g, T) = SumFunctionOnSet(f, S)
<1> DEFINE Image(s) == {h[x] : x \in s}
           Good     == {s \in SUBSET S : SumFunctionOnSet(g, Image(s)) = SumFunctionOnSet(f, s)}
<1>1. ASSUME NEW m \in SUBSET S, \A t \in SUBSET m : t # m => t \in Good
      PROVE  m \in Good
  <2>1. CASE m = {}
    <3>1. Image(m) = {}
      BY <2>1
    <3> QED
      BY <2>1, <3>1, SumOverNothing
  <2>2. CASE m # {}
    <3>1. PICK p \in m : TRUE
      BY <2>2
    <3>2. Image(m \ {p}) = Image(m) \ {h[p]} /\ h[p] \in Image(m)
      OBVIOUS
    <3>3. m \ {p} \in Good
      BY <1>1, <3>1
    <3>4. SumFunctionOnSet(f, m) = f[p] + SumFunctionOnSet(f, m \ {p})
      BY FS_Subset, SumWithout
    <3>5. SumFunctionOnSet(g, Image(m)) = g[h[p]] + SumFunctionOnSet(g, Image(m) \ {h[p]})
      <4>1. Image(m) \in SUBSET T /\ \A y \in Image(m) : g[y] \in Int
        OBVIOUS
      <4>2. IsFiniteSet(Image(m))
        BY <4>1, FS_Subset
      <4> QED
        BY <3>2, <4>1, <4>2, SumWithout
    <3> QED
      BY <3>2, <3>3, <3>4, <3>5
  <2> QED
    BY <2>1, <2>2
<1>2. Image(S) = T
  OBVIOUS
<1> HIDE DEF Good
<1>3. S \in Good
  BY <1>1, SubsetInduction
<1> QED
  BY <1>2, <1>3 DEF Good
=============================================================================
