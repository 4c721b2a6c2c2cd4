----------------------------- MODULE SumProofs -----------------------------
(***************************************************************************)
(* Facts about SumFunction of the community modules, for sums over finite  *)
(* sets of any size.  The library's induction rules take a predicate as a  *)
(* parameter; here induction is stated for a set of good values instead,   *)
(* and rests on the minimal element that a well-founded order provides.    *)
(***************************************************************************)
EXTENDS Integers, FiniteSets, Functions, FiniteSetTheorems, WellFoundedInduction, TLAPS

---------------------------------------------------------------------------
(* Induction over a set of good values *)

\* Induction on the natural numbers.
LEMMA NatInSet ==
    ASSUME NEW Good, 0 \in Good, \A n \in Nat : n \in Good => n + 1 \in Good
    PROVE  Nat \subseteq Good
<1> DEFINE Bad == Nat \ Good
<1> SUFFICES ASSUME Bad # {} PROVE FALSE
  OBVIOUS
<1>1. PICK n \in Bad : \A k \in Bad : ~(<<k, n>> \in OpToRel(<, Nat))
  BY NatLessThanWellFounded, WFMin
<1>2. \A k \in Bad : ~(k < n)
  BY <1>1 DEF OpToRel
<1>3. n - 1 \in Nat /\ n - 1 < n
  BY <1>2
<1> QED
  BY <1>2, <1>3

\* Induction on the subsets of a finite set.
LEMMA SubsetsInSet ==
    ASSUME NEW S, IsFiniteSet(S), NEW Good,
           \A T \in SUBSET S : (\A U \in SUBSET T : U # T => U \in Good) => T \in Good
    PROVE  SUBSET S \subseteq Good
<1> DEFINE Bad == (SUBSET S) \ Good
<1> SUFFICES ASSUME Bad # {} PROVE FALSE
  OBVIOUS
<1>1. Bad \subseteq FiniteSubsetsOf(S)
  BY FS_Subset DEF FiniteSubsetsOf
<1>2. PICK T \in Bad : \A U \in Bad : ~(<<U, T>> \in StrictSubsetOrdering(S))
  <2>1. IsWellFoundedOn(StrictSubsetOrdering(S), FiniteSubsetsOf(S))
    BY FS_StrictSubsetOrderingWellFounded
  <2> HIDE DEF Bad
  <2> QED
    BY <1>1, <2>1, WFMin
<1>3. \A U \in SUBSET T : U # T => U \in Good
  BY <1>2 DEF StrictSubsetOrdering
<1> QED
  BY <1>3

---------------------------------------------------------------------------
(* The sum of a set is built from its subsets *)

Pick(s) == CHOOSE x \in s : TRUE

\* The function that MapThenFoldSet iterates.
Step(f, S, g) == [s \in SUBSET S |-> IF s = {} THEN 0 ELSE f[Pick(s)] + g[s \ {Pick(s)}]]
Partial(f, S) == CHOOSE g : g = Step(f, S, g)

LEMMA SumIsPartial ==
    ASSUME NEW f, NEW S
    PROVE  SumFunctionOnSet(f, S) = Partial(f, S)[S]
BY DEF SumFunctionOnSet, FoldFunctionOnSet, MapThenFoldSet, Partial, Step, Pick

\* One more level of subsets can always be added to a table of partial sums.
LEMMA PartialExists ==
    ASSUME NEW f, NEW S, IsFiniteSet(S)
    PROVE  \E g : g = Step(f, S, g)
<1> DEFINE Small(n) == {s \in SUBSET S : Cardinality(s) <= n}
           Table(g, n) == g = [s \in Small(n) |->
                                 IF s = {} THEN 0 ELSE f[Pick(s)] + g[s \ {Pick(s)}]]
           Good == {n \in Nat : \E g : Table(g, n)}
<1>1. \A s \in SUBSET S : IsFiniteSet(s) /\ Cardinality(s) \in Nat
                         /\ (Cardinality(s) = 0 <=> s = {})
  BY FS_Subset, FS_CardinalityType, FS_EmptySet
<1>2. ASSUME NEW s \in SUBSET S, s # {}
      PROVE  /\ s \ {Pick(s)} \in SUBSET S
             /\ Cardinality(s \ {Pick(s)}) = Cardinality(s) - 1
  <2>1. Pick(s) \in s
    BY <1>2 DEF Pick
  <2> QED
    BY <1>1, <2>1, FS_RemoveElement
<1>3. 0 \in Good
  <2>1. Small(0) = {{}}
    BY <1>1
  <2>2. PICK g : g = [s \in {{}} |-> 0]
    OBVIOUS
  <2>3. Table(g, 0)
    BY <2>1, <2>2
  <2> QED
    BY <2>3
<1>4. ASSUME NEW n \in Nat, n \in Good PROVE n + 1 \in Good
  <2>1. PICK g : Table(g, n)
    BY <1>4
  <2>2. PICK h : h = [s \in Small(n + 1) |->
                       IF s = {} THEN 0 ELSE f[Pick(s)] + g[s \ {Pick(s)}]]
    OBVIOUS
  <2>3. ASSUME NEW s \in Small(n + 1), s # {}
        PROVE  g[s \ {Pick(s)}] = h[s \ {Pick(s)}]
    <3> DEFINE w == s \ {Pick(s)}
    <3>1. w \in Small(n) /\ w \in Small(n + 1)
      BY <1>1, <1>2, <2>3
    <3> HIDE DEF w, Small
    <3>2. g[w] = IF w = {} THEN 0 ELSE f[Pick(w)] + g[w \ {Pick(w)}]
      BY <2>1, <3>1
    <3>3. h[w] = IF w = {} THEN 0 ELSE f[Pick(w)] + g[w \ {Pick(w)}]
      BY <2>2, <3>1
    <3> QED
      BY <3>2, <3>3 DEF w
  <2> HIDE DEF Small
  <2>4. h = [s \in Small(n + 1) |-> IF s = {} THEN 0 ELSE f[Pick(s)] + h[s \ {Pick(s)}]]
    BY <2>2, <2>3
  <2>5. Table(h, n + 1)
    BY <2>4, Zenon
  <2>6. n + 1 \in Nat
    OBVIOUS
  <2> HIDE DEF Table
  <2> QED
    BY <2>5, <2>6
<1>5. Cardinality(S) \in Good
  <2> HIDE DEF Good
  <2> QED
    BY <1>3, <1>4, NatInSet, FS_CardinalityType
<1>6. Small(Cardinality(S)) = SUBSET S
  BY FS_Subset
<1> QED
  BY <1>5, <1>6 DEF Step

LEMMA PartialDef ==
    ASSUME NEW f, NEW S, IsFiniteSet(S), NEW s \in SUBSET S
    PROVE  Partial(f, S)[s] = IF s = {} THEN 0 ELSE f[Pick(s)] + Partial(f, S)[s \ {Pick(s)}]
<1> DEFINE g == Partial(f, S)
<1>1. g = Step(f, S, g)
  BY PartialExists, Zenon DEF Partial
<1> HIDE DEF g
<1>2. g[s] = IF s = {} THEN 0 ELSE f[Pick(s)] + g[s \ {Pick(s)}]
  BY <1>1 DEF Step
<1> QED
  BY <1>2 DEF g

\* A property of 0 that adding one element keeps is a property of the sum.
LEMMA SumInSet ==
    ASSUME NEW f, NEW S, IsFiniteSet(S), NEW Values, 0 \in Values,
           \A x \in S, v \in Values : f[x] + v \in Values
    PROVE  SumFunctionOnSet(f, S) \in Values
<1> DEFINE Good == {s \in SUBSET S : Partial(f, S)[s] \in Values}
<1>1. ASSUME NEW T \in SUBSET S, \A U \in SUBSET T : U # T => U \in Good
      PROVE  T \in Good
  <2>1. CASE T = {}
    BY <2>1, PartialDef
  <2>2. CASE T # {}
    <3>1. Pick(T) \in T
      BY <2>2 DEF Pick
    <3>2. Partial(f, S)[T \ {Pick(T)}] \in Values
      BY <1>1, <3>1
    <3>3. Partial(f, S)[T] = f[Pick(T)] + Partial(f, S)[T \ {Pick(T)}]
      BY <2>2, PartialDef
    <3> QED
      BY <3>1, <3>2, <3>3
  <2> QED
    BY <2>1, <2>2
<1>2. SUBSET S \subseteq Good
  <2> HIDE DEF Good
  <2> QED
    BY <1>1, SubsetsInSet
<1> QED
  BY <1>2, SumIsPartial

\* In particular, a sum of integers is an integer, one of natural numbers is a
\* natural number, and one of zeros is zero.
LEMMA SumTypes ==
    ASSUME NEW f, NEW S, IsFiniteSet(S)
    PROVE  /\ (\A x \in S : f[x] \in Int) => SumFunctionOnSet(f, S) \in Int
           /\ (\A x \in S : f[x] \in Nat) => SumFunctionOnSet(f, S) \in Nat
           /\ (\A x \in S : f[x] = 0) => SumFunctionOnSet(f, S) = 0
<1>1. ASSUME \A x \in S : f[x] \in Int PROVE SumFunctionOnSet(f, S) \in Int
  <2>1. \A x \in S, v \in Int : f[x] + v \in Int
    BY <1>1
  <2> QED
    BY <2>1, SumInSet
<1>2. ASSUME \A x \in S : f[x] \in Nat PROVE SumFunctionOnSet(f, S) \in Nat
  <2>1. \A x \in S, v \in Nat : f[x] + v \in Nat
    BY <1>2
  <2> QED
    BY <2>1, SumInSet
<1>3. ASSUME \A x \in S : f[x] = 0 PROVE SumFunctionOnSet(f, S) = 0
  <2>1. \A x \in S, v \in {0} : f[x] + v \in {0}
    BY <1>3
  <2>2. SumFunctionOnSet(f, S) \in {0}
    BY <2>1, SumInSet
  <2> QED
    BY <2>2
<1> QED
  BY <1>1, <1>2, <1>3

---------------------------------------------------------------------------
(* Taking one element out of a sum *)

\* The partial sums are the sums of the subsets.
LEMMA PartialIsSum ==
    ASSUME NEW f, NEW S, IsFiniteSet(S), NEW R \in SUBSET S
    PROVE  Partial(f, S)[R] = SumFunctionOnSet(f, R)
<1> DEFINE Good == {T \in SUBSET R : Partial(f, S)[T] = Partial(f, R)[T]}
<1>1. IsFiniteSet(R)
  BY FS_Subset
<1>2. ASSUME NEW T \in SUBSET R, \A U \in SUBSET T : U # T => U \in Good
      PROVE  T \in Good
  <2>1. T \in SUBSET S
    OBVIOUS
  <2>2. CASE T = {}
    BY <1>1, <2>1, <2>2, PartialDef
  <2>3. CASE T # {}
    <3>1. T \ {Pick(T)} \in Good
      BY <1>2, <2>3 DEF Pick
    <3>2. Partial(f, S)[T] = f[Pick(T)] + Partial(f, S)[T \ {Pick(T)}]
      BY <2>1, <2>3, PartialDef
    <3>3. Partial(f, R)[T] = f[Pick(T)] + Partial(f, R)[T \ {Pick(T)}]
      BY <1>1, <2>3, PartialDef
    <3> QED
      BY <3>1, <3>2, <3>3
  <2> QED
    BY <2>2, <2>3
<1>3. SUBSET R \subseteq Good
  <2> HIDE DEF Good
  <2> QED
    BY <1>1, <1>2, SubsetsInSet
<1> QED
  BY <1>3, SumIsPartial

LEMMA SumDef ==
    ASSUME NEW f, NEW S, IsFiniteSet(S)
    PROVE  SumFunctionOnSet(f, S)
             = IF S = {} THEN 0 ELSE f[Pick(S)] + SumFunctionOnSet(f, S \ {Pick(S)})
<1>1. S \ {Pick(S)} \in SUBSET S
  OBVIOUS
<1>2. Partial(f, S)[S \ {Pick(S)}] = SumFunctionOnSet(f, S \ {Pick(S)})
  BY <1>1, PartialIsSum
<1>3. Partial(f, S)[S] = IF S = {} THEN 0 ELSE f[Pick(S)] + Partial(f, S)[S \ {Pick(S)}]
  BY PartialDef
<1> QED
  BY <1>2, <1>3, SumIsPartial

\* The order in which elements are picked does not matter.
LEMMA SumRemove ==
    ASSUME NEW f, NEW S, IsFiniteSet(S), \A x \in S : f[x] \in Int, NEW e \in S
    PROVE  SumFunctionOnSet(f, S) = f[e] + SumFunctionOnSet(f, S \ {e})
<1> DEFINE sum(T) == SumFunctionOnSet(f, T)
           Good == {T \in SUBSET S : \A x \in T : sum(T) = f[x] + sum(T \ {x})}
<1>1. \A T \in SUBSET S : IsFiniteSet(T) /\ sum(T) \in Int
  BY FS_Subset, SumTypes
<1>2. ASSUME NEW T \in SUBSET S, \A U \in SUBSET T : U # T => U \in Good
      PROVE  T \in Good
  <2> SUFFICES ASSUME NEW x \in T PROVE sum(T) = f[x] + sum(T \ {x})
    OBVIOUS
  <2> DEFINE p == Pick(T)
  <2>1. p \in T
    BY DEF Pick
  <2>2. sum(T) = f[p] + sum(T \ {p})
    BY <1>1, SumDef
  <2>3. CASE x = p
    BY <2>2, <2>3
  <2>4. CASE x # p
    <3>1. T \ {p} \in Good /\ T \ {x} \in Good
      BY <1>2, <2>1
    <3> HIDE DEF sum, p
    <3>2. sum(T \ {p}) = f[x] + sum((T \ {p}) \ {x})
      BY <2>4, <3>1
    <3>3. sum(T \ {x}) = f[p] + sum((T \ {x}) \ {p})
      BY <2>1, <2>4, <3>1
    <3>4. (T \ {p}) \ {x} = (T \ {x}) \ {p}
      OBVIOUS
    <3>5. sum((T \ {x}) \ {p}) \in Int /\ f[x] \in Int /\ f[p] \in Int
      BY <1>1, <2>1
    <3>6. sum(T) = f[p] + (f[x] + sum((T \ {x}) \ {p}))
      BY <2>2, <3>2, <3>4
    <3>7. sum(T \ {x}) = f[p] + sum((T \ {x}) \ {p})
      BY <3>3
    <3> QED
      BY <3>5, <3>6, <3>7
  <2> QED
    BY <2>3, <2>4
<1>3. SUBSET S \subseteq Good
  <2> HIDE DEF Good
  <2> QED
    BY <1>2, SubsetsInSet
<1>4. S \in SUBSET S
  OBVIOUS
<1> QED
  BY <1>3, <1>4

\* Sums of functions that agree on the set are equal.
LEMMA SumSame ==
    ASSUME NEW f, NEW g, NEW S, IsFiniteSet(S), \A x \in S : f[x] = g[x]
    PROVE  SumFunctionOnSet(f, S) = SumFunctionOnSet(g, S)
<1> DEFINE Good == {T \in SUBSET S : SumFunctionOnSet(f, T) = SumFunctionOnSet(g, T)}
<1>1. ASSUME NEW T \in SUBSET S, \A U \in SUBSET T : U # T => U \in Good
      PROVE  T \in Good
  <2>1. IsFiniteSet(T)
    BY FS_Subset
  <2>2. /\ SumFunctionOnSet(f, T)
           = IF T = {} THEN 0 ELSE f[Pick(T)] + SumFunctionOnSet(f, T \ {Pick(T)})
        /\ SumFunctionOnSet(g, T)
           = IF T = {} THEN 0 ELSE g[Pick(T)] + SumFunctionOnSet(g, T \ {Pick(T)})
    BY <2>1, SumDef
  <2>3. T # {} => T \ {Pick(T)} \in Good /\ Pick(T) \in S
    BY <1>1 DEF Pick
  <2> QED
    BY <2>2, <2>3
<1>2. SUBSET S \subseteq Good
  <2> HIDE DEF Good
  <2> QED
    BY <1>1, SubsetsInSet
<1>3. S \in SUBSET S
  OBVIOUS
<1> QED
  BY <1>2, <1>3

\* Changing a function at one element changes the sum by the difference.
LEMMA SumChange ==
    ASSUME NEW f, NEW g, NEW S, IsFiniteSet(S), NEW e \in S,
           \A x \in S : f[x] \in Int /\ g[x] \in Int,
           \A x \in S \ {e} : f[x] = g[x]
    PROVE  SumFunctionOnSet(g, S) = SumFunctionOnSet(f, S) + (g[e] - f[e])
<1>1. IsFiniteSet(S \ {e})
  BY FS_Subset
<1>2. SumFunctionOnSet(f, S \ {e}) = SumFunctionOnSet(g, S \ {e})
  BY <1>1, SumSame
<1>3. SumFunctionOnSet(f, S \ {e}) \in Int
  BY <1>1, SumTypes
<1>4. /\ SumFunctionOnSet(f, S) = f[e] + SumFunctionOnSet(f, S \ {e})
      /\ SumFunctionOnSet(g, S) = g[e] + SumFunctionOnSet(g, S \ {e})
  BY SumRemove
<1> QED
  BY <1>2, <1>3, <1>4

\* The sum of a sum of two functions is the sum of their sums.
LEMMA SumPlus ==
    ASSUME NEW f, NEW g, NEW h, NEW S, IsFiniteSet(S),
           \A x \in S : f[x] \in Int /\ g[x] \in Int /\ h[x] = f[x] + g[x]
    PROVE  SumFunctionOnSet(h, S) = SumFunctionOnSet(f, S) + SumFunctionOnSet(g, S)
<1> DEFINE sum(k, T) == SumFunctionOnSet(k, T)
           Good == {T \in SUBSET S : sum(h, T) = sum(f, T) + sum(g, T)}
<1>1. \A T \in SUBSET S : IsFiniteSet(T) /\ sum(f, T) \in Int /\ sum(g, T) \in Int
  BY FS_Subset, SumTypes
<1>2. ASSUME NEW T \in SUBSET S, \A U \in SUBSET T : U # T => U \in Good
      PROVE  T \in Good
  <2> DEFINE p == Pick(T)
  <2>1. \A k : sum(k, T) = IF T = {} THEN 0 ELSE k[p] + sum(k, T \ {p})
    BY <1>1, SumDef
  <2>2. T # {} => p \in T /\ T \ {p} \in SUBSET T /\ T \ {p} # T
    BY DEF Pick
  <2>3. T # {} => sum(h, T \ {p}) = sum(f, T \ {p}) + sum(g, T \ {p})
    BY <1>2, <2>2
  <2> HIDE DEF p, sum
  <2>4. sum(h, T) = sum(f, T) + sum(g, T)
    <3>1. CASE T = {}
      BY <2>1, <3>1
    <3>2. CASE T # {}
      <4>1. h[p] = f[p] + g[p] /\ f[p] \in Int /\ g[p] \in Int
        BY <2>2, <3>2
      <4>2. sum(f, T \ {p}) \in Int /\ sum(g, T \ {p}) \in Int
        BY <1>1, <2>2, <3>2
      <4> QED
        BY <2>1, <2>3, <3>2, <4>1, <4>2
    <3> QED
      BY <3>1, <3>2
  <2> QED
    BY <2>4
<1>3. SUBSET S \subseteq Good
  <2> HIDE DEF Good
  <2> QED
    BY <1>2, SubsetsInSet
<1>4. S \in SUBSET S
  OBVIOUS
<1> QED
  BY <1>3, <1>4

\* Sums compare as their terms do.
LEMMA SumLeq ==
    ASSUME NEW f, NEW g, NEW S, IsFiniteSet(S),
           \A x \in S : f[x] \in Int /\ g[x] \in Int /\ f[x] <= g[x]
    PROVE  SumFunctionOnSet(f, S) <= SumFunctionOnSet(g, S)
<1> DEFINE d == [x \in S |-> g[x] - f[x]]
<1>1. \A x \in S : d[x] \in Nat /\ d[x] \in Int /\ g[x] = f[x] + d[x]
  OBVIOUS
<1> HIDE DEF d
<1>2. SumFunctionOnSet(g, S) = SumFunctionOnSet(f, S) + SumFunctionOnSet(d, S)
  BY <1>1, SumPlus
<1>3. SumFunctionOnSet(d, S) \in Nat /\ SumFunctionOnSet(f, S) \in Int
  BY <1>1, SumTypes
<1> QED
  BY <1>2, <1>3

\* The sum of a set is that of a part and of the rest.
LEMMA SumSplit ==
    ASSUME NEW f, NEW S, IsFiniteSet(S), \A x \in S : f[x] \in Int, NEW R \in SUBSET S
    PROVE  SumFunctionOnSet(f, S) = SumFunctionOnSet(f, R) + SumFunctionOnSet(f, S \ R)
<1> DEFINE sum(T) == SumFunctionOnSet(f, T)
           Good == {T \in SUBSET S : sum(T) = sum(T \cap R) + sum(T \ R)}
<1>1. \A T \in SUBSET S : /\ IsFiniteSet(T) /\ sum(T) \in Int
                          /\ \A x \in T : sum(T) = f[x] + sum(T \ {x})
  <2> TAKE T \in SUBSET S
  <2>1. IsFiniteSet(T)
    BY FS_Subset
  <2>2. \A x \in T : f[x] \in Int
    OBVIOUS
  <2> QED
    BY <2>1, <2>2, SumTypes, SumRemove
<1>2. ASSUME NEW T \in SUBSET S, \A U \in SUBSET T : U # T => U \in Good
      PROVE  T \in Good
  <2>1. CASE T = {}
    <3>1. sum({}) = 0 /\ T \cap R = {} /\ T \ R = {}
      BY <2>1, SumTypes, FS_EmptySet
    <3> QED
      BY <2>1, <3>1
  <2>2. CASE T # {}
    <3>1. PICK p \in T : TRUE
      BY <2>2
    <3>2. T \ {p} \in SUBSET T /\ T \ {p} # T /\ f[p] \in Int
      OBVIOUS
    <3>3. sum(T \ {p}) = sum((T \ {p}) \cap R) + sum((T \ {p}) \ R)
      BY <1>2, <3>2
    <3>4. sum(T) = f[p] + sum(T \ {p})
      BY <1>1
    <3>5. sum((T \ {p}) \cap R) \in Int /\ sum((T \ {p}) \ R) \in Int
      BY <1>1
    <3> DEFINE in == (T \ {p}) \cap R
               out == (T \ {p}) \ R
    <3>6. sum(T) = f[p] + sum(in) + sum(out)
      BY <3>2, <3>3, <3>4, <3>5
    <3>7. CASE p \in R
      <4>1. in = (T \cap R) \ {p} /\ out = T \ R /\ p \in T \cap R
        BY <3>7
      <4>2. sum(T \cap R) = f[p] + sum(in)
        BY <1>1, <4>1
      <4> QED
        BY <3>6, <4>1, <4>2
    <3>8. CASE p \notin R
      <4>1. out = (T \ R) \ {p} /\ in = T \cap R /\ p \in T \ R
        BY <3>8
      <4>2. sum(T \ R) = f[p] + sum(out)
        BY <1>1, <4>1
      <4>3. sum(in) \in Int /\ sum(out) \in Int
        BY <3>5
      <4>4. sum(T) = sum(T \cap R) + sum(T \ R)
        <5>1. sum(T) = sum(in) + (f[p] + sum(out))
          <6> HIDE DEF sum
          <6> QED BY <3>2, <3>6, <4>3
        <5> QED BY <4>1, <4>2, <5>1
      <4> QED
        BY <4>4
    <3> QED
      BY <3>7, <3>8
  <2> QED
    BY <2>1, <2>2
<1>3. SUBSET S \subseteq Good
  <2> HIDE DEF Good
  <2> QED
    BY <1>2, SubsetsInSet
<1>4. S \in SUBSET S /\ S \cap R = R
  OBVIOUS
<1>5. S \in Good
  BY <1>3, <1>4
<1> QED
  BY <1>4, <1>5

\* A finite set of integers has a greatest one.
LEMMA GreatestExists ==
    ASSUME NEW S \in SUBSET Int, IsFiniteSet(S), S # {}
    PROVE  \E m \in S : \A x \in S : x <= m
<1> DEFINE Good == {T \in SUBSET S : T # {} => \E m \in T : \A x \in T : x <= m}
<1>1. ASSUME NEW T \in SUBSET S, \A U \in SUBSET T : U # T => U \in Good
      PROVE  T \in Good
  <2> SUFFICES ASSUME NEW p \in T PROVE \E m \in T : \A x \in T : x <= m
    OBVIOUS
  <2>1. T \ {p} \in Good
    BY <1>1
  <2>2. CASE T \ {p} = {}
    BY <2>2
  <2>3. CASE T \ {p} # {}
    <3>1. PICK m \in T \ {p} : \A x \in T \ {p} : x <= m
      BY <2>1, <2>3
    <3>2. CASE p <= m
      BY <3>1, <3>2
    <3>3. CASE ~(p <= m)
      BY <3>1, <3>3
    <3> QED
      BY <3>2, <3>3
  <2> QED
    BY <2>2, <2>3
<1>2. SUBSET S \subseteq Good
  <2> HIDE DEF Good
  <2> QED
    BY <1>1, SubsetsInSet
<1> QED
  BY <1>2
=============================================================================
