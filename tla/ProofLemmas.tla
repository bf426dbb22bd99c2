---------------------------- MODULE ProofLemmas -----------------------------
(***************************************************************************)
(* Lemmas the proofs share: induction over numbers and finite sets, what   *)
(* the library's folds and sums over a finite set compute, and the facts   *)
(* of ProofFacts.                                                          *)
(***************************************************************************)
EXTENDS ProofFacts, Functions, FiniteSetTheorems, TLAPS

(* A set of natural numbers that is not empty has a least one.             *)
LEMMA LeastExists ==
  ASSUME NEW S, S \subseteq Nat, S # {}
  PROVE  \E i \in S : \A j \in S : i <= j
<1> DEFINE R == OpToRel(<, Nat)
<1>1. \E i \in S : \A j \in S : ~(<<j, i>> \in R)
  <2>1. IsWellFoundedOn(R, Nat)
    BY NatLessThanWellFounded, Zenon
  <2> HIDE DEF R
  <2> QED
    BY Zenon, <2>1, WFMin
<1>2. ASSUME NEW i \in S, NEW j \in S, ~(<<j, i>> \in R)
      PROVE  i <= j
  BY <1>2 DEF OpToRel
<1> HIDE DEF R
<1> QED
  BY Zenon, <1>1, <1>2

(* Induction over the natural numbers, for a set of them.                  *)
LEMMA AllNaturals ==
  ASSUME NEW T, 0 \in T, \A n \in Nat : n \in T => n + 1 \in T
  PROVE  Nat \subseteq T
<1> SUFFICES ASSUME Nat \ T # {} PROVE FALSE
  BY Zenon
<1>1. PICK n \in Nat \ T : \A j \in Nat \ T : n <= j
  BY Zenon, LeastExists
<1>2. n # 0 /\ n - 1 \in Nat /\ n - 1 \notin Nat \ T
  BY <1>1
<1> QED
  BY <1>1, <1>2

(* Induction over the subsets of a finite set, for a set of them.          *)
LEMMA AllSubsets ==
  ASSUME NEW S, IsFiniteSet(S), NEW T,
         \A s \in SUBSET S : (\A x \in s : s \ {x} \in T) => s \in T
  PROVE  SUBSET S \subseteq T
<1> DEFINE Size(s) == Cardinality(s)
           Bad == {s \in SUBSET S : s \notin T}
           Sizes == {Size(s) : s \in Bad}
<1> SUFFICES ASSUME Bad # {} PROVE FALSE
  BY Zenon
<1>1. \A s \in SUBSET S : IsFiniteSet(s) /\ Cardinality(s) \in Nat
  BY Zenon, FS_Subset, FS_CardinalityType
<1>2. Sizes \subseteq Nat /\ Sizes # {}
  BY <1>1
<1>3. PICK s \in Bad : \A u \in Bad : Cardinality(s) <= Cardinality(u)
  <2> HIDE DEF Bad
  <2>1. PICK n \in Sizes : \A k \in Sizes : n <= k
    <3> HIDE DEF Sizes
    <3> QED
      BY Zenon, <1>2, LeastExists
  <2> QED
    BY Zenon, <2>1
<1>4. PICK x \in s : s \ {x} \notin T
  BY Zenon, <1>3
<1>5. Cardinality(s \ {x}) = Cardinality(s) - 1
  BY Zenon, <1>1, <1>4, FS_RemoveElement
<1> QED
  BY <1>1, <1>3, <1>4, <1>5

(* g is what folding step over a set in D makes of base, one element at a  *)
(* time; the sum of f is such a fold.                                      *)
Pick(s) == CHOOSE x \in s : TRUE
FoldsUp(g, step, base, D) ==
  g = [s \in D |-> IF s = {} THEN base ELSE step[Pick(s)][g[s \ {Pick(s)}]]]
SumsUp(g, f, D) ==
  g = [s \in D |-> IF s = {} THEN 0 ELSE f[Pick(s)] + g[s \ {Pick(s)}]]

(* The library's sum, without its operator arguments.                      *)
LEMMA SumIsChoice ==
  ASSUME NEW f, NEW S
  PROVE  SumFunctionOnSet(f, S) = (CHOOSE g : SumsUp(g, f, SUBSET S))[S]
  BY Zenon DEF SumFunctionOnSet, FoldFunctionOnSet, MapThenFoldSet, SumsUp, Pick

(* The element that is added next.                                         *)
LEMMA PickIn == ASSUME NEW s, s # {} PROVE Pick(s) \in s
  BY Zenon DEF Pick

(* Every fold exists: the folds over the sets of at most n elements do,    *)
(* for every n.                                                            *)
LEMMA FoldExists ==
  ASSUME NEW S, IsFiniteSet(S), NEW step, NEW base
  PROVE  \E g : FoldsUp(g, step, base, SUBSET S)
<1> DEFINE Stage(n) == {s \in SUBSET S : Cardinality(s) <= n}
           T == {n \in Nat : \E g : FoldsUp(g, step, base, Stage(n))}
<1>1. \A s \in SUBSET S : IsFiniteSet(s) /\ Cardinality(s) \in Nat /\ Cardinality(s) <= Cardinality(S)
  BY Zenon, FS_Subset, FS_CardinalityType
<1>2. \A s \in SUBSET S : s # {} => Cardinality(s \ {Pick(s)}) = Cardinality(s) - 1
  BY Zenon, <1>1, PickIn, FS_RemoveElement
<1>3. 0 \in T
  <2> DEFINE g == [s \in Stage(0) |-> base]
  <2>1. \A s \in Stage(0) : s = {}
    BY <1>1, FS_EmptySet
  <2>2. FoldsUp(g, step, base, Stage(0))
    BY Zenon, <2>1 DEF FoldsUp
  <2> QED
    BY Zenon, <2>2
<1>4. ASSUME NEW n \in Nat, n \in T PROVE n + 1 \in T
  <2>1. PICK g : FoldsUp(g, step, base, Stage(n))
    BY Zenon, <1>4
  <2> DEFINE D == Stage(n + 1)
             h == [s \in D |-> IF s = {} THEN base ELSE step[Pick(s)][g[s \ {Pick(s)}]]]
  <2>2. ASSUME NEW s \in D, s # {} PROVE h[s \ {Pick(s)}] = g[s \ {Pick(s)}]
    <3> DEFINE u == s \ {Pick(s)}
    <3>1. u \in Stage(n) /\ u \in D
      BY <1>1, <1>2, <2>2
    <3> HIDE DEF u, D
    <3>2. h[u] = IF u = {} THEN base ELSE step[Pick(u)][g[u \ {Pick(u)}]]
      BY Zenon, <3>1
    <3> HIDE DEF Stage
    <3>3. g[u] = IF u = {} THEN base ELSE step[Pick(u)][g[u \ {Pick(u)}]]
      BY Zenon, <2>1, <3>1 DEF FoldsUp
    <3> QED
      BY Zenon, <3>2, <3>3 DEF u
  <2>3. FoldsUp(h, step, base, D)
    <3> DEFINE now(s) == IF s = {} THEN base ELSE step[Pick(s)][g[s \ {Pick(s)}]]
               next(s) == IF s = {} THEN base ELSE step[Pick(s)][h[s \ {Pick(s)}]]
    <3>1. \A s \in D : now(s) = next(s)
      <4> HIDE DEF h, D
      <4> QED
        BY Zenon, <2>2
    <3>2. h = [s \in D |-> now(s)]
      BY Zenon
    <3> HIDE DEF D, h, now, next
    <3>3. h = [s \in D |-> next(s)]
      BY Zenon, <3>1, <3>2
    <3> QED
      BY Zenon, <3>3 DEF next, FoldsUp
  <2> HIDE DEF h
  <2>4. \E k : FoldsUp(k, step, base, Stage(n + 1))
    BY Zenon, <2>3
  <2>5. n + 1 \in Nat
    OBVIOUS
  <2> QED
    BY Zenon, <2>4, <2>5
<1>5. Cardinality(S) \in T
  <2> HIDE DEF T
  <2>1. Nat \subseteq T
    BY Zenon, <1>3, <1>4, AllNaturals
  <2> QED
    BY Zenon, <2>1, <1>1
<1>6. Stage(Cardinality(S)) = SUBSET S
  BY Zenon, <1>1
<1> QED
  BY Zenon, <1>5, <1>6

(* A fold has the type its steps keep.                                     *)
LEMMA FoldTyped ==
  ASSUME NEW S, IsFiniteSet(S), NEW V, NEW base \in V, NEW step \in [S -> [V -> V]],
         NEW g, FoldsUp(g, step, base, SUBSET S)
  PROVE  \A s \in SUBSET S : g[s] \in V
<1> DEFINE T == {s \in SUBSET S : g[s] \in V}
<1>1. ASSUME NEW s \in SUBSET S, \A x \in s : s \ {x} \in T PROVE s \in T
  <2>1. g[s] = IF s = {} THEN base ELSE step[Pick(s)][g[s \ {Pick(s)}]]
    BY Zenon DEF FoldsUp
  <2>2. CASE s # {}
    <3>1. Pick(s) \in s
      BY Zenon, <2>2, PickIn
    <3>2. Pick(s) \in S /\ g[s \ {Pick(s)}] \in V
      BY Zenon, <1>1, <3>1
    <3> QED
      BY ZenonT(60), <2>1, <2>2, <3>2
  <2> QED
    BY Zenon, <2>1, <2>2
<1> HIDE DEF T
<1>2. SUBSET S \subseteq T
  BY Zenon, <1>1, AllSubsets
<1> QED
  BY Zenon, <1>2 DEF T

(* The sum of natural numbers is one of these folds.                       *)
LEMMA SumExists ==
  ASSUME NEW S, IsFiniteSet(S), NEW f, \A x \in S : f[x] \in Nat
  PROVE  \E g : SumsUp(g, f, SUBSET S)
<1> DEFINE step == [x \in S |-> [n \in Nat |-> f[x] + n]]
<1>1. step \in [S -> [Nat -> Nat]] /\ \A x \in S, n \in Nat : step[x][n] = f[x] + n
  OBVIOUS
<1> HIDE DEF step
<1>2. PICK g : FoldsUp(g, step, 0, SUBSET S)
  BY Zenon, FoldExists
<1>3. \A s \in SUBSET S : g[s] \in Nat
  BY Zenon, <1>1, <1>2, FoldTyped
<1> DEFINE now(s) == IF s = {} THEN 0 ELSE step[Pick(s)][g[s \ {Pick(s)}]]
           next(s) == IF s = {} THEN 0 ELSE f[Pick(s)] + g[s \ {Pick(s)}]
<1>4. ASSUME NEW s \in SUBSET S PROVE now(s) = next(s)
  <2>1. CASE s # {}
    <3>1. Pick(s) \in S /\ g[s \ {Pick(s)}] \in Nat
      BY Zenon, <1>3, <2>1, PickIn
    <3> QED
      BY Zenon, <1>1, <2>1, <3>1
  <2> QED
    BY Zenon, <2>1
<1>5. g = [s \in SUBSET S |-> now(s)]
  BY Zenon, <1>2 DEF FoldsUp
<1> HIDE DEF now, next
<1>6. g = [s \in SUBSET S |-> next(s)]
  BY Zenon, <1>4, <1>5
<1> QED
  BY Zenon, <1>6 DEF next, SumsUp

(* Sums of functions that agree, over sets of any two families, agree.     *)
LEMMA SumUnique ==
  ASSUME NEW S, IsFiniteSet(S), NEW f, NEW g, NEW D, SUBSET S \subseteq D, SumsUp(g, f, D),
         NEW e, NEW h, NEW E, SUBSET S \subseteq E, SumsUp(h, e, E), \A x \in S : f[x] = e[x]
  PROVE  \A s \in SUBSET S : g[s] = h[s]
<1> DEFINE T == {s \in SUBSET S : g[s] = h[s]}
<1>1. ASSUME NEW s \in SUBSET S, \A x \in s : s \ {x} \in T PROVE s \in T
  <2>1. /\ g[s] = IF s = {} THEN 0 ELSE f[Pick(s)] + g[s \ {Pick(s)}]
        /\ h[s] = IF s = {} THEN 0 ELSE e[Pick(s)] + h[s \ {Pick(s)}]
    BY Zenon DEF SumsUp
  <2> QED
    BY Zenon, <1>1, <2>1, PickIn
<1> HIDE DEF T
<1>2. SUBSET S \subseteq T
  BY Zenon, <1>1, AllSubsets
<1> QED
  BY Zenon, <1>2 DEF T

(* What is summed up from natural numbers is one.                          *)
LEMMA SumTyped ==
  ASSUME NEW S, IsFiniteSet(S), NEW f, NEW g, SumsUp(g, f, SUBSET S), \A x \in S : f[x] \in Nat
  PROVE  \A s \in SUBSET S : g[s] \in Nat
<1> DEFINE T == {s \in SUBSET S : g[s] \in Nat}
<1>1. ASSUME NEW s \in SUBSET S, \A x \in s : s \ {x} \in T PROVE s \in T
  <2>1. g[s] = IF s = {} THEN 0 ELSE f[Pick(s)] + g[s \ {Pick(s)}]
    BY Zenon DEF SumsUp
  <2>2. CASE s # {}
    <3>1. Pick(s) \in s
      BY Zenon, <2>2, PickIn
    <3>2. f[Pick(s)] \in Nat /\ g[s \ {Pick(s)}] \in Nat
      BY Zenon, <1>1, <3>1
    <3> QED
      BY <2>1, <2>2, <3>2
  <2> QED
    BY <2>1, <2>2
<1> HIDE DEF T
<1>2. SUBSET S \subseteq T
  BY Zenon, <1>1, AllSubsets
<1> QED
  BY Zenon, <1>2 DEF T

(* The order in which elements are added does not matter.                  *)
LEMMA SumTakes ==
  ASSUME NEW S, IsFiniteSet(S), NEW f, NEW g, SumsUp(g, f, SUBSET S), \A x \in S : f[x] \in Nat
  PROVE  \A s \in SUBSET S : \A x \in s : g[s] = f[x] + g[s \ {x}]
<1> DEFINE T == {s \in SUBSET S : \A x \in s : g[s] = f[x] + g[s \ {x}]}
<1>t. \A s \in SUBSET S : g[s] \in Nat
  BY Zenon, SumTyped
<1>1. ASSUME NEW s \in SUBSET S, \A x \in s : s \ {x} \in T PROVE s \in T
  <2> SUFFICES ASSUME NEW x \in s PROVE g[s] = f[x] + g[s \ {x}]
    BY Zenon
  <2> DEFINE y == Pick(s)
             u == (s \ {x}) \ {y}
  <2>1. y \in s /\ g[s] = f[y] + g[s \ {y}]
    BY Zenon, PickIn DEF SumsUp
  <2> HIDE DEF y
  <2>2. CASE x # y
    <3>1. g[s \ {y}] = f[x] + g[u]
      <4>1. s \ {y} \in T /\ x \in s \ {y} /\ u = (s \ {y}) \ {x}
        BY Zenon, <1>1, <2>1, <2>2
      <4> QED
        BY Zenon, <4>1
    <3>2. g[s \ {x}] = f[y] + g[u]
      <4>1. s \ {x} \in T /\ y \in s \ {x}
        BY Zenon, <1>1, <2>1, <2>2
      <4> QED
        BY Zenon, <4>1
    <3>3. f[x] \in Nat /\ f[y] \in Nat /\ g[u] \in Nat
      BY Zenon, <2>1, <1>t
    <3> QED
      BY <2>1, <3>1, <3>2, <3>3
  <2> QED
    BY Zenon, <2>1, <2>2
<1> HIDE DEF T
<1>2. SUBSET S \subseteq T
  BY Zenon, <1>1, AllSubsets
<1> QED
  BY Zenon, <1>2 DEF T

(* The function the library's sum is taken from.                           *)
LEMMA SumFrom ==
  ASSUME NEW S, IsFiniteSet(S), NEW f, \A x \in S : f[x] \in Nat
  PROVE  \E g : SumsUp(g, f, SUBSET S) /\ SumFunctionOnSet(f, S) = g[S]
<1> DEFINE g == CHOOSE h : SumsUp(h, f, SUBSET S)
<1>1. SumsUp(g, f, SUBSET S)
  BY Zenon, SumExists
<1> HIDE DEF g
<1> QED
  BY Zenon, <1>1, SumIsChoice DEF g

(* A sum over no elements is 0.                                            *)
LEMMA SumEmpty == ASSUME NEW f PROVE SumFunctionOnSet(f, {}) = 0
<1>1. PICK g : SumsUp(g, f, SUBSET {}) /\ SumFunctionOnSet(f, {}) = g[{}]
  BY Zenon, SumFrom, FS_EmptySet
<1> QED
  BY Zenon, <1>1 DEF SumsUp

(* A sum of natural numbers is one.                                        *)
LEMMA SumNat ==
  ASSUME NEW S, IsFiniteSet(S), NEW f, \A x \in S : f[x] \in Nat
  PROVE  SumFunctionOnSet(f, S) \in Nat
<1>1. PICK g : SumsUp(g, f, SUBSET S) /\ SumFunctionOnSet(f, S) = g[S]
  BY Zenon, SumFrom
<1> QED
  BY Zenon, <1>1, SumTyped

(* A sum of zeros is 0.                                                    *)
LEMMA SumZero ==
  ASSUME NEW S, IsFiniteSet(S), NEW f, \A x \in S : f[x] = 0
  PROVE  SumFunctionOnSet(f, S) = 0
<1>t. \A x \in S : f[x] \in Nat
  OBVIOUS
<1>1. PICK g : SumsUp(g, f, SUBSET S) /\ SumFunctionOnSet(f, S) = g[S]
  BY Zenon, <1>t, SumFrom
<1> DEFINE T == {s \in SUBSET S : g[s] = 0}
<1>2. ASSUME NEW s \in SUBSET S, \A x \in s : s \ {x} \in T PROVE s \in T
  <2>1. g[s] = IF s = {} THEN 0 ELSE f[Pick(s)] + g[s \ {Pick(s)}]
    BY Zenon, <1>1 DEF SumsUp
  <2>2. CASE s # {}
    <3>1. Pick(s) \in s
      BY Zenon, <2>2, PickIn
    <3>2. f[Pick(s)] = 0 /\ g[s \ {Pick(s)}] = 0
      BY Zenon, <1>2, <3>1
    <3> QED
      BY <2>1, <2>2, <3>2
  <2> QED
    BY Zenon, <2>1, <2>2
<1> HIDE DEF T
<1>3. SUBSET S \subseteq T
  BY Zenon, <1>2, AllSubsets
<1> QED
  BY Zenon, <1>1, <1>3 DEF T

(* A sum depends only on the values in the set.                            *)
LEMMA SumSame ==
  ASSUME NEW S, IsFiniteSet(S), NEW f, NEW e, \A x \in S : f[x] = e[x] /\ f[x] \in Nat
  PROVE  SumFunctionOnSet(f, S) = SumFunctionOnSet(e, S)
<1>1. PICK g : SumsUp(g, f, SUBSET S) /\ SumFunctionOnSet(f, S) = g[S]
  BY Zenon, SumFrom
<1>2. PICK h : SumsUp(h, e, SUBSET S) /\ SumFunctionOnSet(e, S) = h[S]
  BY Zenon, SumFrom
<1>3. g[S] = h[S]
  BY <1>1, <1>2, SumUnique
<1> QED
  BY Zenon, <1>1, <1>2, <1>3

(* An element that is left out takes its value with it.                    *)
LEMMA SumRemove ==
  ASSUME NEW S, IsFiniteSet(S), NEW f, \A y \in S : f[y] \in Nat, NEW x \in S
  PROVE  SumFunctionOnSet(f, S) = f[x] + SumFunctionOnSet(f, S \ {x})
<1> DEFINE U == S \ {x}
<1>1. PICK g : SumsUp(g, f, SUBSET S) /\ SumFunctionOnSet(f, S) = g[S]
  BY Zenon, SumFrom
<1>2. g[S] = f[x] + g[S \ {x}]
  BY <1>1, SumTakes
<1>3. IsFiniteSet(U) /\ SUBSET U \subseteq SUBSET S
  BY Zenon, FS_RemoveElement
<1> HIDE DEF U
<1>4. PICK h : SumsUp(h, f, SUBSET U) /\ SumFunctionOnSet(f, U) = h[U]
  BY Zenon, <1>3, SumFrom
<1>5. g[U] = h[U]
  BY <1>1, <1>3, <1>4, SumUnique
<1> QED
  BY Zenon, <1>1, <1>2, <1>4, <1>5 DEF U

(* One more element adds its value.                                        *)
LEMMA SumAdd ==
  ASSUME NEW S, IsFiniteSet(S), NEW x, x \notin S, NEW f, \A y \in S \cup {x} : f[y] \in Nat
  PROVE  SumFunctionOnSet(f, S \cup {x}) = f[x] + SumFunctionOnSet(f, S)
<1> DEFINE U == S \cup {x}
<1>1. IsFiniteSet(U) /\ x \in U /\ U \ {x} = S /\ \A y \in U : f[y] \in Nat
  BY Zenon, FS_AddElement
<1> HIDE DEF U
<1>2. SumFunctionOnSet(f, U) = f[x] + SumFunctionOnSet(f, U \ {x})
  BY Zenon, <1>1, SumRemove
<1> QED
  BY Zenon, <1>1, <1>2 DEF U

(* A value that changes changes the sum by as much.                        *)
LEMMA SumChange ==
  ASSUME NEW S, IsFiniteSet(S), NEW f, NEW e, NEW x \in S,
         \A y \in S : f[y] \in Nat /\ e[y] \in Nat, \A y \in S \ {x} : f[y] = e[y]
  PROVE  SumFunctionOnSet(e, S) = SumFunctionOnSet(f, S) - f[x] + e[x]
<1> DEFINE U == S \ {x}
<1>1. IsFiniteSet(U) /\ \A y \in U : f[y] = e[y] /\ f[y] \in Nat
  BY Zenon, FS_RemoveElement
<1>2. /\ SumFunctionOnSet(f, S) = f[x] + SumFunctionOnSet(f, S \ {x})
      /\ SumFunctionOnSet(e, S) = e[x] + SumFunctionOnSet(e, S \ {x})
  BY Zenon, SumRemove
<1> HIDE DEF U
<1>3. SumFunctionOnSet(f, U) = SumFunctionOnSet(e, U) /\ SumFunctionOnSet(f, U) \in Nat
  BY Zenon, <1>1, SumSame, SumNat
<1> QED
  BY <1>2, <1>3 DEF U

(* The sum over two sets without a common element is the sum over each.    *)
LEMMA SumUnion ==
  ASSUME NEW S, IsFiniteSet(S), NEW U, IsFiniteSet(U), S \cap U = {},
         NEW f, \A x \in S \cup U : f[x] \in Nat
  PROVE  SumFunctionOnSet(f, S \cup U) = SumFunctionOnSet(f, S) + SumFunctionOnSet(f, U)
<1> DEFINE Good(u) == SumFunctionOnSet(f, S \cup u) = SumFunctionOnSet(f, S) + SumFunctionOnSet(f, u)
           T == {u \in SUBSET U : Good(u)}
<1>0. SumFunctionOnSet(f, S) \in Nat
  BY Zenon, SumNat
<1>1. ASSUME NEW u \in SUBSET U, \A x \in u : u \ {x} \in T PROVE u \in T
  <2>1. IsFiniteSet(u)
    BY Zenon, FS_Subset
  <2>2. CASE u = {}
    <3>1. S \cup u = S /\ SumFunctionOnSet(f, u) = 0
      BY Zenon, <2>2, SumEmpty
    <3> QED
      BY <1>0, <3>1
  <2>3. ASSUME NEW x \in u PROVE u \in T
    <3> DEFINE w == u \ {x}
               V == S \cup w
    <3>1. Good(w)
      BY Zenon, <1>1
    <3>2. IsFiniteSet(w) /\ x \notin w /\ u = w \cup {x}
      BY <2>1, <2>3, FS_RemoveElement
    <3>3. x \notin V /\ S \cup u = V \cup {x} /\ \A y \in V \cup {x} : f[y] \in Nat
      BY Zenon, <2>3
    <3>4. \A y \in w \cup {x} : f[y] \in Nat
      BY Zenon, <2>3
    <3> HIDE DEF w
    <3>5. IsFiniteSet(V)
      BY Zenon, <3>2, FS_Union
    <3>6. SumFunctionOnSet(f, w \cup {x}) = f[x] + SumFunctionOnSet(f, w)
      BY Zenon, <3>2, <3>4, SumAdd
    <3>7. SumFunctionOnSet(f, w) \in Nat /\ f[x] \in Nat
      BY Zenon, <3>2, <3>4, SumNat
    <3>8. SumFunctionOnSet(f, V) = SumFunctionOnSet(f, S) + SumFunctionOnSet(f, w)
      BY Zenon, <3>1
    <3> HIDE DEF V
    <3>9. SumFunctionOnSet(f, V \cup {x}) = f[x] + SumFunctionOnSet(f, V)
      BY Zenon, <3>3, <3>5, SumAdd
    <3>10. SumFunctionOnSet(f, V \cup {x}) = SumFunctionOnSet(f, S) + SumFunctionOnSet(f, w \cup {x})
      BY SMTT(60), <1>0, <3>6, <3>7, <3>8, <3>9
    <3>11. Good(u)
      BY Zenon, <3>2, <3>3, <3>10
    <3> QED
      BY Zenon, <3>11
  <2> QED
    BY Zenon, <2>2, <2>3
<1> HIDE DEF T
<1>2. SUBSET U \subseteq T
  BY Zenon, <1>1, AllSubsets
<1> QED
  BY Zenon, <1>2 DEF T

(* S falls into the parts of K, and e is the sum of f over each.           *)
SumsOfParts(e, f, S, part, K) ==
  /\ IsFiniteSet(K)
  /\ S = UNION {part[k] : k \in K}
  /\ \A k, j \in K : k # j => part[k] \cap part[j] = {}
  /\ \A k \in K : /\ IsFiniteSet(part[k]) /\ e[k] = SumFunctionOnSet(f, part[k])
                  /\ \A x \in part[k] : f[x] \in Nat

(* A sum may be taken part by part.                                        *)
LEMMA SumParts ==
  ASSUME NEW e, NEW f, NEW S, NEW part, NEW K, SumsOfParts(e, f, S, part, K)
  PROVE  SumFunctionOnSet(f, S) = SumFunctionOnSet(e, K)
<1> USE DEF SumsOfParts
<1> DEFINE All(s) == UNION {part[k] : k \in s}
           Good(s) == IsFiniteSet(All(s)) /\ SumFunctionOnSet(f, All(s)) = SumFunctionOnSet(e, s)
           T == {s \in SUBSET K : Good(s)}
<1>0. \A k \in K : e[k] \in Nat
  BY SumNat
<1>1. ASSUME NEW s \in SUBSET K, \A x \in s : s \ {x} \in T PROVE s \in T
  <2>1. IsFiniteSet(s)
    BY Zenon, FS_Subset
  <2>2. CASE s = {}
    <3>1. All(s) = {}
      BY Zenon, <2>2
    <3>2. IsFiniteSet(All(s)) /\ SumFunctionOnSet(f, All(s)) = 0 /\ SumFunctionOnSet(e, s) = 0
      BY Zenon, <2>2, <3>1, SumEmpty, FS_EmptySet
    <3> QED
      BY Zenon, <3>2
  <2>3. ASSUME NEW k \in s PROVE s \in T
    <3> DEFINE u == s \ {k}
               A == All(u)
               P == part[k]
    <3>1. IsFiniteSet(A) /\ SumFunctionOnSet(f, A) = SumFunctionOnSet(e, u)
      BY Zenon, <1>1
    <3>2. All(s) = A \cup P /\ A \cap P = {}
      BY ZenonT(60)
    <3>3. IsFiniteSet(P) /\ \A x \in A \cup P : f[x] \in Nat
      BY Zenon
    <3>4. SumFunctionOnSet(e, s) = e[k] + SumFunctionOnSet(e, u)
      BY ZenonT(60), <1>0, <2>1, SumRemove
    <3>5. e[k] = SumFunctionOnSet(f, P)
      BY Zenon
    <3>t. e[k] \in Nat
      BY Zenon, <1>0
    <3> HIDE DEF A, P
    <3>6. SumFunctionOnSet(f, A \cup P) = SumFunctionOnSet(f, A) + SumFunctionOnSet(f, P)
      BY SMTT(60), <3>1, <3>2, <3>3, SumUnion
    <3>7. SumFunctionOnSet(f, A) \in Nat
      BY Zenon, <3>1, <3>3, SumNat
    <3>8. IsFiniteSet(A \cup P)
      BY Zenon, <3>1, <3>3, FS_Union
    <3> HIDE DEF u
    <3>9. SumFunctionOnSet(f, A \cup P) = SumFunctionOnSet(e, s)
      BY SMTT(60), <3>1, <3>4, <3>5, <3>6, <3>7, <3>t
    <3>10. Good(s)
      BY Zenon, <3>2, <3>8, <3>9
    <3> QED
      BY Zenon, <3>10
  <2> QED
    BY Zenon, <2>2, <2>3
<1> HIDE DEF T
<1>2. SUBSET K \subseteq T
  BY Zenon, <1>1, AllSubsets
<1>3. K \in T
  BY Zenon, <1>2
<1> QED
  BY Zenon, <1>3 DEF T

(* Only the values that are not 0 count.                                   *)
LEMMA SumSupport ==
  ASSUME NEW S, IsFiniteSet(S), NEW U \in SUBSET S, NEW f, \A x \in S : f[x] \in Nat,
         \A x \in S \ U : f[x] = 0
  PROVE  SumFunctionOnSet(f, S) = SumFunctionOnSet(f, U)
<1> DEFINE Z == S \ U
<1>1. IsFiniteSet(U) /\ IsFiniteSet(Z)
  BY Zenon, FS_Subset
<1>2. S = U \cup Z /\ U \cap Z = {} /\ \A x \in U \cup Z : f[x] \in Nat
  BY Zenon
<1>3. \A x \in Z : f[x] = 0
  BY Zenon
<1> HIDE DEF Z
<1>4. SumFunctionOnSet(f, Z) = 0
  BY Zenon, <1>1, <1>3, SumZero
<1>5. SumFunctionOnSet(f, U \cup Z) = SumFunctionOnSet(f, U) + SumFunctionOnSet(f, Z)
  BY Zenon, <1>1, <1>2, SumUnion
<1>6. SumFunctionOnSet(f, U) \in Nat
  BY Zenon, <1>1, <1>2, SumNat
<1> QED
  BY SMTT(60), <1>2, <1>4, <1>5, <1>6

-----------------------------------------------------------------------------
(* How a connection stays framed, and how finite sets are counted.         *)

(* A header may follow a whole request.                                    *)
LEMMA FramedHeader ==
  ASSUME NEW S, NEW w \in Seq(PartsOf(S)), Framed(w), Len(w) % 2 = 0, NEW c \in S
  PROVE  \E v \in Seq(PartsOf(S)) : /\ v = Append(w, <<"header", c>>)
                               /\ Framed(v) /\ Len(v) % 2 = 1 /\ v[Len(v)][2] = c
<1> DEFINE p == <<"header", c>>
           v == Append(w, p)
<1>1. p \in PartsOf(S) /\ p[1] = "header" /\ p[2] = c
  BY Zenon DEF PartsOf
<1> HIDE DEF p
<1>2. /\ v \in Seq(PartsOf(S)) /\ Len(v) = Len(w) + 1 /\ v[Len(w) + 1] = p
      /\ \A i \in 1..Len(w) : v[i] = w[i]
  BY <1>1
<1>3. Len(w) \in Nat /\ (Len(w) + 1) % 2 = 1
  OBVIOUS
<1>5. v = Append(w, <<"header", c>>)
  BY Zenon DEF p
<1> HIDE DEF v
<1>4. Framed(v)
  <2> SUFFICES ASSUME NEW i \in 1..Len(v)
               PROVE  /\ v[i][1] = "header" <=> i % 2 = 1
                      /\ i % 2 = 0 => v[i][2] = v[i - 1][2]
    BY Zenon DEF Framed
  <2>1. CASE i \in 1..Len(w)
    <3>1. i % 2 = 0 => i - 1 \in 1..Len(w)
      BY <1>3, <2>1
    <3> QED
      BY SMTT(30), <1>2, <2>1, <3>1 DEF Framed
  <2>2. CASE i = Len(w) + 1
    BY SMTT(30), <1>1, <1>2, <1>3, <2>2
  <2> QED
    BY SMTT(60), <1>2, <1>3, <2>1, <2>2
<1>6. Len(v) % 2 = 1 /\ v[Len(v)][2] = c
  BY Zenon, <1>1, <1>2, <1>3
<1> QED
  BY Zenon, <1>2, <1>4, <1>5, <1>6

(* A body may follow its header.                                           *)
LEMMA FramedBody ==
  ASSUME NEW S, NEW w \in Seq(PartsOf(S)), Framed(w), Len(w) % 2 = 1, NEW c \in S, w[Len(w)][2] = c
  PROVE  \E v \in Seq(PartsOf(S)) : /\ v = Append(w, <<"body", c>>)
                               /\ Framed(v) /\ Len(v) % 2 = 0
<1> DEFINE p == <<"body", c>>
           v == Append(w, p)
<1>1. p \in PartsOf(S) /\ p[1] = "body" /\ p[2] = c
  BY Zenon DEF PartsOf
<1> HIDE DEF p
<1>2. /\ v \in Seq(PartsOf(S)) /\ Len(v) = Len(w) + 1 /\ v[Len(w) + 1] = p
      /\ \A i \in 1..Len(w) : v[i] = w[i]
  BY <1>1
<1>3. Len(w) \in Nat /\ (Len(w) + 1) % 2 = 0 /\ Len(w) \in 1..Len(w)
  OBVIOUS
<1>4. v = Append(w, <<"body", c>>)
  BY Zenon DEF p
<1> HIDE DEF v
<1>5. ASSUME NEW i \in 1..Len(v)
      PROVE  /\ v[i][1] = "header" <=> i % 2 = 1
             /\ i % 2 = 0 => v[i][2] = v[i - 1][2]
  <2>1. CASE i \in 1..Len(w)
    <3>1. i % 2 = 0 => i - 1 \in 1..Len(w)
      BY SMTT(60), <1>3, <2>1
    <3> QED
      BY SMTT(60), <1>2, <2>1, <3>1 DEF Framed
  <2>2. CASE i = Len(w) + 1
    <3>1. i - 1 = Len(w) /\ i % 2 = 0
      BY <1>3, <2>2
    <3> QED
      BY <1>1, <1>2, <1>3, <2>2, <3>1
  <2> QED
    BY SMTT(60), <1>2, <1>3, <2>1, <2>2
<1>6. Framed(v)
  BY Zenon, <1>5 DEF Framed
<1>7. Len(v) % 2 = 0
  BY Zenon, <1>2, <1>3
<1> QED
  BY Zenon, <1>2, <1>4, <1>6, <1>7

(* Parts written in order keep a connection framed.                        *)
LEMMA FramesGrowAlways == ASSUME NEW S PROVE FramesGrow(S)
<1> SUFFICES ASSUME NEW w \in Seq(PartsOf(S)), NEW c \in S, Framed(w)
             PROVE  /\ Len(w) % 2 = 0 =>
                         \E v \in Seq(PartsOf(S)) : /\ v = Append(w, <<"header", c>>) /\ Framed(v)
                                                    /\ Len(v) % 2 = 1 /\ v[Len(v)][2] = c
                    /\ Len(w) % 2 = 1 /\ w[Len(w)][2] = c =>
                         \E v \in Seq(PartsOf(S)) : /\ v = Append(w, <<"body", c>>) /\ Framed(v)
                                                    /\ Len(v) % 2 = 0
  BY Zenon DEF FramesGrow
<1> QED
  BY ZenonT(60), FramedHeader, FramedBody

(* Finite sets are counted, one element at a time.                         *)
LEMMA SetsAreCountedAlways == SetsAreCounted
<1>1. CountsAreNatural
  BY Zenon, FS_CardinalityType DEF CountsAreNatural
<1>2. CountsGrow
  BY Zenon, FS_AddElement DEF CountsGrow
<1>3. SubsetsAreFinite
  BY Zenon, FS_Subset DEF SubsetsAreFinite
<1>4. IntervalsAreFinite
  BY Zenon, FS_Interval DEF IntervalsAreFinite
<1> QED
  BY Zenon, <1>1, <1>2, <1>3, <1>4 DEF SetsAreCounted

=============================================================================
