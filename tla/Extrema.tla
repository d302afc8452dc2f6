------------------------------ MODULE Extrema ------------------------------
(***************************************************************************)
(* Least and greatest numbers of a set, which the models take by Max and   *)
(* Min of the community module, and sums over one, which they take by its  *)
(* folds.  That a least number exists is where induction is needed; it is  *)
(* had here from well-foundedness, as a least counterexample.              *)
(***************************************************************************)
EXTENDS Integers, FiniteSets, FiniteSetsExt, FiniteSetTheorems, WellFoundedInduction, TLAPS

(* A set of naturals that is not empty has a least member.                 *)
LEMMA LeastNatural ==
  ASSUME NEW T \in SUBSET Nat, T # {}
  PROVE  \E n \in T : \A m \in T : n <= m
<1> DEFINE Less == {p \in Nat \X Nat : p[1] < p[2]}
<1>1. IsWellFoundedOn(Less, Nat)
  BY NatLessThanWellFounded DEF OpToRel
<1>2. PICK n \in T : \A m \in T : ~(<<m, n>> \in Less)
  <2> HIDE DEF Less
  <2> QED BY <1>1, WFMin
<1>3. ASSUME NEW m \in T PROVE n <= m
  <2>1. m \in Nat /\ n \in Nat /\ ~(<<m, n>> \in Less)
    BY <1>2
  <2>2. ~(m < n)
    BY <2>1
  <2> QED BY <2>1, <2>2
<1> QED BY <1>3

(* And one that is bounded has a greatest.                                 *)
LEMMA GreatestBelow ==
  ASSUME NEW S \in SUBSET Int, S # {}, NEW b \in Int, \A x \in S : x <= b
  PROVE  \E x \in S : \A y \in S : x >= y
<1> DEFINE T == {n \in Nat : b - n \in S}
<1>1. T # {}
  <2>1. PICK x \in S : TRUE
    OBVIOUS
  <2>2. b - x \in Nat /\ b - (b - x) = x
    BY <2>1
  <2> QED BY <2>1, <2>2
<1>2. PICK n \in T : \A m \in T : n <= m
  BY <1>1, LeastNatural
<1>3. ASSUME NEW y \in S PROVE b - n >= y
  <2>1. b - y \in Nat /\ b - (b - y) = y
    OBVIOUS
  <2>2. n <= b - y
    BY <2>1, <1>2
  <2> QED BY <2>1, <2>2
<1> QED BY <1>2, <1>3

(* A finite set of integers that is not empty has a greatest member: a set *)
(* without one, minimal among such sets, would have one without a member x *)
(* of it, and the greater of that and x would be its greatest.             *)
LEMMA GreatestOfFinite ==
  ASSUME NEW S \in SUBSET Int, IsFiniteSet(S), S # {}
  PROVE  \E x \in S : \A y \in S : x >= y
<1> DEFINE HasGreatest(U) == \E x \in U : \A y \in U : x >= y
           Bad == {U \in SUBSET S : U # {} /\ ~HasGreatest(U)}
<1>1. SUFFICES ASSUME Bad # {} PROVE FALSE
  OBVIOUS
<1>2. Bad \subseteq FiniteSubsetsOf(S)
  BY FS_Subset DEF FiniteSubsetsOf
<1>3. PICK U \in Bad : \A V \in Bad : ~(<<V, U>> \in StrictSubsetOrdering(S))
  <2> HIDE DEF Bad
  <2> QED BY <1>1, <1>2, FS_StrictSubsetOrderingWellFounded, WFMin
<1>4. PICK x \in U : TRUE
  OBVIOUS
<1> DEFINE V == U \ {x}
<1>5. V \notin Bad
  <2>1. V \in SUBSET S /\ U \in SUBSET S /\ V # U /\ V \subseteq U
    BY <1>4
  <2>2. <<V, U>> \in StrictSubsetOrdering(S)
    BY <2>1 DEF StrictSubsetOrdering
  <2> QED BY <2>2, <1>3
<1>6. CASE V = {}
  <2>1. \A y \in U : y = x
    BY <1>6
  <2>2. HasGreatest(U)
    BY <1>4, <2>1
  <2> QED BY <2>2
<1>7. CASE V # {}
  <2>1. PICK z \in V : \A y \in V : z >= y
    BY <1>5, <1>7
  <2>2. CASE z >= x
    BY <2>1, <2>2
  <2>3. CASE x > z
    <3>1. \A y \in U : x >= y
      BY <2>1, <2>3
    <3> QED BY <3>1, <1>4
  <2> QED BY <2>1, <2>2, <2>3, <1>4
<1> QED BY <1>6, <1>7

LEMMA MaxOfFinite ==
  ASSUME NEW S \in SUBSET Int, IsFiniteSet(S), S # {}
  PROVE  Max(S) \in S /\ \A y \in S : Max(S) >= y
BY GreatestOfFinite DEF Max

LEMMA MaxOfBounded ==
  ASSUME NEW S \in SUBSET Int, S # {}, NEW b \in Int, \A x \in S : x <= b
  PROVE  Max(S) \in S /\ \A y \in S : Max(S) >= y
BY GreatestBelow DEF Max

LEMMA MinOfNaturals ==
  ASSUME NEW S \in SUBSET Nat, S # {}
  PROVE  Min(S) \in S /\ \A y \in S : Min(S) <= y
BY LeastNatural DEF Min

LEMMA MaxOfTwo ==
  ASSUME NEW a \in Int, NEW b \in Int
  PROVE  Max({a, b}) = IF a >= b THEN a ELSE b
<1>1. \E x \in {a, b} : \A y \in {a, b} : x >= y
  OBVIOUS
<1>2. Max({a, b}) \in {a, b} /\ \A y \in {a, b} : Max({a, b}) >= y
  BY <1>1 DEF Max
<1> QED BY <1>2

-----------------------------------------------------------------------------
(* Sums over a finite set, as the folds of the community modules take them: *)
(* an arbitrary member first.  The recursive function exists, and what it   *)
(* returns depends neither on the set it is declared on nor on the order.   *)
AnyOf(s) == CHOOSE x \in s : TRUE
Adding(f, w, s) == IF s = {} THEN 0 ELSE w[AnyOf(s)] + f[s \ {AnyOf(s)}]
SumsUp(f, w, S) == f = [s \in SUBSET S |-> Adding(f, w, s)]
Total(w, S) == (CHOOSE f : SumsUp(f, w, S))[S]

LEMMA AnyIsOne ==
  ASSUME NEW s, s # {}, IsFiniteSet(s)
  PROVE  /\ AnyOf(s) \in s /\ IsFiniteSet(s \ {AnyOf(s)}) /\ Cardinality(s) \in Nat
         /\ Cardinality(s \ {AnyOf(s)}) \in Nat /\ Cardinality(s \ {AnyOf(s)}) < Cardinality(s)
<1>1. AnyOf(s) \in s
  BY DEF AnyOf
<1>2. IsFiniteSet(s \ {AnyOf(s)}) /\ Cardinality(s \ {AnyOf(s)}) = Cardinality(s) - 1
  BY <1>1, FS_RemoveElement
<1>3. Cardinality(s) \in Nat /\ Cardinality(s \ {AnyOf(s)}) \in Nat
  BY <1>2, FS_CardinalityType
<1> QED BY <1>1, <1>2, <1>3

LEMMA SumsExist ==
  ASSUME NEW w, NEW S, IsFiniteSet(S)
  PROVE  \E f : SumsUp(f, w, S)
<1> DEFINE Fine(n) == \E g : \A s \in SUBSET S : Cardinality(s) <= n => g[s] = Adding(g, w, s)
           Bad == {n \in Nat : ~Fine(n)}
<1>0. \A s \in SUBSET S : IsFiniteSet(s) /\ Cardinality(s) \in Nat /\ Cardinality(s) <= Cardinality(S)
  BY FS_Subset, FS_CardinalityType
<1>1. ASSUME NEW n \in Nat, NEW g, \A s \in SUBSET S : Cardinality(s) < n => g[s] = Adding(g, w, s)
      PROVE  LET h == [s \in SUBSET S |-> Adding(g, w, s)]
             IN  \A s \in SUBSET S : Cardinality(s) <= n => h[s] = Adding(h, w, s)
  <2> DEFINE h == [s \in SUBSET S |-> Adding(g, w, s)]
  <2>1. \A s \in SUBSET S : h[s] = Adding(g, w, s)
    OBVIOUS
  <2> HIDE DEF h
  <2>2. ASSUME NEW s \in SUBSET S, Cardinality(s) <= n
        PROVE  h[s] = Adding(h, w, s)
    <3>1. CASE s = {}
      BY <2>1, <3>1 DEF Adding
    <3>2. CASE s # {}
      <4> DEFINE r == s \ {AnyOf(s)}
      <4>1. r \in SUBSET S /\ Cardinality(r) < Cardinality(s) /\ Cardinality(r) \in Nat /\ Cardinality(s) \in Nat
        BY <1>0, <3>2, AnyIsOne
      <4>2. Cardinality(r) < n
        BY <2>2, <4>1
      <4>3. h[r] = g[r]
        BY <1>1, <2>1, <4>1, <4>2
      <4>4. Adding(h, w, s) = Adding(g, w, s)
        BY <3>2, <4>3 DEF Adding
      <4> QED BY <2>1, <4>4
    <3> QED BY <3>1, <3>2
  <2> QED BY <2>2 DEF h
<1>2. Bad = {}
  <2> SUFFICES ASSUME Bad # {} PROVE FALSE
    OBVIOUS
  <2>1. PICK n \in Bad : \A m \in Bad : n <= m
    <3> HIDE DEF Fine
    <3>1. Bad \in SUBSET Nat
      OBVIOUS
    <3> QED BY <3>1, LeastNatural
  <2>2. PICK g : \A s \in SUBSET S : Cardinality(s) < n => g[s] = Adding(g, w, s)
    <3>1. CASE n = 0
      <4>1. \A s \in SUBSET S : ~(Cardinality(s) < n)
        BY <1>0, <3>1
      <4> QED BY <4>1
    <3>2. CASE n # 0
      <4>1. n - 1 \in Nat /\ Fine(n - 1)
        <5> HIDE DEF Fine
        <5> QED BY <2>1, <3>2
      <4>2. PICK g : \A s \in SUBSET S : Cardinality(s) <= n - 1 => g[s] = Adding(g, w, s)
        BY <4>1
      <4>3. \A s \in SUBSET S : Cardinality(s) < n => Cardinality(s) <= n - 1
        BY <1>0, <4>1
      <4> QED BY <4>2, <4>3
    <3> QED BY <3>1, <3>2
  <2> DEFINE h == [s \in SUBSET S |-> Adding(g, w, s)]
  <2>3. \A s \in SUBSET S : Cardinality(s) <= n => h[s] = Adding(h, w, s)
    <3>1. n \in Nat
      <4> HIDE DEF Fine
      <4> QED BY <2>1
    <3> QED BY <3>1, <2>2, <1>1
  <2>4. Fine(n)
    <3> HIDE DEF h
    <3> QED BY <2>3
  <2> QED BY <2>1, <2>4
<1>3. PICK g : \A s \in SUBSET S : Cardinality(s) <= Cardinality(S) => g[s] = Adding(g, w, s)
  <2>1. Cardinality(S) \in Nat
    BY FS_CardinalityType
  <2>2. Fine(Cardinality(S))
    <3> HIDE DEF Fine
    <3> QED BY <1>2, <2>1
  <2> QED BY <2>2
<1> DEFINE f == [s \in SUBSET S |-> g[s]]
<1>4. \A s \in SUBSET S : f[s] = g[s] /\ g[s] = Adding(g, w, s)
  BY <1>0, <1>3
<1>5. f = [s \in SUBSET S |-> f[s]]
  OBVIOUS
<1> HIDE DEF f
<1>6. \A s \in SUBSET S : f[s] = Adding(f, w, s)
  <2> SUFFICES ASSUME NEW s \in SUBSET S PROVE f[s] = Adding(f, w, s)
    OBVIOUS
  <2>1. s \ {AnyOf(s)} \in SUBSET S
    OBVIOUS
  <2> QED BY <2>1, <1>4 DEF Adding
<1>7. SumsUp(f, w, S)
  BY <1>5, <1>6 DEF SumsUp
<1> QED BY <1>7

LEMMA SumsAgree ==
  ASSUME NEW w, NEW v, NEW S, NEW T, NEW f, NEW g, SumsUp(f, w, S), SumsUp(g, v, T),
         NEW U, U \subseteq S, U \subseteq T, IsFiniteSet(U), \A x \in U : w[x] = v[x]
  PROVE  f[U] = g[U]
<1> DEFINE Bad == {n \in Nat : \E s \in SUBSET U : Cardinality(s) = n /\ f[s] # g[s]}
<1>0. /\ \A s \in SUBSET S : f[s] = Adding(f, w, s)
      /\ \A s \in SUBSET T : g[s] = Adding(g, v, s)
  BY DEF SumsUp
<1>1. \A s \in SUBSET U : IsFiniteSet(s) /\ Cardinality(s) \in Nat
  BY FS_Subset, FS_CardinalityType
<1>2. Bad = {}
  <2> SUFFICES ASSUME Bad # {} PROVE FALSE
    OBVIOUS
  <2>1. PICK n \in Bad : \A m \in Bad : n <= m
    <3>1. Bad \in SUBSET Nat
      OBVIOUS
    <3> HIDE DEF Bad
    <3> QED BY <3>1, LeastNatural
  <2>2. PICK s \in SUBSET U : Cardinality(s) = n /\ f[s] # g[s]
    BY <2>1
  <2>3. s \in SUBSET S /\ s \in SUBSET T
    BY <2>2
  <2>4. f[s] = Adding(f, w, s) /\ g[s] = Adding(g, v, s)
    BY <1>0, <2>3
  <2>5. s # {}
    BY <2>2, <2>4 DEF Adding
  <2> DEFINE r == s \ {AnyOf(s)}
  <2>6. AnyOf(s) \in U /\ r \in SUBSET U /\ Cardinality(r) < n /\ Cardinality(r) \in Nat
    BY <1>1, <2>2, <2>5, AnyIsOne
  <2>7. f[r] = g[r]
    <3> SUFFICES ASSUME f[r] # g[r] PROVE FALSE
      OBVIOUS
    <3>1. Cardinality(r) \in Bad
      BY <2>6
    <3>2. n \in Nat
      BY <2>1
    <3> HIDE DEF Bad, r
    <3> QED BY <2>1, <2>6, <3>1, <3>2
  <2>8. w[AnyOf(s)] = v[AnyOf(s)]
    BY <2>6
  <2>9. Adding(f, w, s) = Adding(g, v, s)
    BY <2>5, <2>7, <2>8 DEF Adding
  <2> QED BY <2>2, <2>4, <2>9
<1>3. U \in SUBSET U
  OBVIOUS
<1> QED BY <1>1, <1>2, <1>3

LEMMA TotalIs ==
  ASSUME NEW w, NEW S, IsFiniteSet(S), NEW f, SumsUp(f, w, S)
  PROVE  Total(w, S) = f[S]
<1> DEFINE g == CHOOSE h : SumsUp(h, w, S)
<1>1. SumsUp(g, w, S)
  BY SumsExist
<1> HIDE DEF g
<1>2. g[S] = f[S]
  BY <1>1, SumsAgree
<1> QED BY <1>2 DEF Total, g

LEMMA TotalFrom ==
  ASSUME NEW w, NEW S, IsFiniteSet(S)
  PROVE  Total(w, S) = IF S = {} THEN 0 ELSE w[AnyOf(S)] + Total(w, S \ {AnyOf(S)})
<1>1. PICK f : SumsUp(f, w, S)
  BY SumsExist
<1>2. Total(w, S) = f[S] /\ f[S] = Adding(f, w, S)
  <2>1. Total(w, S) = f[S]
    BY <1>1, TotalIs
  <2> QED BY <1>1, <2>1 DEF SumsUp
<1>3. CASE S = {}
  BY <1>2, <1>3 DEF Adding
<1>4. CASE S # {}
  <2> DEFINE r == S \ {AnyOf(S)}
  <2>1. IsFiniteSet(r) /\ r \subseteq S
    BY <1>4, AnyIsOne
  <2>2. PICK g : SumsUp(g, w, r)
    BY <2>1, SumsExist
  <2>3. Total(w, r) = g[r]
    BY <2>1, <2>2, TotalIs
  <2>4. f[r] = g[r]
    <3>1. r \subseteq r
      OBVIOUS
    <3> HIDE DEF r
    <3> QED BY <1>1, <2>1, <2>2, <3>1, SumsAgree
  <2> QED BY <1>2, <1>4, <2>3, <2>4 DEF Adding
<1> QED BY <1>3, <1>4

LEMMA TotalOfNone == ASSUME NEW w PROVE Total(w, {}) = 0
  BY TotalFrom, FS_EmptySet

LEMMA TotalOfSame ==
  ASSUME NEW w, NEW v, NEW S, IsFiniteSet(S), \A x \in S : w[x] = v[x]
  PROVE  Total(w, S) = Total(v, S)
<1>1. PICK f : SumsUp(f, w, S)
  BY SumsExist
<1>2. PICK g : SumsUp(g, v, S)
  BY SumsExist
<1>3. f[S] = g[S]
  <2>1. S \subseteq S
    OBVIOUS
  <2> QED BY <1>1, <1>2, <2>1, SumsAgree
<1>4. Total(w, S) = f[S]
  BY <1>1, TotalIs
<1>5. Total(v, S) = g[S]
  BY <1>2, TotalIs
<1> QED BY <1>3, <1>4, <1>5

\* What holds of the empty set, and of a set if of every smaller one.
LEMMA TotalIsNumber ==
  ASSUME NEW w, NEW S, IsFiniteSet(S), \A x \in S : w[x] \in Int
  PROVE  Total(w, S) \in Int
<1> DEFINE Bad == {n \in Nat : \E s \in SUBSET S : Cardinality(s) = n /\ Total(w, s) \notin Int}
<1>1. \A s \in SUBSET S : IsFiniteSet(s) /\ Cardinality(s) \in Nat
  BY FS_Subset, FS_CardinalityType
<1>2. Bad = {}
  <2> SUFFICES ASSUME Bad # {} PROVE FALSE
    OBVIOUS
  <2>1. PICK n \in Bad : \A m \in Bad : n <= m
    <3>1. Bad \in SUBSET Nat
      OBVIOUS
    <3> HIDE DEF Bad
    <3> QED BY <3>1, LeastNatural
  <2>2. PICK s \in SUBSET S : Cardinality(s) = n /\ Total(w, s) \notin Int
    BY <2>1
  <2>3. s # {}
    BY <2>2, TotalOfNone
  <2> DEFINE r == s \ {AnyOf(s)}
  <2>4. AnyOf(s) \in S /\ r \in SUBSET S /\ Cardinality(r) < n /\ Cardinality(r) \in Nat /\ n \in Nat
    BY <1>1, <2>2, <2>3, AnyIsOne
  <2>5. Total(w, r) \in Int
    <3> SUFFICES ASSUME Total(w, r) \notin Int PROVE FALSE
      OBVIOUS
    <3>1. Cardinality(r) \in Bad
      BY <2>4
    <3> HIDE DEF Bad, r
    <3> QED BY <2>1, <2>4, <3>1
  <2>6. Total(w, s) = w[AnyOf(s)] + Total(w, r)
    BY <1>1, <2>2, <2>3, TotalFrom
  <2>7. w[AnyOf(s)] \in Int
    BY <2>4
  <2> QED BY <2>2, <2>5, <2>6, <2>7
<1>3. S \in SUBSET S
  OBVIOUS
<1> QED BY <1>1, <1>2, <1>3

LEMMA TotalIsNatural ==
  ASSUME NEW w, NEW S, IsFiniteSet(S), \A x \in S : w[x] \in Nat
  PROVE  Total(w, S) \in Nat
<1> DEFINE Bad == {n \in Nat : \E s \in SUBSET S : Cardinality(s) = n /\ Total(w, s) \notin Nat}
<1>1. \A s \in SUBSET S : IsFiniteSet(s) /\ Cardinality(s) \in Nat
  BY FS_Subset, FS_CardinalityType
<1>2. Bad = {}
  <2> SUFFICES ASSUME Bad # {} PROVE FALSE
    OBVIOUS
  <2>1. PICK n \in Bad : \A m \in Bad : n <= m
    <3>1. Bad \in SUBSET Nat
      OBVIOUS
    <3> HIDE DEF Bad
    <3> QED BY <3>1, LeastNatural
  <2>2. PICK s \in SUBSET S : Cardinality(s) = n /\ Total(w, s) \notin Nat
    BY <2>1
  <2>3. s # {}
    BY <2>2, TotalOfNone
  <2> DEFINE r == s \ {AnyOf(s)}
  <2>4. AnyOf(s) \in S /\ r \in SUBSET S /\ Cardinality(r) < n /\ Cardinality(r) \in Nat /\ n \in Nat
    BY <1>1, <2>2, <2>3, AnyIsOne
  <2>5. Total(w, r) \in Nat
    <3> SUFFICES ASSUME Total(w, r) \notin Nat PROVE FALSE
      OBVIOUS
    <3>1. Cardinality(r) \in Bad
      BY <2>4
    <3> HIDE DEF Bad, r
    <3> QED BY <2>1, <2>4, <3>1
  <2>6. Total(w, s) = w[AnyOf(s)] + Total(w, r)
    BY <1>1, <2>2, <2>3, TotalFrom
  <2>7. w[AnyOf(s)] \in Nat
    BY <2>4
  <2> QED BY <2>2, <2>5, <2>6, <2>7
<1>3. S \in SUBSET S
  OBVIOUS
<1> QED BY <1>1, <1>2, <1>3

LEMMA TotalWithout ==
  ASSUME NEW w, NEW S, IsFiniteSet(S), \A x \in S : w[x] \in Int, NEW y \in S
  PROVE  Total(w, S) = Total(w, S \ {y}) + w[y]
<1> DEFINE Bad == {n \in Nat : \E s \in SUBSET S : Cardinality(s) = n /\ \E z \in s : Total(w, s) # Total(w, s \ {z}) + w[z]}
<1>1. \A s \in SUBSET S : IsFiniteSet(s) /\ Cardinality(s) \in Nat
  BY FS_Subset, FS_CardinalityType
<1>2. Bad = {}
  <2> SUFFICES ASSUME Bad # {} PROVE FALSE
    OBVIOUS
  <2>1. PICK n \in Bad : \A m \in Bad : n <= m
    <3>1. Bad \in SUBSET Nat
      OBVIOUS
    <3> HIDE DEF Bad
    <3> QED BY <3>1, LeastNatural
  <2>2. PICK s \in SUBSET S : Cardinality(s) = n /\ \E z \in s : Total(w, s) # Total(w, s \ {z}) + w[z]
    BY <2>1
  <2>3. PICK z \in s : Total(w, s) # Total(w, s \ {z}) + w[z]
    BY <2>2
  <2> DEFINE x == AnyOf(s)
             r == s \ {x}
  <2>4. x \in s /\ r \in SUBSET S /\ Cardinality(r) < n /\ Cardinality(r) \in Nat /\ n \in Nat
    BY <1>1, <2>2, <2>3, AnyIsOne
  <2>5. Total(w, s) = Total(w, r) + w[x]
    <3>1. Total(w, s) = w[x] + Total(w, r)
      BY <1>1, <2>2, <2>3, TotalFrom
    <3>2. IsFiniteSet(r) /\ \A u \in r : w[u] \in Int
      BY <1>1, <2>4
    <3>3. Total(w, r) \in Int /\ w[x] \in Int
      <4> HIDE DEF r
      <4> QED BY <2>2, <2>4, <3>2, TotalIsNumber
    <3> HIDE DEF r, x
    <3> QED BY <3>1, <3>3
  <2>6. x # z /\ z \in r
    BY <2>3, <2>5
  <2> HIDE DEF x
  <2>7. \A u \in r : Total(w, r) = Total(w, r \ {u}) + w[u]
    <3> SUFFICES ASSUME ~(\A u \in r : Total(w, r) = Total(w, r \ {u}) + w[u]) PROVE FALSE
      OBVIOUS
    <3>1. Cardinality(r) \in Bad
      BY <2>4
    <3> HIDE DEF Bad, r
    <3> QED BY <2>1, <2>4, <3>1
  <2> DEFINE t == s \ {z}
  <2>8. Total(w, r) = Total(w, r \ {z}) + w[z]
    BY <2>6, <2>7
  <2>9. t \in SUBSET S /\ Cardinality(t) < n /\ Cardinality(t) \in Nat
    <3>1. IsFiniteSet(s) /\ Cardinality(s) = n
      BY <1>1, <2>2
    <3>2. Cardinality(t) = n - 1
      BY <2>3, <3>1, FS_RemoveElement
    <3> QED BY <1>1, <2>4, <3>2
  <2>10. \A u \in t : Total(w, t) = Total(w, t \ {u}) + w[u]
    <3> SUFFICES ASSUME ~(\A u \in t : Total(w, t) = Total(w, t \ {u}) + w[u]) PROVE FALSE
      OBVIOUS
    <3>1. Cardinality(t) \in Bad
      BY <2>9
    <3> HIDE DEF Bad, t
    <3> QED BY <2>1, <2>4, <2>9, <3>1
  <2>11. Total(w, t) = Total(w, t \ {x}) + w[x]
    BY <2>4, <2>6, <2>10
  <2>12. t \ {x} = r \ {z}
    OBVIOUS
  <2> DEFINE m == Total(w, t \ {x})
  <2>13. m \in Int /\ w[x] \in Int /\ w[z] \in Int
    <3>1. t \ {x} \in SUBSET S
      BY <2>9
    <3>2. IsFiniteSet(t \ {x})
      BY <1>1, <3>1
    <3> HIDE DEF t
    <3> QED BY <2>2, <2>3, <2>4, <3>1, <3>2, TotalIsNumber
  <2>14. Total(w, s) = (m + w[z]) + w[x]
    BY <2>5, <2>8, <2>12
  <2>15. Total(w, t) = m + w[x]
    BY <2>11
  <2> HIDE DEF m
  <2>16. (m + w[z]) + w[x] = (m + w[x]) + w[z]
    BY <2>13
  <2> QED BY <2>3, <2>14, <2>15, <2>16
<1>3. S \in SUBSET S /\ Cardinality(S) \in Nat
  BY <1>1
<1> QED BY <1>2, <1>3

(* A sum over two sets that share nothing is the sum of the two.           *)
LEMMA TotalOfTwo ==
  ASSUME NEW w, NEW A, IsFiniteSet(A), NEW B, IsFiniteSet(B), A \cap B = {}, \A x \in A \cup B : w[x] \in Int
  PROVE  Total(w, A \cup B) = Total(w, A) + Total(w, B)
<1> DEFINE Bad == {n \in Nat : \E s \in SUBSET B : Cardinality(s) = n /\ Total(w, A \cup s) # Total(w, A) + Total(w, s)}
<1>1. \A s \in SUBSET B : IsFiniteSet(s) /\ Cardinality(s) \in Nat /\ IsFiniteSet(A \cup s)
  BY FS_Subset, FS_CardinalityType, FS_Union
<1>2. \A s \in SUBSET B : Total(w, s) \in Int
  BY <1>1, TotalIsNumber
<1>3. Total(w, A) \in Int
  BY TotalIsNumber
<1>4. Bad = {}
  <2> SUFFICES ASSUME Bad # {} PROVE FALSE
    OBVIOUS
  <2>1. PICK n \in Bad : \A m \in Bad : n <= m
    <3>1. Bad \in SUBSET Nat
      OBVIOUS
    <3> HIDE DEF Bad
    <3> QED BY <3>1, LeastNatural
  <2>2. PICK s \in SUBSET B : Cardinality(s) = n /\ Total(w, A \cup s) # Total(w, A) + Total(w, s)
    BY <2>1
  <2>3. s # {}
    <3> SUFFICES ASSUME s = {} PROVE FALSE
      OBVIOUS
    <3>1. A \cup {} = A
      OBVIOUS
    <3>2. Total(w, {}) = 0
      BY TotalOfNone
    <3>3. Total(w, A) + 0 = Total(w, A)
      BY <1>3
    <3>4. Total(w, A \cup s) = Total(w, A) /\ Total(w, s) = 0
      BY <3>1, <3>2
    <3> QED BY <2>2, <3>3, <3>4
  <2> DEFINE y == AnyOf(s)
             r == s \ {y}
  <2>4. y \in s /\ r \in SUBSET B /\ Cardinality(r) < n /\ Cardinality(r) \in Nat /\ n \in Nat
    BY <1>1, <2>2, <2>3, AnyIsOne
  <2> HIDE DEF y
  <2>5. Total(w, A \cup r) = Total(w, A) + Total(w, r)
    <3> SUFFICES ASSUME Total(w, A \cup r) # Total(w, A) + Total(w, r) PROVE FALSE
      OBVIOUS
    <3>1. Cardinality(r) \in Bad
      BY <2>4
    <3> HIDE DEF Bad, r
    <3> QED BY <2>1, <2>4, <3>1
  <2>6. Total(w, A \cup s) = Total(w, A \cup r) + w[y]
    <3>1. (A \cup s) \ {y} = A \cup r /\ y \in A \cup s /\ \A x \in A \cup s : w[x] \in Int
      BY <2>2, <2>4
    <3>2. IsFiniteSet(A \cup s)
      BY <1>1, <2>2
    <3> DEFINE u == A \cup s
    <3>3. Total(w, u) = Total(w, u \ {y}) + w[y]
      <4> HIDE DEF u, r
      <4> QED BY <3>1, <3>2, TotalWithout DEF u
    <3> QED BY <3>1, <3>3
  <2>7. Total(w, s) = Total(w, r) + w[y]
    <3>1. IsFiniteSet(s) /\ \A x \in s : w[x] \in Int
      BY <1>1, <2>2
    <3> QED BY <2>4, <3>1, TotalWithout
  <2>8. Total(w, r) \in Int /\ w[y] \in Int
    BY <1>2, <2>2, <2>4
  <2> HIDE DEF r
  <2>9. Total(w, A \cup s) = Total(w, A) + Total(w, s)
    BY <1>3, <2>5, <2>6, <2>7, <2>8
  <2> QED BY <2>2, <2>9
<1>5. B \in SUBSET B
  OBVIOUS
<1> HIDE DEF Bad
<1>6. Cardinality(B) \notin Bad /\ Cardinality(B) \in Nat
  BY <1>1, <1>4, <1>5
<1> QED BY <1>5, <1>6 DEF Bad

(* A sum over a set that is cut into parts is the sum of what each part    *)
(* sums to.                                                                *)
LEMMA TotalOfParts ==
  ASSUME NEW S, IsFiniteSet(S), NEW w, \A x \in S : w[x] \in Int,
         NEW T, IsFiniteSet(T), NEW part, NEW v,
         \A t \in T : part[t] \subseteq S /\ v[t] = Total(w, part[t]),
         \A t, u \in T : t # u => part[t] \cap part[u] = {},
         \A x \in S : \E t \in T : x \in part[t]
  PROVE  Total(w, S) = Total(v, T)
<1> DEFINE Of(U) == {x \in S : \E t \in U : x \in part[t]}
           Bad == {n \in Nat : \E U \in SUBSET T : Cardinality(U) = n /\ Total(w, Of(U)) # Total(v, U)}
<1>1. \A U \in SUBSET T : IsFiniteSet(U) /\ Cardinality(U) \in Nat /\ IsFiniteSet(Of(U)) /\ Of(U) \subseteq S
  <2>1. \A U : Of(U) \subseteq S
    OBVIOUS
  <2> HIDE DEF Of
  <2> QED BY <2>1, FS_Subset, FS_CardinalityType
<1>2. \A t \in T : v[t] \in Int
  <2> SUFFICES ASSUME NEW t \in T PROVE v[t] \in Int
    OBVIOUS
  <2>1. part[t] \subseteq S
    OBVIOUS
  <2>2. IsFiniteSet(part[t]) /\ \A x \in part[t] : w[x] \in Int
    BY <2>1, FS_Subset
  <2>3. Total(w, part[t]) \in Int
    BY <2>2, TotalIsNumber
  <2> QED BY <2>3
<1>3. Bad = {}
  <2> SUFFICES ASSUME Bad # {} PROVE FALSE
    OBVIOUS
  <2>1. PICK n \in Bad : \A m \in Bad : n <= m
    <3>1. Bad \in SUBSET Nat
      OBVIOUS
    <3> HIDE DEF Bad
    <3> QED BY <3>1, LeastNatural
  <2>2. PICK U \in SUBSET T : Cardinality(U) = n /\ Total(w, Of(U)) # Total(v, U)
    BY <2>1
  <2>3. U # {}
    <3> SUFFICES ASSUME U = {} PROVE FALSE
      OBVIOUS
    <3>1. Of(U) = {}
      OBVIOUS
    <3> HIDE DEF Of
    <3> QED BY <2>2, <3>1, TotalOfNone
  <2> DEFINE t == AnyOf(U)
             R == U \ {t}
  <2>4. t \in U /\ R \in SUBSET T /\ Cardinality(R) < n /\ Cardinality(R) \in Nat /\ n \in Nat
    BY <1>1, <2>2, <2>3, AnyIsOne
  <2> HIDE DEF t
  <2>5. Total(w, Of(R)) = Total(v, R)
    <3> SUFFICES ASSUME Total(w, Of(R)) # Total(v, R) PROVE FALSE
      OBVIOUS
    <3>1. Cardinality(R) \in Bad
      BY <2>4
    <3> HIDE DEF Bad, R
    <3> QED BY <2>1, <2>4, <3>1
  <2>6. Of(U) = Of(R) \cup part[t] /\ Of(R) \cap part[t] = {} /\ part[t] \subseteq S
    BY <2>2, <2>4
  <2>7. Total(w, Of(U)) = Total(w, Of(R)) + Total(w, part[t])
    <3>1. IsFiniteSet(Of(R)) /\ Of(R) \subseteq S
      BY <1>1, <2>4
    <3> HIDE DEF Of, R
    <3>2. IsFiniteSet(part[t])
      BY <2>6, FS_Subset
    <3>3. \A x \in Of(R) \cup part[t] : w[x] \in Int
      BY <2>6, <3>1
    <3> DEFINE a == Of(R)
               b == part[t]
    <3>4. Total(w, a \cup b) = Total(w, a) + Total(w, b)
      <4>1. IsFiniteSet(a) /\ IsFiniteSet(b) /\ a \cap b = {} /\ \A x \in a \cup b : w[x] \in Int
        BY <2>6, <3>1, <3>2, <3>3
      <4> HIDE DEF a, b
      <4> QED BY <4>1, TotalOfTwo
    <3> QED BY <2>6, <3>4
  <2>8. Total(v, U) = Total(v, R) + v[t]
    <3>1. IsFiniteSet(U) /\ \A x \in U : v[x] \in Int
      BY <1>1, <1>2, <2>2
    <3> QED BY <2>4, <3>1, TotalWithout
  <2>9. v[t] = Total(w, part[t])
    BY <2>2, <2>4
  <2> HIDE DEF Of, R
  <2> QED BY <2>2, <2>5, <2>7, <2>8, <2>9
<1>4. Of(T) = S
  OBVIOUS
<1>5. T \in SUBSET T
  OBVIOUS
<1> HIDE DEF Bad
<1>6. Cardinality(T) \notin Bad /\ Cardinality(T) \in Nat
  BY <1>1, <1>3, <1>5
<1> QED BY <1>4, <1>5, <1>6 DEF Bad

(* A sum of numbers that are nowhere greater is no greater, and one of     *)
(* equals is their multiple.                                               *)
LEMMA TotalIsMonotone ==
  ASSUME NEW w, NEW v, NEW S, IsFiniteSet(S), \A x \in S : w[x] \in Int /\ v[x] \in Int /\ w[x] <= v[x]
  PROVE  Total(w, S) <= Total(v, S)
<1> DEFINE Bad == {n \in Nat : \E U \in SUBSET S : Cardinality(U) = n /\ ~(Total(w, U) <= Total(v, U))}
<1>1. \A U \in SUBSET S : IsFiniteSet(U) /\ Cardinality(U) \in Nat
  BY FS_Subset, FS_CardinalityType
<1>2. ASSUME Bad # {} PROVE FALSE
  <2>1. PICK n \in Bad : \A m \in Bad : n <= m
    <3>1. Bad \in SUBSET Nat
      OBVIOUS
    <3> HIDE DEF Bad
    <3> QED BY <1>2, <3>1, LeastNatural
  <2>2. PICK U \in SUBSET S : Cardinality(U) = n /\ ~(Total(w, U) <= Total(v, U))
    BY <2>1
  <2>3. U # {}
    BY <2>2, TotalOfNone
  <2> DEFINE x == AnyOf(U)
             r == U \ {x}
  <2>4. x \in U /\ IsFiniteSet(r) /\ Cardinality(r) \in Nat /\ Cardinality(r) < n
    BY <1>1, <2>2, <2>3, AnyIsOne
  <2>5. r \in SUBSET S /\ x \in S
    BY <2>2, <2>4
  <2>6. Total(w, U) = w[x] + Total(w, r) /\ Total(v, U) = v[x] + Total(v, r)
    BY <1>1, <2>2, <2>3, TotalFrom
  <2> HIDE DEF x, r
  <2>7. Total(w, r) <= Total(v, r)
    <3>1. Cardinality(r) \notin Bad
      BY <2>1, <2>4
    <3> QED BY <2>4, <2>5, <3>1
  <2>8. Total(w, r) \in Int /\ Total(v, r) \in Int
    BY <2>4, <2>5, TotalIsNumber
  <2>9. w[x] \in Int /\ v[x] \in Int /\ w[x] <= v[x]
    BY <2>5
  <2> HIDE DEF Bad
  <2> QED BY <2>2, <2>6, <2>7, <2>8, <2>9
<1>3. Cardinality(S) \notin Bad
  BY <1>2
<1> QED BY <1>1, <1>3

LEMMA TotalOfEquals ==
  ASSUME NEW w, NEW S, IsFiniteSet(S), NEW k \in Nat, \A x \in S : w[x] = k
  PROVE  Total(w, S) = Cardinality(S) * k
<1> DEFINE Bad == {n \in Nat : \E U \in SUBSET S : Cardinality(U) = n /\ Total(w, U) # n * k}
<1>1. \A U \in SUBSET S : IsFiniteSet(U) /\ Cardinality(U) \in Nat
  BY FS_Subset, FS_CardinalityType
<1>2. ASSUME Bad # {} PROVE FALSE
  <2>1. PICK n \in Bad : \A m \in Bad : n <= m
    <3>1. Bad \in SUBSET Nat
      OBVIOUS
    <3> HIDE DEF Bad
    <3> QED BY <1>2, <3>1, LeastNatural
  <2>2. PICK U \in SUBSET S : Cardinality(U) = n /\ Total(w, U) # n * k
    BY <2>1
  <2>3. U # {}
    <3>1. CASE U = {}
      <4>1. n = 0 /\ Total(w, U) = 0
        BY <2>2, <3>1, TotalOfNone, FS_EmptySet
      <4> QED BY <2>2, <4>1
    <3> QED BY <3>1
  <2> DEFINE x == AnyOf(U)
             r == U \ {x}
  <2>4. x \in U /\ IsFiniteSet(r) /\ Cardinality(r) = n - 1 /\ n \in Nat /\ Cardinality(r) \in Nat
    <3>1. x \in U /\ IsFiniteSet(U) /\ Cardinality(U) = n
      BY <1>1, <2>2, <2>3, AnyIsOne
    <3>2. IsFiniteSet(r) /\ Cardinality(r) = n - 1
      BY <3>1, FS_RemoveElement
    <3> HIDE DEF x, r
    <3> QED BY <1>1, <2>2, <3>1, <3>2, FS_CardinalityType
  <2>5. r \in SUBSET S /\ x \in S
    BY <2>2, <2>4
  <2>6. Total(w, U) = w[x] + Total(w, r)
    BY <1>1, <2>2, <2>3, TotalFrom
  <2> HIDE DEF x, r
  <2>7. Total(w, r) = (n - 1) * k
    <3>1. Cardinality(r) \notin Bad
      BY <2>1, <2>4
    <3> QED BY <2>4, <2>5, <3>1
  <2>8. w[x] = k
    BY <2>5
  <2>9. k + (n - 1) * k = n * k
    BY <2>4
  <2> HIDE DEF Bad
  <2> QED BY <2>2, <2>6, <2>7, <2>8, <2>9
<1>3. Cardinality(S) \notin Bad
  BY <1>2
<1> QED BY <1>1, <1>3
=============================================================================
