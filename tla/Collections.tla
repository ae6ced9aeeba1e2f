---------------------------- MODULE Collections -----------------------------
(***************************************************************************)
(* Facts for the proofs about what is computed from a collection: sums     *)
(* over finite sets, recursion along the naturals, selections from         *)
(* sequences and rankings of finite sets.  The fold of the community       *)
(* modules is a recursive function on the subsets of a set: these facts    *)
(* say that there is one, that it does not depend on the order in which    *)
(* elements are taken, and what adding or removing one element does to it. *)
(***************************************************************************)
EXTENDS Integers, FiniteSetsExt, Selections, FiniteSetTheorems,
        NaturalsInduction, WellFoundedInduction, TLAPS

\* The sum of F over S, as the modules write it.
Sum(F, S) == MapThenSumSet(LAMBDA x : F[x], S)

LEMMA LeastOf ==
    ASSUME NEW S \in SUBSET Nat, S # {}
    PROVE  \E m \in S : \A q \in S : m <= q
<1>1. PICK m \in S : \A q \in S : ~ (<<q, m>> \in OpToRel(<, Nat))
  BY NatLessThanWellFounded, WFMin, Zenon
<1>2. \A q \in S : ~ (q < m)
  BY <1>1 DEF OpToRel
<1> QED
  BY <1>2

-----------------------------------------------------------------------------
(* The recursion                                                           *)

\* g sums F over the subsets of S.
Sums(F, S, g) ==
    g = [s \in SUBSET S |-> IF s = {} THEN 0
                            ELSE LET x == CHOOSE x \in s : TRUE IN F[x] + g[s \ {x}]]

LEMMA SumsAt ==
    ASSUME NEW F, NEW S, NEW g, Sums(F, S, g)
    PROVE  /\ g[{}] = 0
           /\ \A s \in SUBSET S : s # {} =>
                \E x \in s : g[s] = F[x] + g[s \ {x}]
<1>1. ASSUME NEW s \in SUBSET S
      PROVE  g[s] = IF s = {} THEN 0
                    ELSE LET x == CHOOSE x \in s : TRUE IN F[x] + g[s \ {x}]
  BY DEF Sums
<1>2. ASSUME NEW s \in SUBSET S, s # {}
      PROVE  \E x \in s : g[s] = F[x] + g[s \ {x}]
  <2>1. (CHOOSE x \in s : TRUE) \in s
    BY <1>2
  <2> QED
    BY <1>1, <1>2, <2>1
<1>3. {} \in SUBSET S
  OBVIOUS
<1> QED
  BY <1>1, <1>2, <1>3

\* F and H say the same of the elements of t, a subset of both domains.
Alike(F, H, t, S, T) == t \subseteq S /\ t \subseteq T /\ \A x \in t : F[x] = H[x]

\* Two sums agree on what both sum alike.
LEMMA SumsAgree ==
    ASSUME NEW S, NEW T, IsFiniteSet(S), NEW F, NEW H, NEW g, NEW h,
           Sums(F, S, g), Sums(H, T, h), NEW t, Alike(F, H, t, S, T)
    PROVE  g[t] = h[t]
<1> DEFINE bad == { n \in Nat : \E s \in SUBSET t : Cardinality(s) = n /\ g[s] # h[s] }
<1>0. t \subseteq S /\ t \subseteq T /\ \A x \in t : F[x] = H[x]
  BY DEF Alike
<1>1. \A s \in SUBSET t : IsFiniteSet(s) /\ Cardinality(s) \in Nat
  BY <1>0, FS_Subset, FS_CardinalityType
<1>2. ASSUME bad # {} PROVE FALSE
  <2>1. PICK m \in bad : \A q \in bad : m <= q
    BY <1>2, LeastOf
  <2>2. PICK s \in SUBSET t : Cardinality(s) = m /\ g[s] # h[s]
    BY <2>1
  <2> DEFINE x == CHOOSE x \in s : TRUE
  <2>3. /\ g[s] = IF s = {} THEN 0 ELSE F[x] + g[s \ {x}]
        /\ h[s] = IF s = {} THEN 0 ELSE H[x] + h[s \ {x}]
    BY <1>0 DEF Sums
  <2>4. s # {} /\ x \in s
    BY <2>2, <2>3
  <2> HIDE DEF x
  <2>5. Cardinality(s \ {x}) = m - 1 /\ m - 1 \in Nat
    <3>1. Cardinality(s \ {x}) = Cardinality(s) - 1
      BY <1>1, <2>4, FS_RemoveElement
    <3>2. Cardinality(s \ {x}) \in Nat
      BY <1>1
    <3> QED
      BY <2>2, <3>1, <3>2
  <2>6. g[s \ {x}] = h[s \ {x}]
    BY <2>1, <2>5
  <2> QED
    BY <1>0, <2>2, <2>3, <2>4, <2>6
<1> QED
  BY <1>1, <1>2

\* There is a sum: the sums over the subsets of up to n elements are extended
\* to those of n + 1.
LEMMA SumsExist ==
    ASSUME NEW F, NEW S, IsFiniteSet(S)
    PROVE  \E g : Sums(F, S, g)
<1> DEFINE Small(n) == { s \in SUBSET S : Cardinality(s) <= n }
           At(g, s) == IF s = {} THEN 0
                       ELSE LET x == CHOOSE x \in s : TRUE IN F[x] + g[s \ {x}]
           Reaches(n) == \E g : \A s \in Small(n) : g[s] = At(g, s)
           bad == { n \in Nat : ~Reaches(n) }
<1>1. \A s \in SUBSET S : IsFiniteSet(s) /\ Cardinality(s) \in Nat
  BY FS_Subset, FS_CardinalityType
<1>2. Reaches(0)
  <2>1. \A s \in Small(0) : s = {}
    BY <1>1, FS_EmptySet
  <2>2. \A s \in Small(0) : [s0 \in SUBSET S |-> 0][s] = At([s0 \in SUBSET S |-> 0], s)
    BY <2>1
  <2> QED
    BY <2>2
<1>3. ASSUME NEW n \in Nat, Reaches(n) PROVE Reaches(n + 1)
  <2>1. PICK g : \A s \in Small(n) : g[s] = At(g, s)
    BY <1>3
  <2> DEFINE h == [s \in SUBSET S |-> IF s \in Small(n) THEN g[s] ELSE At(g, s)]
  <2>2. ASSUME NEW s \in SUBSET S, s # {}, Cardinality(s) <= n + 1, NEW x \in s
        PROVE  s \ {x} \in Small(n)
    <3>1. Cardinality(s \ {x}) = Cardinality(s) - 1
      BY <1>1, <2>2, FS_RemoveElement
    <3> QED
      BY <1>1, <2>2, <3>1
  <2>3. ASSUME NEW s \in Small(n + 1) PROVE h[s] = At(h, s)
    <3>1. h[s] = At(g, s)
      BY <2>1
    <3>2. CASE s = {}
      BY <3>1, <3>2
    <3>3. CASE s # {}
      <4> DEFINE x == CHOOSE x \in s : TRUE
      <4>1. x \in s
        BY <3>3
      <4>2. s \ {x} \in Small(n)
        <5> HIDE DEF x
        <5> QED
          BY <2>2, <3>3, <4>1
      <4>3. h[s \ {x}] = g[s \ {x}]
        BY <4>2
      <4> QED
        BY <3>1, <3>3, <4>3
    <3> QED
      BY <3>2, <3>3
  <2> HIDE DEF h
  <2> QED
    BY <2>3
<1>4. ASSUME bad # {} PROVE FALSE
  <2>1. PICK m \in bad : \A q \in bad : m <= q
    BY <1>4, LeastOf
  <2> HIDE DEF Reaches
  <2>2. m # 0 /\ m - 1 \in Nat /\ (m - 1) + 1 = m
    BY <1>2, <2>1
  <2>3. Reaches(m - 1) /\ ~Reaches((m - 1) + 1)
    BY <2>1, <2>2
  <2> QED
    BY <1>3, <2>2, <2>3
<1>5. PICK g : \A s \in Small(Cardinality(S)) : g[s] = At(g, s)
  <2> HIDE DEF Reaches
  <2>1. Reaches(Cardinality(S))
    BY <1>1, <1>4
  <2> QED
    BY <2>1 DEF Reaches
<1>6. \A s \in SUBSET S : s \in Small(Cardinality(S))
  BY FS_Subset
<1> DEFINE f == [s \in SUBSET S |-> g[s]]
<1>7. ASSUME NEW s \in SUBSET S PROVE f[s] = At(f, s)
  BY <1>5, <1>6
<1>8. f = [s \in SUBSET S |-> At(f, s)]
  <2> HIDE DEF At
  <2> QED
    BY <1>7
<1>9. Sums(F, S, f)
  BY <1>8 DEF Sums
<1> QED
  BY <1>9

\* In what order the elements are taken makes no difference.
LEMMA SumsTake ==
    ASSUME NEW F, NEW S, IsFiniteSet(S), \A x \in S : F[x] \in Int,
           NEW g, Sums(F, S, g)
    PROVE  \A s \in SUBSET S :
               g[s] \in Int /\ \A x \in s : g[s] = F[x] + g[s \ {x}]
<1> DEFINE Fine(s) == g[s] \in Int /\ \A x \in s : g[s] = F[x] + g[s \ {x}]
           bad == { n \in Nat : \E s \in SUBSET S : Cardinality(s) = n /\ ~Fine(s) }
<1>1. \A s \in SUBSET S : IsFiniteSet(s) /\ Cardinality(s) \in Nat
  BY FS_Subset, FS_CardinalityType
<1>2. ASSUME bad # {} PROVE FALSE
  <2>1. PICK m \in bad : \A q \in bad : m <= q
    BY <1>2, LeastOf
  <2>2. PICK s \in SUBSET S : Cardinality(s) = m /\ ~Fine(s)
    BY <2>1
  <2>3. ASSUME NEW x \in s PROVE Fine(s \ {x})
    <3>1. Cardinality(s \ {x}) = Cardinality(s) - 1 /\ Cardinality(s \ {x}) \in Nat
      BY <1>1, FS_RemoveElement
    <3> HIDE DEF Fine
    <3> QED
      BY <2>1, <2>2, <3>1
  <2>4. s # {}
    <3>1. g[{}] = 0
      BY SumsAt
    <3> QED
      BY <2>2, <3>1
  <2>5. PICK x \in s : g[s] = F[x] + g[s \ {x}]
    BY <2>4, SumsAt
  <2>i. \A y \in s : F[y] \in Int
    OBVIOUS
  <2>6. ASSUME NEW y \in s, y # x PROVE g[s] = F[y] + g[s \ {y}]
    <3>1. g[s \ {x}] = F[y] + g[(s \ {x}) \ {y}]
      BY <2>3, <2>6
    <3>2. g[s \ {y}] = F[x] + g[(s \ {y}) \ {x}]
      BY <2>3, <2>6
    <3>3. (s \ {x}) \ {y} = (s \ {y}) \ {x}
      OBVIOUS
    <3>4. (s \ {x}) \ {y} \in SUBSET S /\ g[(s \ {x}) \ {y}] \in Int
      <4>1. Cardinality(s \ {x}) = Cardinality(s) - 1 /\ s \ {x} \in SUBSET S
        BY <1>1, FS_RemoveElement
      <4>2. Cardinality((s \ {x}) \ {y}) = Cardinality(s \ {x}) - 1
        BY <1>1, <2>6, <4>1, FS_RemoveElement
      <4>3. (s \ {x}) \ {y} \in SUBSET S /\ Cardinality((s \ {x}) \ {y}) \in Nat
        BY <1>1
      <4>4. Cardinality((s \ {x}) \ {y}) < m
        BY <1>1, <2>2, <4>1, <4>2, <4>3
      <4> HIDE DEF Fine
      <4>5. Fine((s \ {x}) \ {y})
        BY <2>1, <4>3, <4>4
      <4> QED
        BY <4>3, <4>5 DEF Fine
    <3>5. PICK a \in Int : a = g[(s \ {x}) \ {y}]
      BY <3>4
    <3>6. g[s] = F[x] + (F[y] + a) /\ g[s \ {y}] = F[x] + a
      BY <2>5, <3>1, <3>2, <3>3, <3>5
    <3>7. F[x] + (F[y] + a) = F[y] + (F[x] + a)
      BY <2>i
    <3> QED
      BY <3>6, <3>7
  <2>7. g[s] \in Int
    <3>1. g[s \ {x}] \in Int /\ F[x] \in Int
      BY <2>3, <2>i
    <3> QED
      BY <2>5, <3>1
  <2> QED
    BY <2>2, <2>5, <2>6, <2>7
<1> QED
  BY <1>1, <1>2

-----------------------------------------------------------------------------
(* Sums                                                                    *)

\* The fold is the sum of the whole set.
LEMMA SumIs ==
    ASSUME NEW F, NEW S, IsFiniteSet(S)
    PROVE  \E g : Sums(F, S, g) /\ Sum(F, S) = g[S]
<1> DEFINE h == CHOOSE h : Sums(F, S, h)
<1>1. Sums(F, S, h)
  BY SumsExist
<1>2. Sum(F, S) = h[S]
  BY DEF Sum, MapThenSumSet, MapThenFoldSet, Sums
<1> QED
  BY <1>1, <1>2

\* Whatever function sums F over the subsets of S, the whole is its value at S.
LEMMA SumOf ==
    ASSUME NEW F, NEW S, IsFiniteSet(S), NEW h, Sums(F, S, h)
    PROVE  Sum(F, S) = h[S]
<1>1. PICK g : Sums(F, S, g) /\ Sum(F, S) = g[S]
  BY SumIs
<1>2. Alike(F, F, S, S, S)
  BY DEF Alike
<1> QED
  BY <1>1, <1>2, SumsAgree

LEMMA SumSame ==
    ASSUME NEW F, NEW H, NEW S, IsFiniteSet(S), \A x \in S : F[x] = H[x]
    PROVE  Sum(F, S) = Sum(H, S)
<1>1. PICK g : Sums(F, S, g) /\ Sum(F, S) = g[S]
  BY SumIs
<1>2. PICK h : Sums(H, S, h) /\ Sum(H, S) = h[S]
  BY SumIs
<1>3. Alike(F, H, S, S, S)
  BY DEF Alike
<1> QED
  BY <1>1, <1>2, <1>3, SumsAgree

LEMMA SumEmpty == ASSUME NEW F PROVE Sum(F, {}) = 0
<1>1. PICK g : Sums(F, {}, g) /\ Sum(F, {}) = g[{}]
  BY SumIs, FS_EmptySet
<1> QED
  BY <1>1, SumsAt

\* A sum is an integer, and any element may be taken out of it.
LEMMA SumTake ==
    ASSUME NEW F, NEW S, IsFiniteSet(S), \A x \in S : F[x] \in Int
    PROVE  /\ Sum(F, S) \in Int
           /\ \A x \in S : Sum(F, S) = F[x] + Sum(F, S \ {x})
<1>1. PICK g : Sums(F, S, g) /\ Sum(F, S) = g[S]
  BY SumIs
<1>2. g[S] \in Int /\ \A x \in S : g[S] = F[x] + g[S \ {x}]
  BY <1>1, SumsTake
<1>3. ASSUME NEW x \in S PROVE Sum(F, S \ {x}) = g[S \ {x}]
  <2>1. IsFiniteSet(S \ {x})
    BY FS_Subset
  <2>2. PICK h : Sums(F, S \ {x}, h) /\ Sum(F, S \ {x}) = h[S \ {x}]
    BY <2>1, SumIs
  <2>3. Alike(F, F, S \ {x}, S \ {x}, S)
    BY DEF Alike
  <2>4. h[S \ {x}] = g[S \ {x}]
    BY <1>1, <2>1, <2>2, <2>3, SumsAgree
  <2> QED
    BY <2>2, <2>4
<1> QED
  BY <1>1, <1>2, <1>3

LEMMA SumAdd ==
    ASSUME NEW F, NEW S, IsFiniteSet(S), NEW x, x \notin S,
           \A y \in S \cup {x} : F[y] \in Int
    PROVE  Sum(F, S \cup {x}) = F[x] + Sum(F, S)
<1>1. IsFiniteSet(S \cup {x}) /\ (S \cup {x}) \ {x} = S /\ x \in S \cup {x}
  BY FS_AddElement
<1>2. PICK T : T = S \cup {x}
  OBVIOUS
<1>3. IsFiniteSet(T) /\ \A y \in T : F[y] \in Int
  BY <1>1, <1>2
<1>4. \A y \in T : Sum(F, T) = F[y] + Sum(F, T \ {y})
  BY <1>3, SumTake
<1> QED
  BY <1>1, <1>2, <1>4

\* A sum of natural numbers is one, and no less than any of them.
LEMMA SumNat ==
    ASSUME NEW F, NEW S, IsFiniteSet(S), \A x \in S : F[x] \in Nat
    PROVE  Sum(F, S) \in Nat /\ \A x \in S : F[x] <= Sum(F, S)
<1> DEFINE bad == { n \in Nat : \E s \in SUBSET S : Cardinality(s) = n /\ Sum(F, s) \notin Nat }
<1>1. \A s \in SUBSET S : IsFiniteSet(s) /\ Cardinality(s) \in Nat
  BY FS_Subset, FS_CardinalityType
<1>t. ASSUME NEW s \in SUBSET S, NEW x \in s PROVE Sum(F, s) = F[x] + Sum(F, s \ {x})
  <2>1. \A y \in s : F[y] \in Int
    OBVIOUS
  <2> QED
    BY <1>1, <2>1, SumTake
<1>2. ASSUME bad # {} PROVE FALSE
  <2>1. PICK m \in bad : \A q \in bad : m <= q
    BY <1>2, LeastOf
  <2>2. PICK s \in SUBSET S : Cardinality(s) = m /\ Sum(F, s) \notin Nat
    BY <2>1
  <2>3. s # {}
    BY <2>2, SumEmpty
  <2>4. PICK x \in s : TRUE
    BY <2>3
  <2>5. Cardinality(s \ {x}) = Cardinality(s) - 1 /\ Cardinality(s \ {x}) \in Nat
    BY <1>1, FS_RemoveElement
  <2>6. Sum(F, s \ {x}) \in Nat
    BY <2>1, <2>2, <2>5
  <2> QED
    BY <1>t, <2>2, <2>6
<1>3. \A s \in SUBSET S : Sum(F, s) \in Nat
  BY <1>1, <1>2
<1>4. ASSUME NEW x \in S PROVE F[x] <= Sum(F, S)
  <2>1. Sum(F, S) = F[x] + Sum(F, S \ {x})
    BY <1>t
  <2>2. Sum(F, S \ {x}) \in Nat
    BY <1>3
  <2> QED
    BY <2>1, <2>2
<1> QED
  BY <1>3, <1>4

-----------------------------------------------------------------------------
(* Sums of sums                                                            *)

\* What the empty set has and every element added to it keeps, a finite set has.
LEMMA SetsGrow ==
    ASSUME NEW S, IsFiniteSet(S), NEW good,
           {} \in good,
           \A s \in SUBSET S : \A x \in S \ s : s \in good => s \cup {x} \in good
    PROVE  S \in good
<1> DEFINE bad == { n \in Nat : \E s \in SUBSET S : Cardinality(s) = n /\ s \notin good }
<1>1. \A s \in SUBSET S : IsFiniteSet(s) /\ Cardinality(s) \in Nat
  BY FS_Subset, FS_CardinalityType
<1>2. ASSUME bad # {} PROVE FALSE
  <2>1. PICK m \in bad : \A q \in bad : m <= q
    BY <1>2, LeastOf
  <2>2. PICK s \in SUBSET S : Cardinality(s) = m /\ s \notin good
    BY <2>1
  <2>3. PICK x \in s : TRUE
    BY <2>2
  <2>4. PICK rest : rest = s \ {x}
    OBVIOUS
  <2>5. Cardinality(rest) = Cardinality(s) - 1 /\ Cardinality(rest) \in Nat
    BY <1>1, <2>4, FS_RemoveElement
  <2>6. rest \in good
    BY <2>1, <2>2, <2>4, <2>5
  <2>7. s = rest \cup {x} /\ x \in S \ rest /\ rest \in SUBSET S
    BY <2>4
  <2> QED
    BY <2>2, <2>6, <2>7
<1> QED
  BY <1>1, <1>2

\* Sums add up, element by element.
LEMMA SumPlus ==
    ASSUME NEW S, IsFiniteSet(S), NEW F, NEW G, NEW H,
           \A x \in S : F[x] \in Int /\ G[x] \in Int /\ H[x] = F[x] + G[x]
    PROVE  Sum(H, S) = Sum(F, S) + Sum(G, S)
<1> DEFINE good == { s \in SUBSET S : Sum(H, s) = Sum(F, s) + Sum(G, s) }
<1>1. {} \in good
  BY SumEmpty
<1>2. ASSUME NEW s \in SUBSET S, NEW x \in S \ s, s \in good PROVE s \cup {x} \in good
  <2>1. IsFiniteSet(s)
    BY FS_Subset
  <2>2. \A y \in s \cup {x} : F[y] \in Int /\ G[y] \in Int /\ H[y] \in Int
    OBVIOUS
  <2>3. /\ Sum(F, s \cup {x}) = F[x] + Sum(F, s) /\ Sum(G, s \cup {x}) = G[x] + Sum(G, s)
        /\ Sum(H, s \cup {x}) = H[x] + Sum(H, s)
    BY <2>1, <2>2, SumAdd
  <2>4. Sum(F, s) \in Int /\ Sum(G, s) \in Int /\ Sum(H, s) \in Int
    BY <2>1, <2>2, SumTake
  <2>5. H[x] = F[x] + G[x] /\ F[x] \in Int /\ G[x] \in Int
    OBVIOUS
  <2>6. Sum(H, s) = Sum(F, s) + Sum(G, s) /\ s \cup {x} \in SUBSET S
    BY <1>2
  <2>7. Sum(H, s \cup {x}) = Sum(F, s \cup {x}) + Sum(G, s \cup {x})
    BY <2>3, <2>4, <2>5, <2>6
  <2> QED
    BY <2>6, <2>7
<1> HIDE DEF good
<1>3. S \in good
  BY <1>1, <1>2, SetsGrow
<1> QED
  BY <1>3 DEF good

\* What is nothing everywhere sums to nothing.
LEMMA SumZero ==
    ASSUME NEW S, IsFiniteSet(S), NEW F, \A x \in S : F[x] = 0
    PROVE  Sum(F, S) = 0
<1>1. \A x \in S : F[x] \in Int /\ F[x] \in Int /\ F[x] = F[x] + F[x]
  OBVIOUS
<1>2. Sum(F, S) = Sum(F, S) + Sum(F, S)
  BY <1>1, SumPlus
<1>3. Sum(F, S) \in Int
  BY <1>1, SumTake
<1>4. PICK n : n = Sum(F, S)
  OBVIOUS
<1>5. n \in Int /\ n = n + n
  BY <1>2, <1>3, <1>4
<1>6. n = 0
  BY <1>5
<1> QED
  BY <1>4, <1>6

\* A sum over two sets apart.
LEMMA SumDisjoint ==
    ASSUME NEW S, NEW T, IsFiniteSet(S), IsFiniteSet(T), S \cap T = {}, NEW F,
           \A x \in S \cup T : F[x] \in Int
    PROVE  Sum(F, S \cup T) = Sum(F, S) + Sum(F, T)
<1> DEFINE good == { t \in SUBSET T : Sum(F, S \cup t) = Sum(F, S) + Sum(F, t) }
<1>0. Sum(F, S) \in Int
  BY SumTake
<1>1. {} \in good
  BY <1>0, SumEmpty
<1>2. ASSUME NEW t \in SUBSET T, NEW x \in T \ t, t \in good PROVE t \cup {x} \in good
  <2>1. IsFiniteSet(t) /\ IsFiniteSet(S \cup t)
    BY FS_Subset, FS_Union
  <2>2. /\ \A y \in t \cup {x} : F[y] \in Int
        /\ \A y \in (S \cup t) \cup {x} : F[y] \in Int
        /\ x \notin S \cup t /\ x \notin t
    OBVIOUS
  <2>3. Sum(F, t \cup {x}) = F[x] + Sum(F, t) /\ Sum(F, t) \in Int
    BY <2>1, <2>2, SumAdd, SumTake
  <2>4. Sum(F, (S \cup t) \cup {x}) = F[x] + Sum(F, S \cup t)
    BY <2>1, <2>2, SumAdd
  <2>5. (S \cup t) \cup {x} = S \cup (t \cup {x}) /\ F[x] \in Int
    OBVIOUS
  <2>6. Sum(F, S \cup t) = Sum(F, S) + Sum(F, t) /\ t \cup {x} \in SUBSET T
    BY <1>2
  <2>7. Sum(F, S \cup (t \cup {x})) = Sum(F, S) + Sum(F, t \cup {x})
    <3>1. PICK m, n, f \in Int : m = Sum(F, S) /\ n = Sum(F, t) /\ f = F[x]
      BY <1>0, <2>3, <2>5
    <3>2. Sum(F, S \cup (t \cup {x})) = f + (m + n)
      BY <2>4, <2>5, <2>6, <3>1
    <3>3. Sum(F, t \cup {x}) = f + n
      BY <2>3, <3>1
    <3> QED
      BY <3>1, <3>2, <3>3
  <2> QED
    BY <2>6, <2>7
<1> HIDE DEF good
<1>3. T \in good
  BY <1>1, <1>2, SetsGrow
<1> QED
  BY <1>3 DEF good

\* What is nothing outside of T need not be summed there.
LEMMA SumWithin ==
    ASSUME NEW S, NEW T, IsFiniteSet(S), T \subseteq S, NEW F,
           \A x \in T : F[x] \in Int, \A x \in S \ T : F[x] = 0
    PROVE  Sum(F, S) = Sum(F, T)
<1>1. IsFiniteSet(T) /\ IsFiniteSet(S \ T)
  BY FS_Subset, FS_Difference
<1>2. Sum(F, S \ T) = 0 /\ Sum(F, T) \in Int
  BY <1>1, SumZero, SumTake
<1>3. PICK R : R = S \ T
  OBVIOUS
<1>4. T \cap R = {} /\ T \cup R = S /\ \A x \in T \cup R : F[x] \in Int
  BY <1>3
<1>5. Sum(F, T \cup R) = Sum(F, T) + Sum(F, R)
  BY <1>1, <1>3, <1>4, SumDisjoint
<1>6. PICK n \in Int : n = Sum(F, T)
  BY <1>2
<1>7. Sum(F, S) = n + 0
  BY <1>2, <1>3, <1>4, <1>5, <1>6
<1> QED
  BY <1>6, <1>7

\* Those of D that belong to somebody of S.
Belong(D, of, S) == { x \in D : of[x] \in S }

\* G has the sum of each group.
Grouped(F, D, of, G, S) == \A i \in S : G[i] = Sum(F, Belong(D, of, {i}))

\* A sum may be taken group by group.
LEMMA SumGroups ==
    ASSUME NEW D, IsFiniteSet(D), NEW of, NEW F, \A x \in D : F[x] \in Int,
           NEW S, IsFiniteSet(S), NEW G, Grouped(F, D, of, G, S)
    PROVE  Sum(F, Belong(D, of, S)) = Sum(G, S)
<1> DEFINE good == { s \in SUBSET S : Sum(F, Belong(D, of, s)) = Sum(G, s) }
<1>f. ASSUME NEW s PROVE /\ IsFiniteSet(Belong(D, of, s)) /\ Sum(F, Belong(D, of, s)) \in Int
                         /\ Belong(D, of, s) \subseteq D
  <2>1. IsFiniteSet(Belong(D, of, s)) /\ Belong(D, of, s) \subseteq D
    BY FS_Subset DEF Belong
  <2>2. \A x \in Belong(D, of, s) : F[x] \in Int
    BY <2>1
  <2> QED
    BY <2>1, <2>2, SumTake
<1>1. {} \in good
  <2>1. Belong(D, of, {}) = {}
    BY DEF Belong
  <2> QED
    BY <2>1, SumEmpty
<1>2. ASSUME NEW s \in SUBSET S, NEW i \in S \ s, s \in good PROVE s \cup {i} \in good
  <2>1. PICK A, B, C : /\ A = Belong(D, of, s) /\ B = Belong(D, of, {i})
                       /\ C = Belong(D, of, s \cup {i})
    OBVIOUS
  <2>2. A \cap B = {} /\ A \cup B = C /\ \A x \in A \cup B : F[x] \in Int
    BY <2>1 DEF Belong
  <2>3. Sum(F, A \cup B) = Sum(F, A) + Sum(F, B)
    BY <1>f, <2>1, <2>2, SumDisjoint
  <2>4. IsFiniteSet(s)
    BY FS_Subset
  <2>5. \A j \in s \cup {i} : G[j] \in Int
    BY <1>f DEF Grouped
  <2>6. Sum(G, s \cup {i}) = G[i] + Sum(G, s) /\ Sum(G, s) \in Int
    BY <2>4, <2>5, SumAdd, SumTake
  <2>7. G[i] = Sum(F, B) /\ Sum(F, A) = Sum(G, s) /\ Sum(F, B) \in Int
    BY <1>2, <1>f, <2>1 DEF Grouped
  <2>8. Sum(F, C) = Sum(G, s \cup {i})
    <3>1. PICK m, n \in Int : m = Sum(G, s) /\ n = G[i]
      BY <2>6, <2>7
    <3>2. Sum(F, C) = m + n
      BY <2>2, <2>3, <2>7, <3>1
    <3>3. Sum(G, s \cup {i}) = n + m
      BY <2>6, <3>1
    <3> QED
      BY <3>1, <3>2, <3>3
  <2> QED
    BY <1>2, <2>1, <2>8
<1> HIDE DEF good
<1>3. S \in good
  BY <1>1, <1>2, SetsGrow
<1> QED
  BY <1>3 DEF good

-----------------------------------------------------------------------------
(* Recursion along the naturals                                            *)

\* What 0 has and every number hands to the next, every number has.
LEMMA Climb ==
    ASSUME NEW good, 0 \in good, \A n \in Nat : n \in good => n + 1 \in good
    PROVE  \A n \in Nat : n \in good
<1> DEFINE bad == { n \in Nat : n \notin good }
<1>1. ASSUME bad # {} PROVE FALSE
  <2>1. PICK m \in bad : \A q \in bad : m <= q
    BY <1>1, LeastOf
  <2>2. m # 0 /\ m \in Nat
    BY <2>1
  <2>3. m - 1 \in Nat /\ (m - 1) + 1 = m
    BY <2>2
  <2>4. m - 1 \in good
    BY <2>1, <2>3
  <2> QED
    BY <2>1, <2>3, <2>4
<1> QED
  BY <1>1

\* g takes N steps from first.
Iterates(g, D, first, N, step) ==
    g \in [0 .. N -> D] /\ g[0] = first /\ \A n \in 1 .. N : g[n] = step[n][g[n - 1]]

\* A recursion of N steps has a solution.
LEMMA Iterated ==
    ASSUME NEW D, NEW first \in D, NEW N \in Nat, NEW step \in [1 .. N -> [D -> D]]
    PROVE  \E g : Iterates(g, D, first, N, step)
<1> DEFINE Solves(g, n) == g[0] = first /\ \A k \in 1 .. n : g[k] = step[k][g[k - 1]]
           good == { n \in Nat : n <= N => \E g \in [0 .. n -> D] : Solves(g, n) }
<1>1. 0 \in good
  <2>1. [k \in 0 .. 0 |-> first] \in [0 .. 0 -> D] /\ Solves([k \in 0 .. 0 |-> first], 0)
    OBVIOUS
  <2> QED
    BY <2>1
<1>2. ASSUME NEW n \in Nat, n \in good, n + 1 <= N PROVE \E g \in [0 .. n + 1 -> D] : Solves(g, n + 1)
  <2>1. PICK g \in [0 .. n -> D] : Solves(g, n)
    BY <1>2
  <2> DEFINE h == [k \in 0 .. n + 1 |-> IF k <= n THEN g[k] ELSE step[n + 1][g[n]]]
  <2>2. step[n + 1][g[n]] \in D
    BY <1>2
  <2>3. h \in [0 .. n + 1 -> D]
    BY <2>2
  <2>4. \A k \in 0 .. n : h[k] = g[k]
    OBVIOUS
  <2>5. h[n + 1] = step[n + 1][h[n]]
    <3>1. h[n] = g[n] /\ ~ (n + 1 <= n) /\ n + 1 \in 0 .. n + 1
      BY <2>4
    <3>2. h[n + 1] = step[n + 1][g[n]]
      BY <3>1
    <3> QED
      BY <3>1, <3>2
  <2>6. ASSUME NEW k \in 1 .. n + 1 PROVE h[k] = step[k][h[k - 1]]
    <3>1. CASE k = n + 1
      BY <2>5, <3>1
    <3>2. CASE k # n + 1
      <4>1. k \in 1 .. n /\ k - 1 \in 0 .. n
        BY <3>2
      <4> QED
        BY <2>1, <2>4, <4>1
    <3> QED
      BY <3>1, <3>2
  <2>7. h[0] = first
    BY <2>1, <2>4
  <2> QED
    BY <2>3, <2>6, <2>7
<1>3. ASSUME NEW n \in Nat, n \in good PROVE n + 1 \in good
  <2> HIDE DEF Solves
  <2>1. n + 1 <= N => \E g \in [0 .. n + 1 -> D] : Solves(g, n + 1)
    <3>1. CASE n + 1 <= N
      BY <1>2, <1>3, <3>1, Zenon
    <3> QED
      BY <3>1, Zenon
  <2>2. n + 1 \in Nat
    OBVIOUS
  <2> QED
    BY <2>1, <2>2
<1>4. N \in good
  <2> HIDE DEF good
  <2> QED
    BY <1>1, <1>3, Climb
<1> QED
  BY <1>4 DEF Iterates

-----------------------------------------------------------------------------
(* Selections                                                              *)

\* g selects from every beginning of q.
Selects(q, T, g) ==
    g = [n \in 0 .. Len(q) |->
            IF n = 0 THEN <<>>
            ELSE IF q[n] \in T THEN Append(g[n - 1], q[n]) ELSE g[n - 1]]

LEMMA SelectsAt ==
    ASSUME NEW S, NEW q \in Seq(S), NEW T, NEW g, Selects(q, T, g)
    PROVE  /\ g[0] = <<>>
           /\ \A n \in 1 .. Len(q) :
                g[n] = IF q[n] \in T THEN Append(g[n - 1], q[n]) ELSE g[n - 1]
<1>1. \A n \in 0 .. Len(q) :
        g[n] = IF n = 0 THEN <<>>
               ELSE IF q[n] \in T THEN Append(g[n - 1], q[n]) ELSE g[n - 1]
  BY DEF Selects
<1>2. 0 \in 0 .. Len(q) /\ \A n \in 1 .. Len(q) : n \in 0 .. Len(q) /\ n # 0
  OBVIOUS
<1> QED
  BY <1>1, <1>2

\* What is selected from a beginning of a sequence is one of its elements' own.
LEMMA SelectsType ==
    ASSUME NEW S, NEW q \in Seq(S), NEW T, NEW g, Selects(q, T, g)
    PROVE  \A n \in 0 .. Len(q) : g[n] \in Seq(S)
<1> DEFINE good == { n \in Nat : n <= Len(q) => g[n] \in Seq(S) }
<1>1. 0 \in good
  <2>1. g[0] = <<>>
    BY SelectsAt
  <2>2. g[0] \in Seq(S)
    BY <2>1
  <2> QED
    BY <2>2
<1>2. ASSUME NEW n \in Nat, n \in good, n + 1 <= Len(q) PROVE g[n + 1] \in Seq(S)
  <2>1. g[n] \in Seq(S) /\ n + 1 \in 1 .. Len(q) /\ q[n + 1] \in S /\ (n + 1) - 1 = n
    BY <1>2
  <2>2. g[n + 1] = IF q[n + 1] \in T THEN Append(g[n], q[n + 1]) ELSE g[n]
    BY <2>1, SelectsAt
  <2> QED
    BY <2>1, <2>2
<1>3. \A n \in Nat : n \in good => n + 1 \in good
  BY <1>2
<1> HIDE DEF good
<1>4. \A n \in Nat : n \in good
  BY <1>1, <1>3, Climb
<1> QED
  BY <1>4 DEF good

\* The selection is that of the whole sequence.
LEMMA SelectIs ==
    ASSUME NEW S, NEW q \in Seq(S), NEW T
    PROVE  \E g : Selects(q, T, g) /\ Select(q, T) = g[Len(q)]
<1> DEFINE step == [n \in 1 .. Len(q) |-> [r \in Seq(S) |->
                      IF q[n] \in T THEN Append(r, q[n]) ELSE r]]
<1>1. \A n \in 1 .. Len(q), r \in Seq(S) :
        step[n][r] = IF q[n] \in T THEN Append(r, q[n]) ELSE r
  OBVIOUS
<1>2. step \in [1 .. Len(q) -> [Seq(S) -> Seq(S)]]
  OBVIOUS
<1>3. <<>> \in Seq(S) /\ Len(q) \in Nat
  OBVIOUS
<1>n. PICK N \in Nat : N = Len(q)
  BY <1>3
<1> HIDE DEF step
<1>4. PICK g \in [0 .. Len(q) -> Seq(S)] :
        g[0] = <<>> /\ \A n \in 1 .. Len(q) : g[n] = step[n][g[n - 1]]
  <2>1. step \in [1 .. N -> [Seq(S) -> Seq(S)]]
    BY <1>2, <1>n
  <2>2. PICK D, first, st : D = Seq(S) /\ first = <<>> /\ st = step
    OBVIOUS
  <2>3. first \in D /\ st \in [1 .. N -> [D -> D]]
    BY <1>3, <2>1, <2>2
  <2>4. PICK g : Iterates(g, D, first, N, st)
    BY <2>3, Iterated
  <2> QED
    BY <1>n, <2>2, <2>4 DEF Iterates
<1>5. ASSUME NEW n \in 0 .. Len(q)
      PROVE  g[n] = IF n = 0 THEN <<>>
                    ELSE IF q[n] \in T THEN Append(g[n - 1], q[n]) ELSE g[n - 1]
  <2>1. CASE n = 0
    BY <1>4, <2>1
  <2>2. CASE n # 0
    <3>1. n \in 1 .. Len(q) /\ g[n - 1] \in Seq(S)
      BY <1>4, <2>2
    <3> QED
      BY <1>1, <1>4, <2>2, <3>1
  <2> QED
    BY <2>1, <2>2
<1>6. Selects(q, T, g)
  BY <1>4, <1>5 DEF Selects
<1> DEFINE h == CHOOSE h : Selects(q, T, h)
<1>7. Selects(q, T, h)
  BY <1>6
<1>8. Select(q, T) = h[Len(q)]
  BY DEF Select, Selects
<1> QED
  BY <1>7, <1>8

\* Two sequences that begin alike have the same selected from their beginnings.
LEMMA SelectsAlike ==
    ASSUME NEW S, NEW p \in Seq(S), NEW q \in Seq(S), NEW T, NEW g, NEW h,
           Selects(p, T, g), Selects(q, T, h),
           NEW n \in Nat, n <= Len(p), n <= Len(q), \A i \in 1 .. n : p[i] = q[i]
    PROVE  g[n] = h[n]
<1> DEFINE good == { k \in Nat : k <= n => g[k] = h[k] }
<1>1. 0 \in good
  <2>1. g[0] = <<>> /\ h[0] = <<>>
    BY SelectsAt
  <2> QED
    BY <2>1
<1>2. ASSUME NEW k \in Nat, k \in good, k + 1 <= n PROVE g[k + 1] = h[k + 1]
  <2>1. /\ g[k] = h[k] /\ (k + 1) - 1 = k /\ p[k + 1] = q[k + 1]
        /\ k + 1 \in 1 .. Len(p) /\ k + 1 \in 1 .. Len(q)
    BY <1>2
  <2>2. g[k + 1] = IF p[k + 1] \in T THEN Append(g[k], p[k + 1]) ELSE g[k]
    BY <2>1, SelectsAt
  <2>3. h[k + 1] = IF q[k + 1] \in T THEN Append(h[k], q[k + 1]) ELSE h[k]
    BY <2>1, SelectsAt
  <2> QED
    BY <2>1, <2>2, <2>3
<1>3. \A k \in Nat : k \in good => k + 1 \in good
  BY <1>2
<1> HIDE DEF good
<1>4. n \in good
  BY <1>1, <1>3, Climb
<1> QED
  BY <1>4 DEF good

LEMMA SelectType ==
    ASSUME NEW S, NEW q \in Seq(S), NEW T
    PROVE  Select(q, T) \in Seq(S)
<1>1. PICK g : Selects(q, T, g) /\ Select(q, T) = g[Len(q)]
  BY SelectIs
<1>2. g[Len(q)] \in Seq(S)
  BY <1>1, SelectsType
<1> QED
  BY <1>1, <1>2

LEMMA SelectEmpty == ASSUME NEW T PROVE Select(<<>>, T) = <<>>
<1>0. PICK S, q : S = {} /\ q = <<>>
  OBVIOUS
<1>1. q \in Seq(S) /\ Len(q) = 0
  BY <1>0
<1>2. PICK g : Selects(q, T, g) /\ Select(q, T) = g[Len(q)]
  BY <1>1, SelectIs
<1>3. g[0] = <<>>
  BY <1>1, <1>2 DEF Selects
<1> QED
  BY <1>0, <1>1, <1>2, <1>3

\* One more element is selected, or not.
LEMMA SelectAppend ==
    ASSUME NEW S, NEW q \in Seq(S), NEW x \in S, NEW T
    PROVE  Select(Append(q, x), T) =
               IF x \in T THEN Append(Select(q, T), x) ELSE Select(q, T)
<1>1. PICK p : p = Append(q, x)
  OBVIOUS
<1>2. /\ p \in Seq(S) /\ Len(q) \in Nat /\ Len(p) = Len(q) + 1 /\ p[Len(q) + 1] = x
      /\ \A i \in 1 .. Len(q) : p[i] = q[i]
  BY <1>1
<1>3. PICK g : Selects(p, T, g) /\ Select(p, T) = g[Len(p)]
  BY <1>2, SelectIs
<1>4. PICK h : Selects(q, T, h) /\ Select(q, T) = h[Len(q)]
  BY SelectIs
<1>5. g[Len(q)] = h[Len(q)]
  <2>1. Len(q) <= Len(p) /\ Len(q) <= Len(q)
    BY <1>2
  <2> QED
    BY <1>2, <1>3, <1>4, <2>1, SelectsAlike
<1>6. g[Len(q) + 1] = IF p[Len(q) + 1] \in T THEN Append(g[Len(q)], p[Len(q) + 1])
                                              ELSE g[Len(q)]
  <2>1. Len(q) + 1 \in 1 .. Len(p) /\ (Len(q) + 1) - 1 = Len(q)
    BY <1>2
  <2>2. \A n \in 1 .. Len(p) :
          g[n] = IF p[n] \in T THEN Append(g[n - 1], p[n]) ELSE g[n - 1]
    BY <1>2, <1>3, SelectsAt
  <2> QED
    BY <2>1, <2>2
<1> QED
  BY <1>1, <1>2, <1>3, <1>4, <1>5, <1>6

\* Nothing changes when an element that is not selected is taken out.
LEMMA SelectLess ==
    ASSUME NEW S, NEW q \in Seq(S), NEW T, NEW i \in 1 .. Len(q), q[i] \notin T
    PROVE  Select(SubSeq(q, 1, i - 1) \o SubSeq(q, i + 1, Len(q)), T) = Select(q, T)
<1>1. PICK w : w = SubSeq(q, 1, i - 1) \o SubSeq(q, i + 1, Len(q))
  OBVIOUS
<1>2. /\ w \in Seq(S) /\ Len(q) \in Nat /\ Len(w) = Len(q) - 1
      /\ \A k \in 1 .. Len(w) : w[k] = IF k < i THEN q[k] ELSE q[k + 1]
  <2>1. PICK a, b : a = SubSeq(q, 1, i - 1) /\ b = SubSeq(q, i + 1, Len(q))
    OBVIOUS
  <2>2. a \in Seq(S) /\ Len(a) = i - 1 /\ \A k \in 1 .. i - 1 : a[k] = q[k]
    BY <2>1
  <2>3. b \in Seq(S) /\ Len(b) = Len(q) - i
    BY <2>1
  <2>4. \A k \in 1 .. Len(q) - i : b[k] = q[k + i]
    BY <2>1
  <2>5. w = a \o b
    BY <1>1, <2>1
  <2>n. Len(q) \in Nat
    OBVIOUS
  <2>t. a \in Seq(S) /\ b \in Seq(S)
    BY <2>2, <2>3
  <2>a. Len(w) = Len(a) + Len(b)
    BY <2>t, <2>5
  <2>b. Len(w) = Len(q) - 1
    BY <2>2, <2>3, <2>n, <2>a
  <2>6. w \in Seq(S) /\ Len(w) = Len(q) - 1
    BY <2>2, <2>3, <2>5, <2>b
  <2>7. ASSUME NEW k \in 1 .. Len(w) PROVE w[k] = IF k < i THEN q[k] ELSE q[k + 1]
    <3>1. CASE k < i
      <4>1. w[k] = a[k]
        BY <2>2, <2>3, <2>5, <2>6, <3>1
      <4> QED
        BY <2>2, <3>1, <4>1
    <3>2. CASE ~ (k < i)
      <4>1. w[k] = b[k - (i - 1)]
        BY <2>2, <2>3, <2>5, <2>6, <3>2, SMTT(30)
      <4>2. k - (i - 1) \in 1 .. Len(q) - i /\ (k - (i - 1)) + i = k + 1
        BY <2>6, <3>2
      <4> QED
        BY <2>4, <3>2, <4>1, <4>2
    <3> QED
      BY <3>1, <3>2
  <2> QED
    BY <2>6, <2>7
<1>3. PICK h : Selects(w, T, h) /\ Select(w, T) = h[Len(w)]
  BY <1>2, SelectIs
<1>4. PICK g : Selects(q, T, g) /\ Select(q, T) = g[Len(q)]
  BY SelectIs
<1>5. g[0] = <<>> /\ \A n \in 1 .. Len(q) :
        g[n] = IF q[n] \in T THEN Append(g[n - 1], q[n]) ELSE g[n - 1]
  BY <1>4, SelectsAt
<1>6. h[0] = <<>> /\ \A n \in 1 .. Len(w) :
        h[n] = IF w[n] \in T THEN Append(h[n - 1], w[n]) ELSE h[n - 1]
  BY <1>2, <1>3, SelectsAt
<1>7. g[i] = g[i - 1]
  BY <1>5
<1> DEFINE Level(k) == h[k] = IF k < i THEN g[k] ELSE g[k + 1]
           good == { k \in Nat : k <= Len(w) => Level(k) }
<1>8. 0 \in good
  BY <1>5, <1>6
<1>9. ASSUME NEW k \in Nat, k \in good, k + 1 <= Len(w)
      PROVE  Level(k + 1)
  <2>1. h[k] = IF k < i THEN g[k] ELSE g[k + 1]
    BY <1>2, <1>9
  <2>2. h[k + 1] = IF w[k + 1] \in T THEN Append(h[k], w[k + 1]) ELSE h[k]
    <3>1. k + 1 \in 1 .. Len(w) /\ (k + 1) - 1 = k
      BY <1>2, <1>9
    <3> QED
      BY <1>6, <3>1
  <2>3. \A n \in Nat : n + 1 <= Len(q) =>
          g[n + 1] = IF q[n + 1] \in T THEN Append(g[n], q[n + 1]) ELSE g[n]
    <3>1. ASSUME NEW n \in Nat, n + 1 <= Len(q)
          PROVE  n + 1 \in 1 .. Len(q) /\ (n + 1) - 1 = n
      BY <1>2, <3>1
    <3> QED
      BY <1>5, <3>1
  <2>4. w[k + 1] = IF k + 1 < i THEN q[k + 1] ELSE q[(k + 1) + 1]
    BY <1>2, <1>9
  <2>5. CASE k + 1 < i
    <3>1. h[k] = g[k] /\ w[k + 1] = q[k + 1] /\ k + 1 <= Len(q)
      BY <1>2, <1>9, <2>1, <2>4, <2>5
    <3> QED
      BY <2>2, <2>3, <2>5, <3>1
  <2>6. CASE k + 1 >= i
    <3>1. w[k + 1] = q[(k + 1) + 1] /\ (k + 1) + 1 <= Len(q) /\ ~ (k + 1 < i)
      BY <1>2, <1>9, <2>4, <2>6
    <3>2. h[k] = g[k + 1]
      <4>1. CASE k < i
        <5>1. k = i - 1 /\ k + 1 = i
          BY <2>6, <4>1
        <5> QED
          BY <1>7, <2>1, <4>1, <5>1
      <4>2. CASE ~ (k < i)
        BY <2>1, <4>2
      <4> QED
        BY <4>1, <4>2
    <3>3. g[(k + 1) + 1] = IF q[(k + 1) + 1] \in T THEN Append(g[k + 1], q[(k + 1) + 1])
                                                   ELSE g[k + 1]
      BY <2>3, <3>1
    <3> QED
      BY <2>2, <3>1, <3>2, <3>3
  <2> QED
    BY <2>5, <2>6
<1>10. \A k \in Nat : k \in good => k + 1 \in good
  <2> HIDE DEF Level
  <2> QED
    BY <1>9
<1>11. Len(w) \in good
  <2>1. Len(w) \in Nat
    BY <1>2
  <2> HIDE DEF good
  <2> QED
    BY <1>8, <1>10, <2>1, Climb
<1>12. h[Len(w)] = g[Len(q)]
  <2>1. h[Len(w)] = IF Len(w) < i THEN g[Len(w)] ELSE g[Len(w) + 1]
    BY <1>11
  <2>2. Len(w) + 1 = Len(q)
    BY <1>2
  <2>3. Len(w) < i => i = Len(q) /\ Len(w) = i - 1
    BY <1>2
  <2> QED
    BY <1>7, <2>1, <2>2, <2>3
<1> QED
  BY <1>1, <1>3, <1>4, <1>12

\* Selecting twice is selecting what both select.
LEMMA SelectTwice ==
    ASSUME NEW S, NEW q \in Seq(S), NEW T, NEW U
    PROVE  Select(Select(q, T), U) = Select(q, T \cap U)
<1>1. PICK g : Selects(q, T, g) /\ Select(q, T) = g[Len(q)]
  BY SelectIs
<1>2. PICK f : Selects(q, T \cap U, f) /\ Select(q, T \cap U) = f[Len(q)]
  BY SelectIs
<1>3. g[0] = <<>> /\ \A n \in 1 .. Len(q) :
        g[n] = IF q[n] \in T THEN Append(g[n - 1], q[n]) ELSE g[n - 1]
  BY <1>1, SelectsAt
<1>4. f[0] = <<>> /\ \A n \in 1 .. Len(q) :
        f[n] = IF q[n] \in T \cap U THEN Append(f[n - 1], q[n]) ELSE f[n - 1]
  BY <1>2, SelectsAt
<1>5. \A n \in 0 .. Len(q) : g[n] \in Seq(S)
  BY <1>1, SelectsType
<1> DEFINE good == { n \in Nat : n <= Len(q) => Select(g[n], U) = f[n] }
<1>6. 0 \in good
  BY <1>3, <1>4, SelectEmpty
<1>7. ASSUME NEW n \in Nat, n \in good, n + 1 <= Len(q) PROVE Select(g[n + 1], U) = f[n + 1]
  <2>1. /\ n + 1 \in 1 .. Len(q) /\ (n + 1) - 1 = n /\ n \in 0 .. Len(q)
        /\ q[n + 1] \in S /\ Select(g[n], U) = f[n]
    BY <1>7
  <2>2. g[n + 1] = IF q[n + 1] \in T THEN Append(g[n], q[n + 1]) ELSE g[n]
    BY <1>3, <2>1
  <2>3. f[n + 1] = IF q[n + 1] \in T \cap U THEN Append(f[n], q[n + 1]) ELSE f[n]
    BY <1>4, <2>1
  <2>4. Select(Append(g[n], q[n + 1]), U) =
          IF q[n + 1] \in U THEN Append(Select(g[n], U), q[n + 1]) ELSE Select(g[n], U)
    <3>1. PICK r \in Seq(S), x \in S : r = g[n] /\ x = q[n + 1]
      BY <1>5, <2>1
    <3>2. Select(Append(r, x), U) = IF x \in U THEN Append(Select(r, U), x) ELSE Select(r, U)
      BY SelectAppend
    <3> QED
      BY <3>1, <3>2
  <2> QED
    BY <2>1, <2>2, <2>3, <2>4
<1>8. \A n \in Nat : n \in good => n + 1 \in good
  BY <1>7
<1>9. Len(q) \in good
  <2>1. Len(q) \in Nat
    OBVIOUS
  <2> HIDE DEF good
  <2> QED
    BY <1>6, <1>8, <2>1, Climb
<1> QED
  BY <1>1, <1>2, <1>9

\* The elements of r are selected from the first n of q, in their order.
Drawn(r, q, n, T) ==
    /\ \A i \in 1 .. Len(r) : \E k \in 1 .. n : r[i] = q[k] /\ q[k] \in T
    /\ \A i, j \in 1 .. Len(r) : i < j =>
          \E k, l \in 1 .. n : k < l /\ r[i] = q[k] /\ r[j] = q[l]

LEMMA SelectDrawn ==
    ASSUME NEW S, NEW q \in Seq(S), NEW T
    PROVE  Drawn(Select(q, T), q, Len(q), T)
<1>1. PICK g : Selects(q, T, g) /\ Select(q, T) = g[Len(q)]
  BY SelectIs
<1>2. g[0] = <<>> /\ \A n \in 1 .. Len(q) :
        g[n] = IF q[n] \in T THEN Append(g[n - 1], q[n]) ELSE g[n - 1]
  BY <1>1, SelectsAt
<1>3. \A n \in 0 .. Len(q) : g[n] \in Seq(S)
  BY <1>1, SelectsType
<1> DEFINE good == { n \in Nat : n <= Len(q) => Drawn(g[n], q, n, T) }
<1>4. 0 \in good
  <2>1. Len(g[0]) = 0
    BY <1>2
  <2> QED
    BY <2>1 DEF Drawn
<1>5. ASSUME NEW n \in Nat, n \in good, n + 1 <= Len(q)
      PROVE  Drawn(g[n + 1], q, n + 1, T)
  <2>1. /\ n + 1 \in 1 .. Len(q) /\ (n + 1) - 1 = n /\ n \in 0 .. Len(q)
        /\ q[n + 1] \in S /\ Drawn(g[n], q, n, T)
    BY <1>5
  <2>2. g[n + 1] = IF q[n + 1] \in T THEN Append(g[n], q[n + 1]) ELSE g[n]
    BY <1>2, <2>1
  <2>3. PICK r \in Seq(S), x \in S : r = g[n] /\ x = q[n + 1]
    BY <1>3, <2>1
  <2>4. Drawn(r, q, n + 1, T)
    <3>1. \A k \in 1 .. n : k \in 1 .. n + 1
      OBVIOUS
    <3>2. Drawn(r, q, n, T)
      BY <2>1, <2>3
    <3>3. ASSUME NEW i \in 1 .. Len(r)
          PROVE  \E k \in 1 .. n + 1 : r[i] = q[k] /\ q[k] \in T
      BY <3>1, <3>2 DEF Drawn
    <3>4. ASSUME NEW i \in 1 .. Len(r), NEW j \in 1 .. Len(r), i < j
          PROVE  \E k, l \in 1 .. n + 1 : k < l /\ r[i] = q[k] /\ r[j] = q[l]
      BY <3>1, <3>2, <3>4 DEF Drawn
    <3> QED
      BY <3>3, <3>4 DEF Drawn
  <2>5. ASSUME x \in T PROVE Drawn(Append(r, x), q, n + 1, T)
    <3>1. PICK v : v = Append(r, x)
      OBVIOUS
    <3>2. /\ Len(r) \in Nat /\ Len(v) = Len(r) + 1 /\ v[Len(r) + 1] = x
          /\ \A i \in 1 .. Len(r) : v[i] = r[i]
      BY <3>1
    <3>3. ASSUME NEW i \in 1 .. Len(v)
          PROVE  \E k \in 1 .. n + 1 : v[i] = q[k] /\ q[k] \in T
      <4>1. CASE i \in 1 .. Len(r)
        BY <2>4, <3>2, <4>1 DEF Drawn
      <4>2. CASE i = Len(r) + 1
        BY <2>3, <2>5, <3>2, <4>2
      <4> QED
        BY <3>2, <4>1, <4>2
    <3>4. ASSUME NEW i \in 1 .. Len(v), NEW j \in 1 .. Len(v), i < j
          PROVE  \E k, l \in 1 .. n + 1 : k < l /\ v[i] = q[k] /\ v[j] = q[l]
      <4>0. i \in 1 .. Len(r)
        BY <3>2, <3>4
      <4>1. CASE j \in 1 .. Len(r)
        BY <2>4, <3>2, <3>4, <4>0, <4>1 DEF Drawn
      <4>2. CASE j = Len(r) + 1
        <5>1. PICK k \in 1 .. n : r[i] = q[k]
          BY <2>1, <2>3, <4>0 DEF Drawn
        <5>2. k \in 1 .. n + 1 /\ n + 1 \in 1 .. n + 1 /\ k < n + 1
          OBVIOUS
        <5>3. v[i] = q[k] /\ v[j] = q[n + 1]
          BY <2>3, <3>2, <4>0, <4>2, <5>1
        <5> QED
          BY <5>2, <5>3
      <4> QED
        BY <3>2, <4>1, <4>2
    <3>5. Drawn(v, q, n + 1, T)
      BY <3>3, <3>4 DEF Drawn
    <3> QED
      BY <3>1, <3>5
  <2> QED
    BY <2>2, <2>3, <2>4, <2>5
<1>6. \A n \in Nat : n \in good => n + 1 \in good
  BY <1>5
<1>7. Len(q) \in good
  <2>1. Len(q) \in Nat
    OBVIOUS
  <2> HIDE DEF good
  <2> QED
    BY <1>4, <1>6, <2>1, Climb
<1> QED
  BY <1>1, <1>7

\* Two sequences, one after the other.
LEMMA ConcatIs ==
    ASSUME NEW S, NEW p \in Seq(S), NEW q \in Seq(S), NEW w, w = p \o q
    PROVE  /\ w \in Seq(S) /\ Len(w) = Len(p) + Len(q)
           /\ \A j \in 1 .. Len(w) : w[j] = IF j <= Len(p) THEN p[j] ELSE q[j - Len(p)]
<1>1. w \in Seq(S)
  OBVIOUS
<1>2. Len(w) = Len(p) + Len(q)
  OBVIOUS
<1>3. ASSUME NEW j \in 1 .. Len(w) PROVE w[j] = IF j <= Len(p) THEN p[j] ELSE q[j - Len(p)]
  BY <1>2
<1> QED
  BY <1>1, <1>2, <1>3

-----------------------------------------------------------------------------
(* Rankings                                                                *)

\* B has, for each element of S, those that come before it: a total order.
TotalOrder(B, S) ==
    /\ \A x \in S : x \notin B[x]
    /\ \A x, y, z \in S : x \in B[y] /\ y \in B[z] => x \in B[z]
    /\ \A x, y \in S : x = y \/ x \in B[y] \/ y \in B[x]

LEMMA Earlier ==
    ASSUME NEW S, IsFiniteSet(S), NEW B \in [S -> SUBSET S], TotalOrder(B, S),
           NEW m \in S, NEW n \in B[m]
    PROVE  Cardinality(B[n]) < Cardinality(B[m])
<1>1. B[n] \subseteq B[m] /\ n \notin B[n] /\ n \in S
  BY DEF TotalOrder
<1>2. IsFiniteSet(B[m]) /\ IsFiniteSet(B[n])
  BY <1>1, FS_Subset
<1>3. PICK A, C : A = B[n] /\ C = B[m]
  OBVIOUS
<1>4. Cardinality(A) <= Cardinality(C) /\ (Cardinality(C) = Cardinality(A) => C = A)
  BY <1>1, <1>2, <1>3, FS_Subset
<1>5. Cardinality(A) \in Nat /\ Cardinality(C) \in Nat /\ A # C
  BY <1>1, <1>2, <1>3, FS_CardinalityType
<1> QED
  BY <1>3, <1>4, <1>5

\* There is an element at every place.
LEMMA EveryPlace ==
    ASSUME NEW S, IsFiniteSet(S), NEW B \in [S -> SUBSET S], TotalOrder(B, S),
           NEW i \in 1 .. Cardinality(S)
    PROVE  \E m \in S : Cardinality(B[m]) = i - 1
<1> DEFINE place == [m \in S |-> Cardinality(B[m])]
           places == 0 .. Cardinality(S) - 1
<1>0. Cardinality(S) \in Nat
  BY FS_CardinalityType
<1>1. ASSUME NEW m \in S PROVE Cardinality(B[m]) \in places
  <2>1. PICK A : A = B[m]
    OBVIOUS
  <2>2. A \subseteq S /\ m \notin A
    BY <2>1 DEF TotalOrder
  <2>3. IsFiniteSet(A) /\ Cardinality(A) <= Cardinality(S)
        /\ (Cardinality(S) = Cardinality(A) => S = A)
    BY <2>2, FS_Subset
  <2>4. Cardinality(A) \in Nat
    BY <2>3, FS_CardinalityType
  <2>5. S # A
    BY <2>2
  <2> QED
    BY <1>0, <2>1, <2>3, <2>4, <2>5
<1>2. place \in [S -> places]
  BY <1>1
<1>3. ASSUME NEW x \in S, NEW y \in S, place[x] = place[y] PROVE x = y
  <2>1. Cardinality(B[x]) = Cardinality(B[y]) /\ Cardinality(B[x]) \in Nat
    BY <1>0, <1>1, <1>3
  <2>2. ~ (Cardinality(B[x]) < Cardinality(B[y])) /\ ~ (Cardinality(B[y]) < Cardinality(B[x]))
    BY <2>1
  <2>3. x \notin B[y] /\ y \notin B[x]
    BY <2>2, Earlier
  <2> QED
    BY <2>3 DEF TotalOrder
<1> HIDE DEF place
<1>4. place \in Injection(S, places)
  BY <1>2, <1>3 DEF Injection, IsInjective
<1>5. IsFiniteSet(places) /\ Cardinality(places) = Cardinality(S)
  <2>1. 0 \in Int /\ Cardinality(S) - 1 \in Int
    BY <1>0
  <2>2. IsFiniteSet(places)
        /\ Cardinality(places) = IF 0 > Cardinality(S) - 1 THEN 0 ELSE (Cardinality(S) - 1) - 0 + 1
    BY <2>1, FS_Interval
  <2> QED
    BY <1>0, <2>2
<1> HIDE DEF places
<1>6. place \in Surjection(S, places)
  BY <1>4, <1>5, FS_Injection
<1>7. i - 1 \in places
  BY <1>0 DEF places
<1>8. PICK m \in S : place[m] = i - 1
  BY <1>6, <1>7 DEF Surjection
<1> QED
  BY <1>8 DEF place

\* A sequence that has every element at its place is in order.
LEMMA InPlaceOrder ==
    ASSUME NEW S, IsFiniteSet(S), NEW B \in [S -> SUBSET S], TotalOrder(B, S), NEW r,
           \A i \in 1 .. Cardinality(S) : r[i] \in S /\ Cardinality(B[r[i]]) = i - 1
    PROVE  \A i, j \in 1 .. Cardinality(S) : i < j => r[i] \in B[r[j]] /\ r[i] # r[j]
<1> SUFFICES ASSUME NEW i \in 1 .. Cardinality(S), NEW j \in 1 .. Cardinality(S), i < j
             PROVE  r[i] \in B[r[j]] /\ r[i] # r[j]
  OBVIOUS
<1>1. PICK x \in S, y \in S : x = r[i] /\ y = r[j]
  OBVIOUS
<1>2. Cardinality(B[x]) = i - 1 /\ Cardinality(B[y]) = j - 1
  BY <1>1
<1>3. x # y
  BY <1>2
<1>4. y \notin B[x]
  <2>1. ~ (Cardinality(B[y]) < Cardinality(B[x]))
    BY <1>2
  <2> QED
    BY <2>1, Earlier
<1> QED
  BY <1>1, <1>3, <1>4 DEF TotalOrder
=============================================================================
