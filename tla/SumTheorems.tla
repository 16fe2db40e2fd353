----------------------------- MODULE SumTheorems -----------------------------
(***************************************************************************)
(* Facts about SumFunctionOnSet, the sum of f[x] over the members x of a   *)
(* finite set, in which the models write every total the code computes     *)
(* with a SUM query: a wallet's hold, the load on a circuit, what a payout *)
(* draws, what a ledger posts.                                             *)
(*                                                                         *)
(* The library defines the sum by a recursive function over the subsets of *)
(* the set.  That the recursion has a solution at all, and that the sum    *)
(* does not depend on the order in which it takes the members, is shown    *)
(* here by the least counterexample: the induction theorems of the library *)
(* take an operator and cannot be used, but WFMin takes a set.             *)
(***************************************************************************)
EXTENDS Integers, FiniteSetsExt, Functions, FiniteSetTheorems,
        WellFoundedInduction, TLAPS

(* The member the library's fold takes first. *)
First(s) == CHOOSE x \in s : TRUE

(* g is the library's recursive function over a family of sets. *)
IsFold(g, f, D) ==
    g = [s \in D |-> IF s = {} THEN 0 ELSE f[First(s)] + g[s \ {First(s)}]]

(* The subsets of S with at most n members. *)
UpTo(S, n) == {s \in SUBSET S : Cardinality(s) <= n}

(* A set of natural numbers that is not empty has a least member. *)
LEMMA LeastNumber ==
    ASSUME NEW T \in SUBSET Nat, T # {}
    PROVE  \E n \in T : \A m \in T : n <= m
<1> DEFINE R == {ss \in Nat \X Nat : ss[1] < ss[2]}
<1>1. IsWellFoundedOn(R, Nat)
  BY NatLessThanWellFounded, Zenon DEF OpToRel
<1>2. \A m, n \in Nat : m < n => <<m, n>> \in R
  OBVIOUS
<1> HIDE DEF R
<1>3. PICK n \in T : \A m \in T : ~(<<m, n>> \in R)
  BY <1>1, WFMin
<1>4. \A m \in T : ~(m < n)
  BY <1>2, <1>3
<1>5. \A m \in T : n <= m
  BY <1>4
<1> QED BY <1>5

(* A nonempty collection of subsets of a finite set has a minimal member. *)
LEMMA LeastSubset ==
    ASSUME NEW S, IsFiniteSet(S), NEW T \in SUBSET SUBSET S, T # {}
    PROVE  \E s \in T : \A t \in T : t \subseteq s => t = s
<1> DEFINE sizes == {Cardinality(s) : s \in T}
<1>1. \A s \in T : IsFiniteSet(s) /\ Cardinality(s) \in Nat
  BY FS_Subset, FS_CardinalityType
<1>2. sizes \in SUBSET Nat /\ sizes # {}
  BY <1>1
<1>3. PICK n \in sizes : \A m \in sizes : n <= m
  BY <1>2, LeastNumber
<1>4. PICK s \in T : Cardinality(s) = n
  BY <1>3
<1>5. ASSUME NEW t \in T, t \subseteq s PROVE t = s
  <2>1. Cardinality(t) <= Cardinality(s) /\ (Cardinality(s) = Cardinality(t) => s = t)
    BY <1>1, <1>5, FS_Subset
  <2>2. Cardinality(s) <= Cardinality(t)
    BY <1>3, <1>4
  <2> QED BY <2>1, <2>2, <1>1
<1> QED BY <1>4, <1>5

(* The recursion that defines the sum has a solution over the sets of at   *)
(* most n members, for every n.                                            *)
LEMMA FoldsUpTo ==
    ASSUME NEW S, IsFiniteSet(S), NEW f, NEW n \in Nat
    PROVE  \E g : IsFold(g, f, UpTo(S, n))
<1> DEFINE bad == {m \in Nat : ~ \E g : IsFold(g, f, UpTo(S, m))}
<1>1. SUFFICES ASSUME bad # {} PROVE FALSE
  OBVIOUS
<1>2. PICK m \in bad : \A k \in bad : m <= k
  BY <1>1, LeastNumber
<1>3. \A s \in SUBSET S : IsFiniteSet(s) /\ Cardinality(s) \in Nat
  BY FS_Subset, FS_CardinalityType
<1>4. \A s \in SUBSET S : s # {} => /\ First(s) \in s
                                    /\ Cardinality(s \ {First(s)}) = Cardinality(s) - 1
  BY <1>3, FS_RemoveElement DEF First
<1>5. CASE m = 0
  <2> DEFINE g == [s \in UpTo(S, 0) |-> 0]
  <2>1. \A s \in UpTo(S, 0) : s = {}
    BY <1>3, FS_EmptySet DEF UpTo
  <2>2. IsFold(g, f, UpTo(S, 0))
    BY <2>1 DEF IsFold
  <2> QED BY <1>5, <2>2
<1>6. CASE m # 0
  <2>1. m - 1 \in Nat /\ m - 1 \notin bad
    BY <1>2, <1>6
  <2>2. PICK g : IsFold(g, f, UpTo(S, m - 1))
    BY <2>1
  <2> DEFINE Step(s) == IF s = {} THEN 0 ELSE f[First(s)] + g[s \ {First(s)}]
             h == [s \in UpTo(S, m) |-> Step(s)]
  <2>3. \A t \in UpTo(S, m - 1) : t \in UpTo(S, m) /\ h[t] = g[t]
    <3>1. UpTo(S, m - 1) \subseteq UpTo(S, m)
      BY <1>3, <2>1 DEF UpTo
    <3>2. \A t \in UpTo(S, m - 1) : g[t] = Step(t)
      BY <2>2 DEF IsFold
    <3> QED BY <3>1, <3>2
  <2>4. \A s \in UpTo(S, m) : s # {} => s \ {First(s)} \in UpTo(S, m - 1)
    BY <1>3, <1>4, <2>1 DEF UpTo
  <2>5. \A s \in UpTo(S, m) :
            Step(s) = IF s = {} THEN 0 ELSE f[First(s)] + h[s \ {First(s)}]
    BY <2>3, <2>4
  <2>6. h = [s \in UpTo(S, m) |-> IF s = {} THEN 0 ELSE f[First(s)] + h[s \ {First(s)}]]
    <3> HIDE DEF Step
    <3> QED BY <2>5
  <2>7. IsFold(h, f, UpTo(S, m))
    BY <2>6 DEF IsFold
  <2> QED BY <2>7
<1> QED BY <1>5, <1>6

(* The sum is what a solution of the recursion gives. *)
LEMMA SumIsFold ==
    ASSUME NEW S, IsFiniteSet(S), NEW f
    PROVE  \E g : IsFold(g, f, SUBSET S) /\ SumFunctionOnSet(f, S) = g[S]
<1>1. UpTo(S, Cardinality(S)) = SUBSET S
  BY FS_Subset, FS_CardinalityType DEF UpTo
<1>2. PICK g : IsFold(g, f, SUBSET S)
  <2>1. Cardinality(S) \in Nat
    BY FS_CardinalityType
  <2>2. \E g : IsFold(g, f, UpTo(S, Cardinality(S)))
    BY <2>1, FoldsUpTo
  <2> QED
    BY <1>1, <2>2
<1> DEFINE it == CHOOSE h : IsFold(h, f, SUBSET S)
<1>3. IsFold(it, f, SUBSET S)
  BY <1>2
<1>4. SumFunctionOnSet(f, S) = it[S]
  BY DEF SumFunctionOnSet, FoldFunctionOnSet, MapThenFoldSet, IsFold, First
<1> QED BY <1>3, <1>4

(* Two solutions agree on a set whose subsets both are defined on. *)
LEMMA FoldsAgree ==
    ASSUME NEW S, IsFiniteSet(S), NEW f, NEW U \in SUBSET S, NEW g, NEW h,
           IsFold(g, f, SUBSET S), IsFold(h, f, SUBSET U)
    PROVE  g[U] = h[U]
<1> DEFINE bad == {s \in SUBSET U : g[s] # h[s]}
<1>1. SUFFICES ASSUME bad # {} PROVE FALSE
  OBVIOUS
<1>2. PICK s \in bad : \A t \in bad : t \subseteq s => t = s
  <2>1. bad \in SUBSET SUBSET U
    OBVIOUS
  <2> HIDE DEF bad
  <2> QED BY <1>1, <2>1, LeastSubset, FS_Subset
<1>3. g[s] = (IF s = {} THEN 0 ELSE f[First(s)] + g[s \ {First(s)}])
  BY DEF IsFold
<1>4. h[s] = (IF s = {} THEN 0 ELSE f[First(s)] + h[s \ {First(s)}])
  BY DEF IsFold
<1>5. s # {}
  BY <1>3, <1>4
<1>6. First(s) \in s
  BY <1>5 DEF First
<1>7. g[s \ {First(s)}] = h[s \ {First(s)}]
  BY <1>2, <1>6
<1> QED BY <1>3, <1>4, <1>5, <1>7

(* The sum over no member is 0. *)
LEMMA SumEmpty ==
    ASSUME NEW f
    PROVE  SumFunctionOnSet(f, {}) = 0
BY SumIsFold, FS_EmptySet DEF IsFold

(* The sum takes the first member and goes on with the rest. *)
LEMMA SumFirst ==
    ASSUME NEW S, IsFiniteSet(S), NEW f, S # {}
    PROVE  /\ First(S) \in S
           /\ SumFunctionOnSet(f, S) = f[First(S)] + SumFunctionOnSet(f, S \ {First(S)})
<1>1. First(S) \in S
  BY DEF First
<1> DEFINE rest == S \ {First(S)}
<1>2. IsFiniteSet(rest)
  BY FS_RemoveElement
<1>3. PICK g : IsFold(g, f, SUBSET S) /\ SumFunctionOnSet(f, S) = g[S]
  BY SumIsFold
<1>4. PICK h : IsFold(h, f, SUBSET rest) /\ SumFunctionOnSet(f, rest) = h[rest]
  BY <1>2, SumIsFold
<1>5. g[rest] = h[rest]
  <2>1. rest \in SUBSET S
    OBVIOUS
  <2>2. IsFold(g, f, SUBSET S) /\ IsFold(h, f, SUBSET rest)
    BY <1>3, <1>4
  <2> HIDE DEF rest
  <2> QED
    BY <2>1, <2>2, FoldsAgree
<1>6. g[S] = f[First(S)] + g[rest]
  BY <1>3 DEF IsFold
<1> QED BY <1>1, <1>3, <1>4, <1>5, <1>6

(* Two functions that agree on a set have the same sum over it. *)
LEMMA SumSame ==
    ASSUME NEW S, IsFiniteSet(S), NEW f, NEW g, \A x \in S : f[x] = g[x]
    PROVE  SumFunctionOnSet(f, S) = SumFunctionOnSet(g, S)
<1> DEFINE bad == {s \in SUBSET S : SumFunctionOnSet(f, s) # SumFunctionOnSet(g, s)}
<1>1. SUFFICES ASSUME bad # {} PROVE FALSE
  OBVIOUS
<1>2. PICK s \in bad : \A t \in bad : t \subseteq s => t = s
  <2>1. bad \in SUBSET SUBSET S
    OBVIOUS
  <2> HIDE DEF bad
  <2> QED BY <1>1, <2>1, LeastSubset
<1>3. s # {} /\ IsFiniteSet(s)
  <2>1. IsFiniteSet(s)
    BY FS_Subset
  <2> QED BY <2>1, SumEmpty
<1>4. /\ First(s) \in s
      /\ SumFunctionOnSet(f, s) = f[First(s)] + SumFunctionOnSet(f, s \ {First(s)})
      /\ SumFunctionOnSet(g, s) = g[First(s)] + SumFunctionOnSet(g, s \ {First(s)})
  BY <1>3, SumFirst
<1>5. s \ {First(s)} \notin bad
  BY <1>2, <1>4
<1> QED BY <1>4, <1>5

(* The sum of integers is an integer. *)
LEMMA SumInt ==
    ASSUME NEW S, IsFiniteSet(S), NEW f, \A x \in S : f[x] \in Int
    PROVE  SumFunctionOnSet(f, S) \in Int
<1> DEFINE bad == {s \in SUBSET S : SumFunctionOnSet(f, s) \notin Int}
<1>1. SUFFICES ASSUME bad # {} PROVE FALSE
  OBVIOUS
<1>2. PICK s \in bad : \A t \in bad : t \subseteq s => t = s
  <2>1. bad \in SUBSET SUBSET S
    OBVIOUS
  <2> HIDE DEF bad
  <2> QED BY <1>1, <2>1, LeastSubset
<1>3. s # {} /\ IsFiniteSet(s)
  <2>1. IsFiniteSet(s)
    BY FS_Subset
  <2> QED BY <2>1, SumEmpty
<1>4. /\ First(s) \in s
      /\ SumFunctionOnSet(f, s) = f[First(s)] + SumFunctionOnSet(f, s \ {First(s)})
  BY <1>3, SumFirst
<1>5. s \ {First(s)} \notin bad
  BY <1>2, <1>4
<1> QED BY <1>4, <1>5

(* The sum of natural numbers is a natural number. *)
LEMMA SumNat ==
    ASSUME NEW S, IsFiniteSet(S), NEW f, \A x \in S : f[x] \in Nat
    PROVE  SumFunctionOnSet(f, S) \in Nat
<1> DEFINE bad == {s \in SUBSET S : SumFunctionOnSet(f, s) \notin Nat}
<1>1. SUFFICES ASSUME bad # {} PROVE FALSE
  OBVIOUS
<1>2. PICK s \in bad : \A t \in bad : t \subseteq s => t = s
  <2>1. bad \in SUBSET SUBSET S
    OBVIOUS
  <2> HIDE DEF bad
  <2> QED BY <1>1, <2>1, LeastSubset
<1>3. s # {} /\ IsFiniteSet(s)
  <2>1. IsFiniteSet(s)
    BY FS_Subset
  <2> QED BY <2>1, SumEmpty
<1>4. /\ First(s) \in s
      /\ SumFunctionOnSet(f, s) = f[First(s)] + SumFunctionOnSet(f, s \ {First(s)})
  BY <1>3, SumFirst
<1>5. s \ {First(s)} \notin bad
  BY <1>2, <1>4
<1> QED BY <1>4, <1>5

(* Any member may be taken first: the sum does not depend on the order. *)
LEMMA SumRemove ==
    ASSUME NEW S, IsFiniteSet(S), NEW f, \A x \in S : f[x] \in Int, NEW y \in S
    PROVE  SumFunctionOnSet(f, S) = f[y] + SumFunctionOnSet(f, S \ {y})
<1> DEFINE Sum(s) == SumFunctionOnSet(f, s)
           bad == {s \in SUBSET S : \E x \in s : Sum(s) # f[x] + Sum(s \ {x})}
<1>1. SUFFICES ASSUME bad # {} PROVE FALSE
  OBVIOUS
<1>2. PICK s \in bad : \A t \in bad : t \subseteq s => t = s
  <2>1. bad \in SUBSET SUBSET S
    OBVIOUS
  <2> HIDE DEF bad
  <2> QED BY <1>1, <2>1, LeastSubset
<1>3. PICK x \in s : Sum(s) # f[x] + Sum(s \ {x})
  BY <1>2
<1>4. \A t \in SUBSET S : IsFiniteSet(t) /\ Sum(t) \in Int
  BY FS_Subset, SumInt
<1>5. First(s) \in s /\ Sum(s) = f[First(s)] + Sum(s \ {First(s)})
  BY <1>4, SumFirst
<1> DEFINE z == First(s)
<1>6. x # z
  BY <1>3, <1>5
<1>7. s \ {z} \notin bad /\ s \ {x} \notin bad
  BY <1>2, <1>5
<1>8. Sum(s \ {z}) = f[x] + Sum((s \ {z}) \ {x})
  BY <1>6, <1>7
<1>9. Sum(s \ {x}) = f[z] + Sum((s \ {x}) \ {z})
  BY <1>5, <1>6, <1>7
<1>10. (s \ {x}) \ {z} = (s \ {z}) \ {x}
  OBVIOUS
<1>11. Sum((s \ {z}) \ {x}) \in Int /\ f[x] \in Int /\ f[z] \in Int
  BY <1>4, <1>5
<1> HIDE DEF Sum, z
<1>12. Sum(s) = f[z] + (f[x] + Sum((s \ {z}) \ {x}))
  BY <1>5, <1>8 DEF z
<1>13. f[x] + Sum(s \ {x}) = f[x] + (f[z] + Sum((s \ {z}) \ {x}))
  BY <1>9, <1>10
<1> QED BY <1>3, <1>11, <1>12, <1>13

(* One more member adds its value. *)
LEMMA SumAdd ==
    ASSUME NEW S, IsFiniteSet(S), NEW y, y \notin S,
           NEW f, f[y] \in Int, \A x \in S : f[x] \in Int
    PROVE  SumFunctionOnSet(f, S \cup {y}) = f[y] + SumFunctionOnSet(f, S)
<1>1. IsFiniteSet(S \cup {y}) /\ (S \cup {y}) \ {y} = S
  BY FS_AddElement
<1>2. \A x \in S \cup {y} : f[x] \in Int
  OBVIOUS
<1> QED BY <1>1, <1>2, SumRemove

(* A sum over one member is its value. *)
LEMMA SumOne ==
    ASSUME NEW f, NEW y, f[y] \in Int
    PROVE  SumFunctionOnSet(f, {y}) = f[y]
<1>1. SumFunctionOnSet(f, {} \cup {y}) = f[y] + SumFunctionOnSet(f, {})
  BY FS_EmptySet, SumAdd
<1>2. {} \cup {y} = {y}
  OBVIOUS
<1> QED BY <1>1, <1>2, SumEmpty

(* Changing the value of one member changes the sum by the difference. *)
LEMMA SumChange ==
    ASSUME NEW S, IsFiniteSet(S), NEW y \in S, NEW f, NEW g,
           \A x \in S : f[x] \in Int, g[y] \in Int,
           \A x \in S \ {y} : g[x] = f[x]
    PROVE  SumFunctionOnSet(g, S) = SumFunctionOnSet(f, S) - f[y] + g[y]
<1>1. IsFiniteSet(S \ {y})
  BY FS_RemoveElement
<1>2. SumFunctionOnSet(f, S \ {y}) = SumFunctionOnSet(g, S \ {y})
  BY <1>1, SumSame
<1>3. \A x \in S : g[x] \in Int
  OBVIOUS
<1>4. SumFunctionOnSet(f, S) = f[y] + SumFunctionOnSet(f, S \ {y})
  BY SumRemove
<1>5. SumFunctionOnSet(g, S) = g[y] + SumFunctionOnSet(g, S \ {y})
  BY <1>3, SumRemove
<1>6. SumFunctionOnSet(f, S \ {y}) \in Int
  BY <1>1, SumInt
<1> QED BY <1>2, <1>4, <1>5, <1>6

(* The sum over two disjoint sets is the sum of the two sums. *)
LEMMA SumUnion ==
    ASSUME NEW S, IsFiniteSet(S), NEW T, IsFiniteSet(T), S \cap T = {},
           NEW f, \A x \in S \cup T : f[x] \in Int
    PROVE  SumFunctionOnSet(f, S \cup T) = SumFunctionOnSet(f, S) + SumFunctionOnSet(f, T)
<1> DEFINE Sum(s) == SumFunctionOnSet(f, s)
           bad == {t \in SUBSET T : Sum(S \cup t) # Sum(S) + Sum(t)}
<1>1. SUFFICES ASSUME bad # {} PROVE FALSE
  OBVIOUS
<1>2. PICK t \in bad : \A u \in bad : u \subseteq t => u = t
  <2>1. bad \in SUBSET SUBSET T
    OBVIOUS
  <2> HIDE DEF bad
  <2> QED BY <1>1, <2>1, LeastSubset
<1>3. \A u \in SUBSET (S \cup T) : IsFiniteSet(u) /\ Sum(u) \in Int
  BY FS_Union, FS_Subset, SumInt
<1>4. t # {}
  <2>1. S \cup {} = S
    OBVIOUS
  <2>2. Sum({}) = 0 /\ Sum(S) \in Int
    BY <1>3, SumEmpty
  <2>3. Sum(S \cup t) # Sum(S) + Sum(t)
    BY <1>2
  <2> HIDE DEF Sum, bad
  <2> QED BY <2>1, <2>2, <2>3
<1>5. PICK x \in t : TRUE
  BY <1>4
<1>6. Sum(t) = f[x] + Sum(t \ {x})
  BY <1>3, SumRemove
<1>7. Sum(S \cup t) = f[x] + Sum((S \cup t) \ {x})
  BY <1>3, SumRemove
<1>8. (S \cup t) \ {x} = S \cup (t \ {x})
  OBVIOUS
<1>9. Sum(S \cup (t \ {x})) = Sum(S) + Sum(t \ {x})
  BY <1>2
<1>10. f[x] \in Int /\ Sum(S) \in Int /\ Sum(t \ {x}) \in Int
  BY <1>3
<1>11. Sum(S \cup t) # Sum(S) + Sum(t)
  BY <1>2
<1>12. Sum(S \cup t) = f[x] + (Sum(S) + Sum(t \ {x}))
  BY <1>7, <1>8, <1>9
<1> HIDE DEF Sum, bad
<1> QED BY <1>6, <1>10, <1>11, <1>12

(* Of natural numbers, a subset sums to no more than the whole set. *)
LEMMA SumSubset ==
    ASSUME NEW S, IsFiniteSet(S), NEW T \in SUBSET S, NEW f, \A x \in S : f[x] \in Nat
    PROVE  SumFunctionOnSet(f, T) <= SumFunctionOnSet(f, S)
<1>1. IsFiniteSet(T) /\ IsFiniteSet(S \ T) /\ T \cup (S \ T) = S
  BY FS_Subset
<1>2. SumFunctionOnSet(f, T \cup (S \ T)) = SumFunctionOnSet(f, T) + SumFunctionOnSet(f, S \ T)
  BY <1>1, SumUnion
<1>3. SumFunctionOnSet(f, T) \in Nat /\ SumFunctionOnSet(f, S \ T) \in Nat
  BY <1>1, SumNat
<1>4. SumFunctionOnSet(f, S) = SumFunctionOnSet(f, T) + SumFunctionOnSet(f, S \ T)
  BY <1>1, <1>2
<1> QED BY <1>3, <1>4

(* Smaller values have the smaller sum. *)
LEMMA SumMonotone ==
    ASSUME NEW S, IsFiniteSet(S), NEW f, NEW g,
           \A x \in S : f[x] \in Int /\ g[x] \in Int /\ f[x] <= g[x]
    PROVE  SumFunctionOnSet(f, S) <= SumFunctionOnSet(g, S)
<1> DEFINE bad == {s \in SUBSET S : ~(SumFunctionOnSet(f, s) <= SumFunctionOnSet(g, s))}
<1>1. SUFFICES ASSUME bad # {} PROVE FALSE
  OBVIOUS
<1>2. PICK s \in bad : \A t \in bad : t \subseteq s => t = s
  <2>1. bad \in SUBSET SUBSET S
    OBVIOUS
  <2> HIDE DEF bad
  <2> QED BY <1>1, <2>1, LeastSubset
<1>3. s # {}
  BY <1>2, SumEmpty
<1>4. PICK x \in s : TRUE
  BY <1>3
<1>5. IsFiniteSet(s) /\ IsFiniteSet(s \ {x})
  BY FS_Subset
<1>6. SumFunctionOnSet(f, s) = f[x] + SumFunctionOnSet(f, s \ {x})
  BY <1>5, SumRemove
<1>7. SumFunctionOnSet(g, s) = g[x] + SumFunctionOnSet(g, s \ {x})
  BY <1>5, SumRemove
<1>8. SumFunctionOnSet(f, s \ {x}) \in Int /\ SumFunctionOnSet(g, s \ {x}) \in Int
  BY <1>5, SumInt
<1>9. s \ {x} \notin bad
  BY <1>2, <1>4
<1> QED BY <1>2, <1>6, <1>7, <1>8, <1>9

(* A sum of zeros is zero. *)
LEMMA SumZero ==
    ASSUME NEW S, IsFiniteSet(S), NEW f, \A x \in S : f[x] = 0
    PROVE  SumFunctionOnSet(f, S) = 0
<1> DEFINE bad == {s \in SUBSET S : SumFunctionOnSet(f, s) # 0}
<1>1. SUFFICES ASSUME bad # {} PROVE FALSE
  OBVIOUS
<1>2. PICK s \in bad : \A t \in bad : t \subseteq s => t = s
  <2>1. bad \in SUBSET SUBSET S
    OBVIOUS
  <2> HIDE DEF bad
  <2> QED BY <1>1, <2>1, LeastSubset
<1>3. s # {} /\ IsFiniteSet(s)
  <2>1. IsFiniteSet(s)
    BY FS_Subset
  <2> QED BY <2>1, SumEmpty
<1>4. /\ First(s) \in s
      /\ SumFunctionOnSet(f, s) = f[First(s)] + SumFunctionOnSet(f, s \ {First(s)})
  BY <1>3, SumFirst
<1>5. SumFunctionOnSet(f, s \ {First(s)}) = 0
  BY <1>2, <1>4
<1> QED BY <1>4, <1>5
=============================================================================
