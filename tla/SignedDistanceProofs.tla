------------------------ MODULE SignedDistanceProofs ------------------------
(***************************************************************************)
(* Proofs about SignedDistance for every mesh, every division of its cells *)
(* among any number of ranks, all level sets and all volume corrections.   *)
(***************************************************************************)
EXTENDS SignedDistance, FiniteSetTheorems, WellFoundedInduction, TLAPS

-----------------------------------------------------------------------------
(* Every set of natural numbers has a least one.                           *)
LEMMA LeastNat ==
  ASSUME NEW S \in SUBSET Nat, S # {}
  PROVE \E n \in S : \A m \in S : n <= m
<1>1. PICK x \in S : \A y \in S : ~(<<y, x>> \in OpToRel(<, Nat))
  BY NatLessThanWellFounded, WFMin
<1>2. \A y \in S : ~(y < x)
  BY <1>1 DEF OpToRel
<1>3. \A y \in S : x \in Nat /\ y \in Nat /\ ~(y < x)
  BY <1>2
<1>4. QED
  BY <1>3

(* Sums over sets of cells, ranks and nodes: SumFunctionOnSet is a fold,   *)
(* a function that is chosen by its recursive equation.                    *)
Chosen(s) == CHOOSE x \in s : TRUE

Sums(f, S, g) ==
  g = [s \in S |-> IF s = {} THEN 0 ELSE f[Chosen(s)] + g[s \ {Chosen(s)}]]

LEMMA TotalIsSum ==
  ASSUME NEW f, NEW S
  PROVE SumFunctionOnSet(f, S) = (CHOOSE g : Sums(f, SUBSET S, g))[S]
BY DEF SumFunctionOnSet, FoldFunctionOnSet, MapThenFoldSet, Sums, Chosen

LEMMA ChosenFacts ==
  ASSUME NEW s, IsFiniteSet(s), s # {}
  PROVE /\ Chosen(s) \in s /\ IsFiniteSet(s \ {Chosen(s)}) /\ s \ {Chosen(s)} \in SUBSET s
        /\ Cardinality(s) \in Nat /\ Cardinality(s) > 0
        /\ Cardinality(s \ {Chosen(s)}) = Cardinality(s) - 1
<1>1. Chosen(s) \in s
  BY DEF Chosen
<1> HIDE DEF Chosen
<1>2. Cardinality(s \ {Chosen(s)}) = Cardinality(s) - 1 /\ IsFiniteSet(s \ {Chosen(s)})
  BY <1>1, FS_RemoveElement
<1>3. Cardinality(s) \in Nat /\ Cardinality(s) # 0
  BY FS_CardinalityType, FS_EmptySet
<1>4. QED
  BY <1>1, <1>2, <1>3

(* The parts of a set with up to k elements.                               *)
UpTo(S, k) == {s \in SUBSET S : Cardinality(s) <= k}

LEMMA SumsExist ==
  ASSUME NEW f, NEW S, IsFiniteSet(S)
  PROVE \E g : Sums(f, SUBSET S, g)
<1> DEFINE Bad == {k \in Nat : ~ \E g : Sums(f, UpTo(S, k), g)}
<1>0. \A s \in SUBSET S : IsFiniteSet(s) /\ Cardinality(s) \in Nat /\ Cardinality(s) <= Cardinality(S)
  BY FS_Subset, FS_CardinalityType
<1>1. ASSUME Bad # {} PROVE FALSE
  <2>1. PICK k \in Bad : \A j \in Bad : k <= j
    BY <1>1, LeastNat
  <2>2. k # 0
    <3>1. UpTo(S, 0) = {{}}
      <4>1. \A s \in SUBSET S : Cardinality(s) <= 0 <=> s = {}
        BY <1>0, FS_EmptySet
      <4>2. QED
        BY <4>1 DEF UpTo
    <3>2. Sums(f, UpTo(S, 0), [s \in UpTo(S, 0) |-> 0])
      BY <3>1 DEF Sums
    <3>3. QED
      BY <3>2
  <2>3. k \in Nat /\ k - 1 \in Nat /\ ~(k <= k - 1)
    BY <2>2
  <2>4. PICK g : Sums(f, UpTo(S, k - 1), g)
    BY <2>1, <2>3
  <2> DEFINE next(s) == IF s = {} THEN 0 ELSE f[Chosen(s)] + g[s \ {Chosen(s)}]
             h == [s \in UpTo(S, k) |-> next(s)]
  <2>5. ASSUME NEW s \in UpTo(S, k), s # {}
        PROVE s \ {Chosen(s)} \in UpTo(S, k - 1) /\ s \ {Chosen(s)} \in UpTo(S, k)
    <3>1. s \in SUBSET S /\ IsFiniteSet(s) /\ Cardinality(s) <= k
      BY <1>0 DEF UpTo
    <3>2. /\ s \ {Chosen(s)} \in SUBSET S /\ Cardinality(s) \in Nat
          /\ Cardinality(s \ {Chosen(s)}) = Cardinality(s) - 1
      BY <2>5, <3>1, ChosenFacts
    <3>3. QED
      BY <2>3, <3>1, <3>2 DEF UpTo
  <2>6. ASSUME NEW s \in UpTo(S, k - 1) PROVE g[s] = next(s) /\ s \in UpTo(S, k)
    <3>1. g[s] = next(s)
      BY <2>4 DEF Sums
    <3>2. Cardinality(s) \in Nat /\ Cardinality(s) <= k - 1 /\ s \in SUBSET S
      BY <1>0 DEF UpTo
    <3>3. QED
      BY <2>3, <3>1, <3>2 DEF UpTo
  <2>7. ASSUME NEW s \in UpTo(S, k)
        PROVE h[s] = IF s = {} THEN 0 ELSE f[Chosen(s)] + h[s \ {Chosen(s)}]
    <3>1. h[s] = next(s)
      OBVIOUS
    <3>2. s # {} => h[s \ {Chosen(s)}] = next(s \ {Chosen(s)})
      BY <2>5
    <3>3. s # {} => g[s \ {Chosen(s)}] = next(s \ {Chosen(s)})
      BY <2>5, <2>6
    <3> HIDE DEF h
    <3>4. QED
      BY <3>1, <3>2, <3>3
  <2>8. h = [s \in UpTo(S, k) |-> h[s]]
    OBVIOUS
  <2> HIDE DEF h
  <2>9. Sums(f, UpTo(S, k), h)
    BY <2>7, <2>8 DEF Sums
  <2>10. QED
    BY <2>1, <2>9
<1>2. Cardinality(S) \in Nat /\ UpTo(S, Cardinality(S)) = SUBSET S
  BY <1>0 DEF UpTo
<1>3. Cardinality(S) \notin Bad
  BY <1>1
<1>4. \E g : Sums(f, UpTo(S, Cardinality(S)), g)
  BY <1>2, <1>3
<1>5. QED
  BY <1>2, <1>4

(* All sums of the same set are the same. *)
LEMMA SumsAgree ==
  ASSUME NEW f, NEW S, NEW s \in SUBSET S, IsFiniteSet(s),
         NEW g, NEW h, Sums(f, SUBSET S, g), Sums(f, SUBSET s, h)
  PROVE g[s] = h[s]
<1> DEFINE Differs(k) == \E x \in SUBSET s : IsFiniteSet(x) /\ Cardinality(x) = k /\ g[x] # h[x]
           Bad == {k \in Nat : Differs(k)}
<1>1. ASSUME Bad # {} PROVE FALSE
  <2>1. PICK k \in Bad : \A j \in Bad : k <= j
    BY <1>1, LeastNat
  <2>2. PICK x \in SUBSET s : IsFiniteSet(x) /\ Cardinality(x) = k /\ g[x] # h[x]
    BY <2>1
  <2>3. x \in SUBSET S /\ x \in SUBSET s
    BY <2>2
  <2>4. /\ g[x] = IF x = {} THEN 0 ELSE f[Chosen(x)] + g[x \ {Chosen(x)}]
        /\ h[x] = IF x = {} THEN 0 ELSE f[Chosen(x)] + h[x \ {Chosen(x)}]
    BY <2>3 DEF Sums
  <2>5. x # {} /\ g[x \ {Chosen(x)}] # h[x \ {Chosen(x)}]
    BY <2>2, <2>4
  <2>6. /\ x \ {Chosen(x)} \in SUBSET s /\ IsFiniteSet(x \ {Chosen(x)})
        /\ Cardinality(x \ {Chosen(x)}) = k - 1 /\ k \in Nat /\ k > 0
    BY <2>2, <2>5, ChosenFacts
  <2>7. k - 1 \in Nat /\ ~(k <= k - 1)
    BY <2>6
  <2>8. k - 1 \in Bad
    BY <2>5, <2>6, <2>7
  <2>9. QED
    BY <2>1, <2>7, <2>8
<1>2. Cardinality(s) \in Nat
  BY FS_CardinalityType
<1>3. QED
  BY <1>1, <1>2

LEMMA SumIsOne ==
  ASSUME NEW f, NEW S, IsFiniteSet(S)
  PROVE \E g : Sums(f, SUBSET S, g) /\ SumFunctionOnSet(f, S) = g[S]
BY SumsExist, TotalIsSum

LEMMA TotalOf ==
  ASSUME NEW f, NEW S, IsFiniteSet(S)
  PROVE /\ S = {} => SumFunctionOnSet(f, S) = 0
        /\ S # {} => SumFunctionOnSet(f, S) = f[Chosen(S)] + SumFunctionOnSet(f, S \ {Chosen(S)})
<1>1. PICK g : Sums(f, SUBSET S, g) /\ SumFunctionOnSet(f, S) = g[S]
  BY SumIsOne
<1>2. g[S] = IF S = {} THEN 0 ELSE f[Chosen(S)] + g[S \ {Chosen(S)}]
  BY <1>1 DEF Sums
<1>3. PICK T : T = S \ {Chosen(S)}
  OBVIOUS
<1>4. IsFiniteSet(T) /\ T \in SUBSET S
  BY <1>3, FS_RemoveElement
<1>5. PICK h : Sums(f, SUBSET T, h) /\ SumFunctionOnSet(f, T) = h[T]
  BY <1>4, SumIsOne
<1>6. g[T] = h[T]
  BY <1>1, <1>4, <1>5, SumsAgree
<1>7. QED
  BY <1>1, <1>2, <1>3, <1>5, <1>6


(* A family of subsets of a finite set has one no other is a part of.      *)
LEMMA SmallestSubset ==
  ASSUME NEW S, IsFiniteSet(S), NEW B \in SUBSET (SUBSET S), B # {}
  PROVE \E s \in B : IsFiniteSet(s) /\ \A t \in SUBSET s : t # s => t \notin B
<1>1. \A s \in SUBSET S : IsFiniteSet(s) /\ Cardinality(s) \in Nat
  BY FS_Subset, FS_CardinalityType
<1>2. PICK sizes : sizes = {Cardinality(s) : s \in B}
  OBVIOUS
<1>3. sizes \in SUBSET Nat /\ sizes # {}
  BY <1>1, <1>2
<1>4. PICK k \in sizes : \A m \in sizes : k <= m
  BY <1>3, LeastNat
<1>5. PICK s \in B : Cardinality(s) = k
  BY <1>2, <1>4
<1>6. ASSUME NEW t \in SUBSET s, t # s PROVE t \notin B
  <2>1. t \in B => k <= Cardinality(t)
    BY <1>2, <1>4
  <2>2. IsFiniteSet(s) /\ Cardinality(s) \in Nat /\ Cardinality(t) \in Nat
    BY <1>1
  <2>3. Cardinality(t) <= Cardinality(s) /\ (Cardinality(t) = Cardinality(s) => t = s)
    BY <2>2, FS_Subset
  <2>4. QED
    BY <1>5, <1>6, <2>1, <2>2, <2>3
<1>7. QED
  BY <1>1, <1>5, <1>6

LEMMA SumType ==
  ASSUME NEW f, NEW S, IsFiniteSet(S), \A x \in S : f[x] \in Int
  PROVE SumFunctionOnSet(f, S) \in Int
<1>1. PICK B : B = {s \in SUBSET S : SumFunctionOnSet(f, s) \notin Int}
  OBVIOUS
<1>2. ASSUME B # {} PROVE FALSE
  <2>0. B \in SUBSET (SUBSET S)
    BY <1>1
  <2>1. PICK s \in B : IsFiniteSet(s) /\ \A t \in SUBSET s : t # s => t \notin B
    BY <1>2, <2>0, SmallestSubset
  <2>2. s # {}
    <3>1. s = {} => SumFunctionOnSet(f, s) = 0
      BY <2>1, TotalOf
    <3>2. QED
      BY <1>1, <3>1
  <2>3. /\ Chosen(s) \in s /\ s \ {Chosen(s)} \in SUBSET s
        /\ SumFunctionOnSet(f, s) = f[Chosen(s)] + SumFunctionOnSet(f, s \ {Chosen(s)})
    BY <2>1, <2>2, TotalOf, ChosenFacts
  <2>4. s \ {Chosen(s)} \notin B /\ s \ {Chosen(s)} \in SUBSET S /\ f[Chosen(s)] \in Int
    BY <1>1, <2>1, <2>3
  <2>5. QED
    BY <1>1, <2>3, <2>4
<1>3. QED
  BY <1>1, <1>2

(* The order does not matter: any element may be taken out first.          *)
LEMMA SumWithout ==
  ASSUME NEW f, NEW S, IsFiniteSet(S), \A x \in S : f[x] \in Int, NEW y \in S
  PROVE SumFunctionOnSet(f, S) = f[y] + SumFunctionOnSet(f, S \ {y})
<1>1. PICK B : B = {s \in SUBSET S : \E z \in s :
                      SumFunctionOnSet(f, s) # f[z] + SumFunctionOnSet(f, s \ {z})}
  OBVIOUS
<1>2. ASSUME B # {} PROVE FALSE
  <2>0. B \in SUBSET (SUBSET S)
    BY <1>1
  <2>1. PICK s \in B : IsFiniteSet(s) /\ \A t \in SUBSET s : t # s => t \notin B
    BY <1>2, <2>0, SmallestSubset
  <2>2. s \in SUBSET S
    BY <1>1
  <2>3. PICK z \in s : SumFunctionOnSet(f, s) # f[z] + SumFunctionOnSet(f, s \ {z})
    BY <1>1
  <2>4. PICK x : x = Chosen(s)
    OBVIOUS
  <2>5. x \in s /\ SumFunctionOnSet(f, s) = f[x] + SumFunctionOnSet(f, s \ {x})
    BY <2>1, <2>3, <2>4, TotalOf, ChosenFacts
  <2>6. x # z
    BY <2>3, <2>5
  <2>7. s \ {x} \notin B /\ s \ {z} \notin B /\ s \ {x} \in SUBSET S /\ s \ {z} \in SUBSET S
    BY <2>1, <2>2, <2>3, <2>5
  <2>8. SumFunctionOnSet(f, s \ {x}) = f[z] + SumFunctionOnSet(f, (s \ {x}) \ {z})
    BY <1>1, <2>3, <2>6, <2>7
  <2>9. SumFunctionOnSet(f, s \ {z}) = f[x] + SumFunctionOnSet(f, (s \ {z}) \ {x})
    BY <1>1, <2>5, <2>6, <2>7
  <2>10. PICK rest : rest = (s \ {x}) \ {z} /\ rest = (s \ {z}) \ {x}
    OBVIOUS
  <2>11. SumFunctionOnSet(f, rest) \in Int
    <3>1. IsFiniteSet(rest) /\ rest \in SUBSET S
      BY <2>1, <2>2, <2>10, FS_Subset
    <3>2. QED
      BY <3>1, SumType
  <2>12. f[x] \in Int /\ f[z] \in Int
    BY <2>2, <2>5
  <2>13. /\ SumFunctionOnSet(f, s) = f[x] + (f[z] + SumFunctionOnSet(f, rest))
         /\ SumFunctionOnSet(f, s \ {z}) = f[x] + SumFunctionOnSet(f, rest)
    BY <2>5, <2>8, <2>9, <2>10
  <2>14. SumFunctionOnSet(f, s) = f[z] + SumFunctionOnSet(f, s \ {z})
    BY <2>11, <2>12, <2>13
  <2>15. QED
    BY <2>3, <2>14
<1>3. QED
  BY <1>1, <1>2

(* A sum is that over a part and that over the rest.                       *)
LEMMA SumSplits ==
  ASSUME NEW f, NEW S, IsFiniteSet(S), \A x \in S : f[x] \in Int, NEW A \in SUBSET S
  PROVE SumFunctionOnSet(f, S) = SumFunctionOnSet(f, A) + SumFunctionOnSet(f, S \ A)
<1>1. PICK B : B = {s \in SUBSET S : SumFunctionOnSet(f, s) #
                      SumFunctionOnSet(f, s \cap A) + SumFunctionOnSet(f, s \ A)}
  OBVIOUS
<1>2. ASSUME B # {} PROVE FALSE
  <2>0. B \in SUBSET (SUBSET S)
    BY <1>1
  <2>1. PICK s \in B : IsFiniteSet(s) /\ \A t \in SUBSET s : t # s => t \notin B
    BY <1>2, <2>0, SmallestSubset
  <2>2. s \in SUBSET S
    BY <1>1
  <2>3. s # {}
    <3>1. CASE s = {}
      <4>1. s \cap A = {} /\ s \ A = {} /\ SumFunctionOnSet(f, {}) = 0
        BY <3>1, TotalOf, FS_EmptySet
      <4>2. QED
        BY <1>1, <3>1, <4>1
    <3>2. QED
      BY <3>1
  <2>4. PICK y \in s : TRUE
    BY <2>3
  <2>5. PICK t : t = s \ {y}
    OBVIOUS
  <2>6. SumFunctionOnSet(f, s) = f[y] + SumFunctionOnSet(f, t)
    BY <2>1, <2>2, <2>5, SumWithout
  <2>7. SumFunctionOnSet(f, t) = SumFunctionOnSet(f, t \cap A) + SumFunctionOnSet(f, t \ A)
    BY <1>1, <2>1, <2>2, <2>5
  <2>8. /\ IsFiniteSet(s \cap A) /\ s \cap A \in SUBSET S
        /\ IsFiniteSet(s \ A) /\ s \ A \in SUBSET S
        /\ IsFiniteSet(t \cap A) /\ t \cap A \in SUBSET S
        /\ IsFiniteSet(t \ A) /\ t \ A \in SUBSET S
    BY <2>1, <2>2, <2>5, FS_Subset
  <2>9. /\ SumFunctionOnSet(f, t \cap A) \in Int /\ SumFunctionOnSet(f, t \ A) \in Int
        /\ f[y] \in Int
    BY <2>2, <2>8, SumType
  <2>10. CASE y \in A
    <3>1. t \cap A = (s \cap A) \ {y} /\ t \ A = s \ A
      BY <2>5, <2>10
    <3>2. SumFunctionOnSet(f, s \cap A) = f[y] + SumFunctionOnSet(f, t \cap A)
      BY <2>8, <2>10, <3>1, SumWithout
    <3>3. SumFunctionOnSet(f, s) = SumFunctionOnSet(f, s \cap A) + SumFunctionOnSet(f, t \ A)
      BY <2>6, <2>7, <2>9, <3>2
    <3>4. QED
      BY <1>1, <3>1, <3>3
  <2>11. CASE y \notin A
    <3>1. t \ A = (s \ A) \ {y} /\ t \cap A = s \cap A
      BY <2>5, <2>11
    <3>2. SumFunctionOnSet(f, s \ A) = f[y] + SumFunctionOnSet(f, t \ A)
      BY <2>8, <2>11, <3>1, SumWithout
    <3>3. SumFunctionOnSet(f, s) = SumFunctionOnSet(f, t \cap A) + SumFunctionOnSet(f, s \ A)
      BY <2>6, <2>7, <2>9, <3>2
    <3>4. QED
      BY <1>1, <3>1, <3>3
  <2>12. QED
    BY <2>10, <2>11
<1>3. S \notin B /\ S \cap A = A
  BY <1>2
<1>4. QED
  BY <1>1, <1>3

(* The sum over all cells is the sum over the ranks of those over theirs.  *)
LEMMA SumByParts ==
  ASSUME NEW f, NEW C, IsFiniteSet(C), \A c \in C : f[c] \in Int,
         NEW Q, IsFiniteSet(Q), NEW p, \A c \in C : p[c] \in Q,
         NEW g, \A q \in Q : g[q] = SumFunctionOnSet(f, {c \in C : p[c] = q})
  PROVE SumFunctionOnSet(g, Q) = SumFunctionOnSet(f, C)
<1> DEFINE In(R) == {c \in C : p[c] \in R}
<1>0. \A D \in SUBSET C : IsFiniteSet(D) /\ SumFunctionOnSet(f, D) \in Int
  <2>1. ASSUME NEW D \in SUBSET C PROVE IsFiniteSet(D) /\ SumFunctionOnSet(f, D) \in Int
    <3>1. IsFiniteSet(D) /\ \A c \in D : f[c] \in Int
      BY FS_Subset
    <3>2. QED
      BY <3>1, SumType
  <2>2. QED
    BY <2>1
<1>1. PICK B : B = {R \in SUBSET Q : SumFunctionOnSet(g, R) # SumFunctionOnSet(f, In(R))}
  OBVIOUS
<1>2. ASSUME B # {} PROVE FALSE
  <2>0. B \in SUBSET (SUBSET Q)
    BY <1>1
  <2>1. PICK R \in B : IsFiniteSet(R) /\ \A t \in SUBSET R : t # R => t \notin B
    BY <1>2, <2>0, SmallestSubset
  <2>2. R \in SUBSET Q
    BY <1>1
  <2>3. R # {}
    <3>1. CASE R = {}
      <4>1. In(R) = {} /\ SumFunctionOnSet(f, {}) = 0 /\ SumFunctionOnSet(g, {}) = 0
        BY <3>1, TotalOf, FS_EmptySet
      <4>2. QED
        BY <1>1, <3>1, <4>1
    <3>2. QED
      BY <3>1
  <2>4. PICK q \in R : TRUE
    BY <2>3
  <2>5. PICK T : T = R \ {q}
    OBVIOUS
  <2>6. \A x \in R : g[x] \in Int
    <3>1. ASSUME NEW x \in R PROVE g[x] \in Int
      <4>1. {c \in C : p[c] = x} \in SUBSET C /\ x \in Q
        BY <2>2
      <4>2. QED
        BY <1>0, <4>1
    <3>2. QED
      BY <3>1
  <2>7. SumFunctionOnSet(g, R) = g[q] + SumFunctionOnSet(g, T)
    BY <2>1, <2>5, <2>6, SumWithout
  <2>8. SumFunctionOnSet(g, T) = SumFunctionOnSet(f, In(T))
    BY <1>1, <2>1, <2>2, <2>5
  <2>9. PICK D : D = {c \in C : p[c] = q}
    OBVIOUS
  <2>10. /\ D \in SUBSET In(R) /\ In(R) \ D = In(T)
    BY <2>4, <2>5, <2>9
  <2>11. /\ IsFiniteSet(In(R)) /\ \A c \in In(R) : f[c] \in Int
    BY <1>0
  <2>12. SumFunctionOnSet(f, In(R)) = SumFunctionOnSet(f, D) + SumFunctionOnSet(f, In(R) \ D)
    <3> HIDE DEF In
    <3>1. QED
      BY <2>10, <2>11, SumSplits
  <2>13. g[q] = SumFunctionOnSet(f, D)
    BY <2>2, <2>9
  <2>14. QED
    BY <1>1, <2>1, <2>7, <2>8, <2>10, <2>12, <2>13
<1>3. Q \notin B /\ In(Q) = C
  BY <1>2
<1>4. QED
  BY <1>1, <1>3

(* The mean of numbers none of which is less than low.                     *)
LEMMA SumBound ==
  ASSUME NEW f, NEW S, IsFiniteSet(S), NEW low \in Nat, \A x \in S : f[x] \in Nat /\ f[x] >= low
  PROVE SumFunctionOnSet(f, S) \in Nat /\ SumFunctionOnSet(f, S) >= low * Cardinality(S)
<1>1. PICK B : B = {s \in SUBSET S : ~(/\ SumFunctionOnSet(f, s) \in Nat
                                       /\ SumFunctionOnSet(f, s) >= low * Cardinality(s))}
  OBVIOUS
<1>2. ASSUME B # {} PROVE FALSE
  <2>0. B \in SUBSET (SUBSET S)
    BY <1>1
  <2>1. PICK s \in B : IsFiniteSet(s) /\ \A t \in SUBSET s : t # s => t \notin B
    BY <1>2, <2>0, SmallestSubset
  <2>2. s # {}
    <3>1. CASE s = {}
      <4>1. SumFunctionOnSet(f, s) = 0 /\ Cardinality(s) = 0
        BY <2>1, <3>1, TotalOf, FS_EmptySet
      <4>2. low * 0 = 0
        OBVIOUS
      <4>3. QED
        BY <1>1, <4>1, <4>2
    <3>2. QED
      BY <3>1
  <2>3. PICK x, t : x = Chosen(s) /\ t = s \ {x}
    OBVIOUS
  <2>4. /\ x \in s /\ t \in SUBSET s /\ t # s
        /\ Cardinality(s) \in Nat /\ Cardinality(t) = Cardinality(s) - 1 /\ Cardinality(s) > 0
        /\ SumFunctionOnSet(f, s) = f[x] + SumFunctionOnSet(f, t)
    BY <2>1, <2>2, <2>3, ChosenFacts, TotalOf
  <2>5. /\ SumFunctionOnSet(f, t) \in Nat /\ SumFunctionOnSet(f, t) >= low * Cardinality(t)
        /\ f[x] \in Nat /\ f[x] >= low
    BY <1>1, <2>1, <2>4
  <2>6. PICK n \in Nat : Cardinality(t) = n /\ Cardinality(s) = n + 1
    BY <2>4
  <2>7. low * (n + 1) = low * n + low /\ low * n \in Nat
    OBVIOUS
  <2>8. SumFunctionOnSet(f, s) \in Nat /\ SumFunctionOnSet(f, s) >= low * (n + 1)
    BY <2>4, <2>5, <2>6, <2>7
  <2>9. QED
    BY <1>1, <2>1, <2>6, <2>8
<1>3. S \notin B
  BY <1>2
<1>4. QED
  BY <1>1, <1>3

LEMMA MeanBound ==
  ASSUME NEW f, NEW S, IsFiniteSet(S), S # {}, NEW low \in Nat,
         \A x \in S : f[x] \in Nat /\ f[x] >= low
  PROVE /\ SumFunctionOnSet(f, S) \div Cardinality(S) \in Nat
        /\ SumFunctionOnSet(f, S) \div Cardinality(S) >= low
<1>1. Cardinality(S) \in Nat /\ Cardinality(S) # 0
  BY FS_CardinalityType, FS_EmptySet
<1>2. SumFunctionOnSet(f, S) \in Nat /\ SumFunctionOnSet(f, S) >= low * Cardinality(S)
  BY SumBound
<1>3. ASSUME NEW a \in Nat, NEW k \in Nat, k # 0, a >= low * k
      PROVE a \div k \in Nat /\ a \div k >= low
  <2>1. PICK d \in Int : d = a \div k
    BY <1>3
  <2>2. a < k * (d + 1)
    BY <1>3, <2>1
  <2>3. d >= low
    <3>1. CASE d + 1 <= low
      <4>1. k * (d + 1) <= k * low /\ k * low = low * k
        BY <1>3, <3>1
      <4>2. low * k \in Nat /\ k * (d + 1) \in Int
        OBVIOUS
      <4>3. QED
        BY <1>3, <2>2, <4>1, <4>2
    <3>2. QED
      BY <3>1
  <2>4. QED
    BY <2>1, <2>3
<1>4. QED
  BY <1>1, <1>2, <1>3

-----------------------------------------------------------------------------
Start(n) == Abs(SignedStart(n))

(* The uncut cells of a rank at a node: those that may offer it a way.     *)
Uncut(r, n) == {c \in Owned(r) : ~IsCut(c) /\ n \in NodesOf(c)}

InSolve == {"first", "volume", "conserve", "march", "swept", "finish"}
Marching == {"march", "swept", "finish"}

(* Between two collective calls every rank is before or after its step.    *)
Phases == {{"ready"}, {"reconstruct", "first"}, {"volume", "conserve"}, {"march", "swept"},
           {"finish"}, {"solved"}}
Sync == \E phase \in Phases : \A r \in Ranks : pc[r] \in phase

(* The maps are those of this solve, whatever an earlier one left.         *)
Mapped ==
  \A r \in Ranks : pc[r] \in InSolve =>
    /\ cut[r] = CutCells(r)
    /\ intersected[r] = UNION {NodesOf(c) : c \in CutCells(r) \cap Owned(r)}

Measured ==
  \A r \in Ranks : pc[r] = "first" =>
    \A n \in Nodes : /\ dist[r][n] = (IF n \in intersected[r] THEN Near ELSE MaxDistance)
                     /\ signed[r][n] = Sgn(ls[n]) * MaxDistance

(* What is shifted is the distance of the whole mesh, by the shares of the *)
(* own cells.                                                              *)
Unshifted(n) == Sgn(ls[n]) * (IF CutAt(n) # {} THEN Near ELSE MaxDistance)
OwnCutAt(r, n) == {c \in Owned(r) : IsCut(c) /\ n \in NodesOf(c)}

Corrected ==
  \A r \in Ranks :
    /\ pc[r] \in {"volume", "conserve"} => \A n \in Active(r) : signed[r][n] = Unshifted(n)
    /\ pc[r] = "conserve" => \A n \in Nodes : corr[r][n] = SumFunctionOnSet(eta, OwnCutAt(r, n))

Signed ==
  \A r \in Ranks : pc[r] \in Marching => \A n \in Active(r) : signed[r][n] = SignedStart(n)

(* The march: copies agree after an exchange, values only sink, and each   *)
(* of them is a start value or was offered by a cell, when the values it   *)
(* was made of were not smaller than now.                                  *)
Agreed ==
  \A r, q \in Ranks : pc[r] \in Marching =>
    \A n \in Active(r) \cap Active(q) : snap[r][n] = snap[q][n]

Sinking ==
  \A r \in Ranks : pc[r] \in Marching =>
    \A n \in Active(r) : dist[r][n] <= snap[r][n] /\ snap[r][n] <= Start(n)

Founded(n, x) == x = Start(n) \/ \E q \in Ranks : \E c \in Uncut(q, n) : x >= Via(c, n, snap[q])

Grounded ==
  \A r \in Ranks : pc[r] \in Marching =>
    \A n \in Active(r) : Founded(n, dist[r][n]) /\ Founded(n, snap[r][n])

(* A pass that improved nothing found nothing better anywhere, not even in *)
(* the cells it did not visit.                                             *)
Unchanged(r) == \A n \in Active(r) : dist[r][n] = snap[r][n]
NoShorter(r) ==
  \A n \in Active(r) : CutAt(n) = {} => \A c \in Uncut(r, n) : dist[r][n] <= Via(c, n, snap[r])

Settled ==
  \A r \in Ranks :
    /\ pc[r] = "march" => Unchanged(r)
    /\ pc[r] = "swept" /\ ~change[r] => Unchanged(r) /\ NoShorter(r)
    /\ pc[r] = "finish" => Unchanged(r) /\ NoShorter(r)

Solved ==
  \A r \in Ranks : pc[r] = "solved" =>
    \A n \in Active(r) :
      /\ signed[r][n] = Sgn(SignedStart(n)) * dist[r][n]
      /\ CutAt(n) = {} => Sgn(signed[r][n]) = Sgn(ls[n])

IInv ==
  /\ TypeOK /\ Sync /\ Mapped /\ Measured /\ Corrected /\ Signed
  /\ Agreed /\ Sinking /\ Grounded /\ Settled

(* The shift that conserves the volume does not tear the front: what it    *)
(* makes of a node of a cut cell is no farther than the way over a cell    *)
(* beyond.  Then it does not matter that the march takes such a node over  *)
(* the centres of the faces only, and not over their best points.          *)
ShiftIsGentle ==
  \A n \in Nodes : \A c \in Cells :
    CutAt(n) # {} /\ ~IsCut(c) /\ n \in NodesOf(c) =>
      \A m \in UNION OppositeFaces(c, n) : Start(n) <= H + Min({H, Start(m)})

-----------------------------------------------------------------------------
(* Geometry                                                                *)

LEMMA MinFacts ==
  ASSUME NEW S \in SUBSET Nat, S # {}
  PROVE Min(S) \in S /\ Min(S) \in Nat /\ \A x \in S : Min(S) <= x
<1>1. \E n \in S : \A m \in S : n <= m
  BY LeastNat
<1>2. Min(S) \in S /\ \A x \in S : Min(S) <= x
  BY <1>1 DEF Min
<1>3. QED
  BY <1>2

LEMMA Lengths ==
  /\ H \in Nat /\ H > 0 /\ MaxDistance \in Nat
  /\ Near \in Nat /\ Near <= MaxDistance
<1>1. H \in Nat /\ H > 0 /\ MaxDistance \in Nat
  BY MeshAssumption
<1>2. H \div 2 \in Nat
  BY <1>1
<1>3. {H \div 2, MaxDistance} \in SUBSET Nat /\ {H \div 2, MaxDistance} # {}
  BY <1>1, <1>2
<1>4. Near \in Nat /\ Near <= MaxDistance
  BY <1>3, MinFacts DEF Near
<1>5. QED
  BY <1>1, <1>4

LEMMA NearIsShort == Near <= H
<1>1. H \in Nat /\ H \div 2 \in Nat /\ H \div 2 <= H /\ MaxDistance \in Nat
  BY Lengths
<1>2. {H \div 2, MaxDistance} \in SUBSET Nat /\ {H \div 2, MaxDistance} # {}
  BY <1>1
<1>3. Near \in Nat /\ Near <= H \div 2
  BY <1>2, MinFacts DEF Near
<1>4. QED
  BY <1>1, <1>3

LEMMA Opposite ==
  ASSUME NEW c \in Cells, NEW n \in NodesOf(c)
  PROVE /\ OppositeFaces(c, n) # {} /\ UNION OppositeFaces(c, n) # {}
        /\ UNION OppositeFaces(c, n) \subseteq NodesOf(c)
        /\ \A f \in OppositeFaces(c, n) : f # {} /\ IsFiniteSet(f) /\ f \subseteq UNION OppositeFaces(c, n)
<1>1. OppositeFaces(c, n) # {} /\ {} \notin Faces[c]
  BY MeshAssumption
<1>2. \A f \in OppositeFaces(c, n) : f \in Faces[c] /\ f # {} /\ f \subseteq NodesOf(c)
  BY <1>1 DEF OppositeFaces, NodesOf
<1>3. \A f \in OppositeFaces(c, n) : f \in SUBSET Nodes
  BY <1>2, MeshAssumption
<1>4. \A f \in OppositeFaces(c, n) : IsFiniteSet(f)
  BY <1>3, MeshAssumption, FS_Subset
<1>5. QED
  BY <1>1, <1>2, <1>4

(* The way over the best point of the faces beyond.                        *)
LEMMA ViaFacts ==
  ASSUME NEW c \in Cells, NEW n \in NodesOf(c), NEW d, \A m \in NodesOf(c) : d[m] \in Nat
  PROVE /\ Via(c, n, d) \in Nat /\ Via(c, n, d) >= H
        /\ \E m \in UNION OppositeFaces(c, n) : Via(c, n, d) = H + d[m]
        /\ \A m \in UNION OppositeFaces(c, n) : Via(c, n, d) <= H + d[m]
<1>1. PICK S : S = {d[m] : m \in UNION OppositeFaces(c, n)}
  OBVIOUS
<1>2. S \in SUBSET Nat /\ S # {}
  BY <1>1, Opposite
<1>3. Min(S) \in S /\ Min(S) \in Nat /\ \A x \in S : Min(S) <= x
  BY <1>2, MinFacts
<1>4. Via(c, n, d) = H + Min(S)
  BY <1>1 DEF Via
<1>5. \E m \in UNION OppositeFaces(c, n) : Min(S) = d[m]
  BY <1>1, <1>3
<1>6. \A m \in UNION OppositeFaces(c, n) : d[m] \in Nat /\ Min(S) <= d[m]
  BY <1>1, <1>2, <1>3
<1>7. QED
  BY <1>3, <1>4, <1>5, <1>6, Lengths

LEMMA ViaMonotone ==
  ASSUME NEW c \in Cells, NEW n \in NodesOf(c), NEW d, NEW e,
         \A m \in NodesOf(c) : d[m] \in Nat /\ e[m] \in Nat /\ e[m] <= d[m]
  PROVE Via(c, n, e) <= Via(c, n, d)
<1>1. PICK m \in UNION OppositeFaces(c, n) : Via(c, n, d) = H + d[m]
  BY ViaFacts
<1>2. m \in NodesOf(c)
  BY Opposite
<1>3. Via(c, n, e) <= H + e[m] /\ Via(c, n, e) \in Nat
  BY ViaFacts
<1>4. QED
  BY <1>1, <1>2, <1>3, Lengths

LEMMA ViaSame ==
  ASSUME NEW c \in Cells, NEW n \in NodesOf(c), NEW d, NEW e,
         \A m \in NodesOf(c) : d[m] \in Nat /\ e[m] = d[m]
  PROVE Via(c, n, e) = Via(c, n, d)
<1>1. \A m \in NodesOf(c) : d[m] \in Nat /\ e[m] \in Nat /\ e[m] <= d[m] /\ d[m] <= e[m]
  OBVIOUS
<1>2. Via(c, n, e) <= Via(c, n, d) /\ Via(c, n, d) <= Via(c, n, e)
  BY <1>1, ViaMonotone
<1>3. Via(c, n, e) \in Nat /\ Via(c, n, d) \in Nat
  BY <1>1, ViaFacts
<1>4. QED
  BY <1>2, <1>3

(* The way over a face's centre is no shorter: a mean is not less than the *)
(* least of its values.                                                    *)
LEMMA CentreFacts ==
  ASSUME NEW c \in Cells, NEW n \in NodesOf(c), NEW d, \A m \in NodesOf(c) : d[m] \in Nat
  PROVE ViaCentre(c, n, d) \in Nat /\ ViaCentre(c, n, d) >= Via(c, n, d)
<1>1. PICK low : low = Via(c, n, d) - H
  OBVIOUS
<1>2. low \in Nat /\ \A m \in UNION OppositeFaces(c, n) : d[m] \in Nat /\ d[m] >= low
  BY <1>1, ViaFacts, Opposite, Lengths
<1>3. ASSUME NEW f \in OppositeFaces(c, n)
      PROVE FaceCentre(f, d) \in Nat /\ FaceCentre(f, d) >= low
  <2>1. f # {} /\ IsFiniteSet(f) /\ f \subseteq UNION OppositeFaces(c, n)
    BY Opposite
  <2>2. \A m \in f : d[m] \in Nat /\ d[m] >= low
    BY <1>2, <2>1
  <2>3. QED
    BY <1>2, <2>1, <2>2, MeanBound DEF FaceCentre
<1>4. PICK S : S = {FaceCentre(f, d) : f \in OppositeFaces(c, n)}
  OBVIOUS
<1>5. S \in SUBSET Nat /\ S # {} /\ \A x \in S : x >= low
  BY <1>3, <1>4, Opposite
<1>6. Min(S) \in S /\ Min(S) \in Nat
  BY <1>5, MinFacts
<1>7. ViaCentre(c, n, d) = H + Min(S)
  BY <1>4 DEF ViaCentre
<1>8. Via(c, n, d) = H + low
  BY <1>1, ViaFacts, Lengths
<1>9. QED
  BY <1>2, <1>5, <1>6, <1>7, <1>8, Lengths

-----------------------------------------------------------------------------
(* Ranks and their cells                                                   *)

LEMMA Divided ==
  ASSUME part \in Partitions
  PROVE part \in [Cells -> Ranks] /\ \A c \in Cells : c \in Owned(part[c])
BY MeshAssumption DEF Owned

LEMMA Shares ==
  ASSUME NEW r, NEW c \in Owned(r)
  PROVE c \in Cells /\ part[c] = r /\ NodesOf(c) \subseteq Active(r) /\ NodesOf(c) \subseteq Nodes
BY MeshAssumption DEF Owned, Active

LEMMA ActiveFacts ==
  ASSUME NEW r \in Ranks, NEW n \in Active(r)
  PROVE n \in Nodes /\ r \in Sharing(n) /\ Sharing(n) \subseteq Ranks
        /\ \A q \in Sharing(n) : n \in Active(q)
<1>1. n \in Nodes
  BY Shares DEF Active
<1>2. QED
  BY <1>1 DEF Sharing

(* A cut cell is its own neighbour: its owner has it in its map.           *)
LEMMA OwnCuts == \A r \in Ranks : CutCells(r) \cap Owned(r) = {c \in Owned(r) : IsCut(c)}
<1>1. ASSUME NEW r \in Ranks, NEW c \in Owned(r), IsCut(c) PROVE c \in Visible(r)
  <2>1. PICK n \in NodesOf(c) : TRUE
    BY <1>1 DEF IsCut
  <2>2. c \in Cells
    BY Shares
  <2>3. c \in Neighbours(c)
    BY <2>1, <2>2 DEF Neighbours
  <2>4. QED
    BY <2>3 DEF Visible
<1>2. QED
  BY <1>1 DEF CutCells

(* The contributions of all ranks that share a node are those of all cut   *)
(* cells at it, each of them once.                                         *)
LEMMA SharesAddUp ==
  ASSUME part \in Partitions, eta \in Etas, NEW n,
         NEW g, \A q \in Sharing(n) : g[q] = SumFunctionOnSet(eta, OwnCutAt(q, n))
  PROVE SumFunctionOnSet(g, Sharing(n)) = SumFunctionOnSet(eta, CutAt(n))
<1>1. IsFiniteSet(CutAt(n)) /\ IsFiniteSet(Sharing(n))
  <2>1. CutAt(n) \in SUBSET Cells /\ Sharing(n) \in SUBSET Ranks
    BY DEF CutAt, Sharing
  <2>2. QED
    BY <2>1, MeshAssumption, FS_Subset
<1>2. \A c \in CutAt(n) : eta[c] \in Int
  BY MeshAssumption DEF CutAt
<1>3. \A c \in CutAt(n) : part[c] \in Sharing(n)
  <2>1. ASSUME NEW c \in CutAt(n) PROVE part[c] \in Sharing(n)
    <3>1. c \in Cells /\ n \in NodesOf(c)
      BY DEF CutAt
    <3>2. part[c] \in Ranks /\ c \in Owned(part[c])
      BY <3>1, Divided
    <3>3. QED
      BY <3>1, <3>2, Shares DEF Sharing
  <2>2. QED
    BY <2>1
<1>4. \A q \in Sharing(n) : OwnCutAt(q, n) = {c \in CutAt(n) : part[c] = q}
  BY DEF OwnCutAt, CutAt, Owned
<1>5. \A q \in Sharing(n) : g[q] = SumFunctionOnSet(eta, {c \in CutAt(n) : part[c] = q})
  BY <1>4
<1>6. QED
  BY <1>1, <1>2, <1>3, <1>5, SumByParts

(* After an exchange all sharing ranks have the least value.               *)
LEMMA ExchangedMinFacts ==
  ASSUME NEW d \in [Ranks -> [Nodes -> Nat]]
  PROVE /\ ExchangedMin(d) \in [Ranks -> [Nodes -> Nat]]
        /\ \A r \in Ranks : \A n \in Active(r) :
             /\ \E q \in Sharing(n) : ExchangedMin(d)[r][n] = d[q][n]
             /\ \A q \in Sharing(n) : ExchangedMin(d)[r][n] <= d[q][n]
             /\ \A q \in Sharing(n) : ExchangedMin(d)[r][n] = ExchangedMin(d)[q][n]
<1> DEFINE least(n) == Min({d[q][n] : q \in Sharing(n)})
<1>1. ASSUME NEW r \in Ranks, NEW n \in Active(r)
      PROVE /\ least(n) \in Nat
            /\ \E q \in Sharing(n) : least(n) = d[q][n]
            /\ \A q \in Sharing(n) : least(n) <= d[q][n]
  <2>1. PICK S : S = {d[q][n] : q \in Sharing(n)}
    OBVIOUS
  <2>2. S \in SUBSET Nat /\ S # {}
    BY <2>1, ActiveFacts
  <2>3. Min(S) \in S /\ Min(S) \in Nat /\ \A x \in S : Min(S) <= x
    BY <2>2, MinFacts
  <2>4. QED
    BY <2>1, <2>3
<1>2. \A r \in Ranks : \A n \in Nodes :
        ExchangedMin(d)[r][n] = IF n \in Active(r) THEN least(n) ELSE d[r][n]
  BY DEF ExchangedMin
<1> HIDE DEF least
<1>3. \A r \in Ranks : \A n \in Nodes : ExchangedMin(d)[r][n] \in Nat
  BY <1>1, <1>2
<1>4. ExchangedMin(d) \in [Ranks -> [Nodes -> Nat]]
  BY <1>3 DEF ExchangedMin
<1>5. ASSUME NEW r \in Ranks, NEW n \in Active(r)
      PROVE \A q \in Sharing(n) : ExchangedMin(d)[r][n] = least(n) /\ ExchangedMin(d)[q][n] = least(n)
  BY <1>2, ActiveFacts
<1>6. QED
  BY <1>1, <1>4, <1>5, ActiveFacts

(* What a cell offers is not less than the way over its best point.        *)
LEMMA ApproxFacts ==
  ASSUME NEW r \in Ranks, NEW c \in Owned(r), NEW n \in NodesOf(c), snap \in [Ranks -> [Nodes -> Nat]]
  PROVE /\ Approx(r, c, n) \in Nat /\ Approx(r, c, n) >= Via(c, n, snap[r])
        /\ n \notin intersected[r] => Approx(r, c, n) = Via(c, n, snap[r])
<1>1. c \in Cells /\ \A m \in NodesOf(c) : snap[r][m] \in Nat
  BY Shares
<1>2. Via(c, n, snap[r]) \in Nat
  BY <1>1, ViaFacts
<1>3. ViaCentre(c, n, snap[r]) \in Nat /\ ViaCentre(c, n, snap[r]) >= Via(c, n, snap[r])
  BY <1>1, CentreFacts
<1>4. QED
  BY <1>2, <1>3 DEF Approx

-----------------------------------------------------------------------------
(* Types                                                                   *)

Places == {"ready", "reconstruct", "first", "volume", "conserve", "march", "swept", "finish", "solved"}

LEMMA OffersFacts ==
  ASSUME TypeOK, NEW r \in Ranks, NEW n
  PROVE /\ Offers(r, n) \subseteq Nat
        /\ \A a \in Offers(r, n) : \E c \in Owned(r) :
             c \notin cut[r] /\ n \in NodesOf(c) /\ a = Approx(r, c, n)
        /\ \A c \in Owned(r) :
             c \in corona[r] \cup Reached(r) /\ c \notin cut[r] /\ n \in NodesOf(c)
               => Approx(r, c, n) \in Offers(r, n)
<1>1. snap \in [Ranks -> [Nodes -> Nat]]
  BY DEF TypeOK
<1>2. \A c \in Owned(r) : n \in NodesOf(c) => Approx(r, c, n) \in Nat
  BY <1>1, ApproxFacts
<1>3. QED
  BY <1>2 DEF Offers

(* A pass leaves every node the least of its value and of the offers.      *)
LEMMA SweptFacts ==
  ASSUME TypeOK, NEW r \in Ranks, Sweep(r)
  PROVE /\ dist' \in [Ranks -> [Nodes -> Nat]]
        /\ \A q \in Ranks : q # r => dist'[q] = dist[q]
        /\ \A n \in Nodes :
             /\ dist'[r][n] <= dist[r][n]
             /\ \A a \in Offers(r, n) : dist'[r][n] <= a
             /\ dist'[r][n] = dist[r][n] \/ dist'[r][n] \in Offers(r, n)
<1>1. dist' = [dist EXCEPT ![r] = [n \in Nodes |-> Min({dist[r][n]} \cup Offers(r, n))]]
  BY DEF Sweep
<1>2. dist \in [Ranks -> [Nodes -> Nat]]
  BY DEF TypeOK
<1>3. ASSUME NEW n \in Nodes
      PROVE /\ Min({dist[r][n]} \cup Offers(r, n)) \in Nat
            /\ Min({dist[r][n]} \cup Offers(r, n)) \in {dist[r][n]} \cup Offers(r, n)
            /\ \A a \in {dist[r][n]} \cup Offers(r, n) : Min({dist[r][n]} \cup Offers(r, n)) <= a
  <2>1. PICK S : S = {dist[r][n]} \cup Offers(r, n)
    OBVIOUS
  <2>2. S \in SUBSET Nat /\ S # {}
    BY <1>2, <2>1, OffersFacts
  <2>3. QED
    BY <2>1, <2>2, MinFacts
<1>4. dist' \in [Ranks -> [Nodes -> Nat]]
  BY <1>1, <1>2, <1>3
<1>5. \A n \in Nodes : dist'[r][n] = Min({dist[r][n]} \cup Offers(r, n))
  BY <1>1, <1>2
<1>6. QED
  BY <1>1, <1>2, <1>3, <1>4, <1>5

LEMMA ProductType ==
  ASSUME NEW b \in {0, 1}, NEW x \in Int
  PROVE b * x \in Int
OBVIOUS

LEMMA TypeInit == Init => TypeOK
BY MeshAssumption DEF Init, TypeOK, Zero, NoCells

LEMMA SignType == \A x \in Int : Sgn(x) \in {-1, 0, 1} /\ Abs(x) \in Nat
BY DEF Sgn, Abs

LEMMA WithSignType ==
  ASSUME TypeOK, NEW d \in [Ranks -> [Nodes -> Nat]]
  PROVE /\ WithSign(d) \in [Ranks -> [Nodes -> Int]]
        /\ \A r \in Ranks : \A n \in Nodes : WithSign(d)[r][n] = d[r][n] * Sgn(signed[r][n])
<1>1. \A r \in Ranks : \A n \in Nodes : signed[r][n] \in Int /\ Sgn(signed[r][n]) \in {-1, 0, 1}
  BY SignType DEF TypeOK
<1>2. \A x \in Nat : \A s \in {-1, 0, 1} : x * s \in Int
  OBVIOUS
<1>3. \A r \in Ranks : \A n \in Nodes : d[r][n] * Sgn(signed[r][n]) \in Int
  BY <1>1, <1>2
<1>4. QED
  BY <1>3 DEF WithSign

LEMMA CorrectionType ==
  ASSUME TypeOK
  PROVE /\ \A r \in Ranks : \A n \in Nodes :
             SumFunctionOnSet(eta, {c \in cut[r] \cap Owned(r) : n \in NodesOf(c)}) \in Int
        /\ ExchangedSum(corr) \in [Ranks -> [Nodes -> Int]]
<1>1. ASSUME NEW r \in Ranks, NEW n \in Nodes
      PROVE SumFunctionOnSet(eta, {c \in cut[r] \cap Owned(r) : n \in NodesOf(c)}) \in Int
  <2>1. PICK S : S = {c \in cut[r] \cap Owned(r) : n \in NodesOf(c)}
    OBVIOUS
  <2>2. S \in SUBSET Cells
    BY <2>1 DEF Owned
  <2>3. IsFiniteSet(S) /\ \A c \in S : eta[c] \in Int
    BY <2>2, MeshAssumption, FS_Subset DEF TypeOK
  <2>4. QED
    BY <2>1, <2>3, SumType
<1>2. ASSUME NEW n \in Nodes
      PROVE SumFunctionOnSet([q \in Ranks |-> corr[q][n]], Sharing(n)) \in Int
  <2>1. PICK S : S = Sharing(n)
    OBVIOUS
  <2>2. S \in SUBSET Ranks
    BY <2>1 DEF Sharing
  <2>3. IsFiniteSet(S)
    BY <2>2, MeshAssumption, FS_Subset
  <2>4. \A q \in S : [p \in Ranks |-> corr[p][n]][q] \in Int
    BY <2>2 DEF TypeOK
  <2>5. QED
    BY <2>1, <2>3, <2>4, SumType
<1>3. \A r \in Ranks : \A n \in Nodes : corr[r][n] \in Int
  BY DEF TypeOK
<1>4. ExchangedSum(corr) \in [Ranks -> [Nodes -> Int]]
  BY <1>2, <1>3 DEF ExchangedSum
<1>5. QED
  BY <1>1, <1>4

LEMMA ConserveType == TypeOK /\ ConserveVolume => TypeOK'
<1> SUFFICES ASSUME TypeOK, ConserveVolume PROVE TypeOK'
  OBVIOUS
<1>1. corr' \in [Ranks -> [Nodes -> Int]] /\ scale' \in {0, 1}
  BY CorrectionType DEF ConserveVolume
<1>2. \A r \in Ranks : \A n \in Nodes : signed[r][n] + scale' * corr'[r][n] \in Int
  <2>1. \A r \in Ranks : \A n \in Nodes : corr'[r][n] \in Int /\ signed[r][n] \in Int
    BY <1>1 DEF TypeOK
  <2>2. \A r \in Ranks : \A n \in Nodes : scale' * corr'[r][n] \in Int
    BY <1>1, <2>1, ProductType
  <2>3. QED
    BY <2>1, <2>2
<1>3. signed' \in [Ranks -> [Nodes -> Int]]
  BY <1>2 DEF ConserveVolume
<1>4. PICK d : d = [r \in Ranks |-> [n \in Nodes |-> Magnitude(signed'[r][n])]]
  OBVIOUS
<1>5. d \in [Ranks -> [Nodes -> Nat]]
  BY <1>3, <1>4, SignType DEF Magnitude
<1>6. dist' \in [Ranks -> [Nodes -> Nat]] /\ snap' \in [Ranks -> [Nodes -> Nat]]
  BY <1>4, <1>5, ExchangedMinFacts DEF ConserveVolume
<1>7. corona' \in [Ranks -> SUBSET Cells]
  BY DEF ConserveVolume, FirstCorona, Neighbours
<1>8. pc' \in [Ranks -> Places]
  BY DEF ConserveVolume, GoAll, Places
<1>9. QED
  BY <1>1, <1>3, <1>6, <1>7, <1>8 DEF TypeOK, ConserveVolume, Places

LEMMA TypeStep == TypeOK /\ [Next]_vars => TypeOK'
<1> SUFFICES ASSUME TypeOK, [Next]_vars PROVE TypeOK'
  OBVIOUS
<1>0. pc \in [Ranks -> Places] /\ dist \in [Ranks -> [Nodes -> Nat]]
  BY DEF TypeOK, Places
<1>1. CASE SetupDofs
  BY <1>0, <1>1, MeshAssumption DEF SetupDofs, TypeOK, Zero
<1>2. CASE Solve
  <2>1. solves' \in 0 .. MaxSolves
    BY <1>2, MeshAssumption DEF Solve, TypeOK
  <2>2. pc' \in [Ranks -> Places]
    BY <1>2 DEF Solve, Places
  <2>3. QED
    BY <1>2, <2>1, <2>2 DEF Solve, TypeOK, Places
<1>3. ASSUME NEW r \in Ranks, Reconstruct(r) PROVE TypeOK'
  <2>1. pc' \in [Ranks -> Places]
    BY <1>0, <1>3 DEF Reconstruct, Go, Places
  <2>2. CutCells(r) \in SUBSET Cells
    BY DEF CutCells, Visible, Neighbours
  <2>3. cut' \in [Ranks -> SUBSET Cells]
    BY <1>3, <2>2 DEF Reconstruct, TypeOK
  <2>4. UNION {NodesOf(c) : c \in CutCells(r) \cap Owned(r)} \in SUBSET Nodes
    BY Shares
  <2>5. intersected' \in [Ranks -> SUBSET Nodes]
    BY <1>3, <2>4 DEF Reconstruct, TypeOK
  <2>6. dist' \in [Ranks -> [Nodes -> Nat]] /\ snap' \in [Ranks -> [Nodes -> Nat]]
    BY <1>3, Lengths DEF Reconstruct, TypeOK
  <2>7. \A n \in Nodes : Sgn(ls[n]) * MaxDistance \in Int
    BY Lengths DEF Sgn
  <2>8. signed' \in [Ranks -> [Nodes -> Int]]
    BY <1>3, <2>7 DEF Reconstruct, TypeOK
  <2>9. QED
    BY <1>3, <2>1, <2>3, <2>5, <2>6, <2>8 DEF Reconstruct, TypeOK, Places
<1>4. CASE ExchangeFirst
  <2>1. dist' \in [Ranks -> [Nodes -> Nat]] /\ snap' = dist' /\ signed' = WithSign(dist')
    BY <1>0, <1>4, ExchangedMinFacts DEF ExchangeFirst
  <2>2. signed' \in [Ranks -> [Nodes -> Int]]
    BY <2>1, WithSignType
  <2>3. QED
    BY <1>4, <2>1, <2>2 DEF ExchangeFirst, GoAll, TypeOK
<1>5. ASSUME NEW r \in Ranks, CellCorrection(r) PROVE TypeOK'
  <2>1. corr' \in [Ranks -> [Nodes -> Int]]
    BY <1>5, CorrectionType DEF CellCorrection, TypeOK
  <2>2. pc' \in [Ranks -> Places]
    BY <1>0, <1>5 DEF CellCorrection, Go, Places
  <2>3. QED
    BY <1>5, <2>1, <2>2 DEF CellCorrection, TypeOK, Places
<1>6. CASE ConserveVolume
  BY <1>6, ConserveType
<1>7. ASSUME NEW r \in Ranks, Sweep(r) PROVE TypeOK'
  <2>1. dist' \in [Ranks -> [Nodes -> Nat]]
    BY <1>7, SweptFacts
  <2>2. pc' \in [Ranks -> Places]
    BY <1>0, <1>7 DEF Sweep, Go, Places
  <2>3. corona' \in [Ranks -> SUBSET Cells]
    BY <1>7 DEF Sweep, Reached, Owned, TypeOK
  <2>4. change' \in [Ranks -> BOOLEAN]
    BY <1>7 DEF Sweep, Improves, TypeOK
  <2>5. QED
    BY <1>7, <2>1, <2>2, <2>3, <2>4 DEF Sweep, TypeOK, Places
<1>8. CASE ExchangeSweep
  <2>1. dist' \in [Ranks -> [Nodes -> Nat]] /\ snap' = dist'
    BY <1>0, <1>8, ExchangedMinFacts DEF ExchangeSweep
  <2>2. pc' \in [Ranks -> Places]
    BY <1>8 DEF ExchangeSweep, Places
  <2>3. QED
    BY <1>8, <2>1, <2>2 DEF ExchangeSweep, TypeOK, Places
<1>9. CASE Finish
  <2>1. signed' \in [Ranks -> [Nodes -> Int]]
    BY <1>0, <1>9, WithSignType DEF Finish
  <2>2. QED
    BY <1>9, <2>1 DEF Finish, GoAll, TypeOK
<1>10. CASE UNCHANGED vars
  BY <1>10 DEF vars, TypeOK
<1>11. QED
  BY <1>1, <1>2, <1>3, <1>4, <1>5, <1>6, <1>7, <1>8, <1>9, <1>10 DEF Next, Collective, RankStep

(* Every variable keeps its type through any number of solves and          *)
(* repartitionings; distances are never negative.                          *)
THEOREM TypeCorrect == Spec => []TypeOK
<1>1. Init => TypeOK
  BY TypeInit
<1>2. TypeOK /\ [Next]_vars => TypeOK'
  BY TypeStep
<1>3. QED
  BY <1>1, <1>2, PTL DEF Spec

-----------------------------------------------------------------------------
(* The steps of a solve                                                    *)

LEMMA Together ==
  ASSUME Sync, NEW r \in Ranks, NEW phase \in Phases, pc[r] \in phase
  PROVE \A q \in Ranks : pc[q] \in phase
BY DEF Sync, Phases

(* What only depends on the mesh and the level set of the solve.           *)
LEMMA SameMesh ==
  ASSUME part' = part, ls' = ls
  PROVE /\ \A r : Owned(r)' = Owned(r) /\ Active(r)' = Active(r) /\ CutCells(r)' = CutCells(r)
        /\ \A c : IsCut(c)' <=> IsCut(c)
        /\ \A n : CutAt(n)' = CutAt(n) /\ Unshifted(n)' = Unshifted(n)
        /\ \A r, n : Uncut(r, n)' = Uncut(r, n) /\ OwnCutAt(r, n)' = OwnCutAt(r, n)
<1>1. \A r : Owned(r)' = Owned(r)
  BY DEF Owned
<1>2. \A r : Active(r)' = Active(r) /\ Visible(r)' = Visible(r)
  BY <1>1 DEF Active, Visible
<1>3. \A c : IsCut(c)' <=> IsCut(c)
  BY DEF IsCut
<1>4. \A r : CutCells(r)' = CutCells(r)
  BY <1>2, <1>3 DEF CutCells
<1>5. \A n : CutAt(n)' = CutAt(n)
  BY <1>3 DEF CutAt
<1>6. \A n : Unshifted(n)' = Unshifted(n)
  BY <1>5 DEF Unshifted
<1>7. \A r, n : Uncut(r, n)' = Uncut(r, n) /\ OwnCutAt(r, n)' = OwnCutAt(r, n)
  BY <1>1, <1>3 DEF Uncut, OwnCutAt
<1>8. QED
  BY <1>1, <1>2, <1>3, <1>4, <1>5, <1>6, <1>7

LEMMA SameStart ==
  ASSUME part' = part, ls' = ls, eta' = eta, scale' = scale
  PROVE \A n : SignedStart(n)' = SignedStart(n) /\ Start(n)' = Start(n)
<1>1. \A n : CutAt(n)' = CutAt(n)
  BY SameMesh
<1>2. \A n : SignedStart(n)' = SignedStart(n)
  BY <1>1 DEF SignedStart
<1>3. QED
  BY <1>2 DEF Start

(* The maps hold the cut cells at a node, or none.                         *)
LEMMA MappedFacts ==
  ASSUME Mapped, NEW r \in Ranks, pc[r] \in InSolve
  PROVE /\ \A c \in Owned(r) : c \in cut[r] <=> IsCut(c)
        /\ \A n : {c \in cut[r] \cap Owned(r) : n \in NodesOf(c)} = OwnCutAt(r, n)
        /\ \A n : n \in intersected[r] <=> OwnCutAt(r, n) # {}
        /\ \A n : OwnCutAt(r, n) \subseteq CutAt(n)
<1>1. cut[r] = CutCells(r) /\ CutCells(r) \cap Owned(r) = {c \in Owned(r) : IsCut(c)}
  BY OwnCuts DEF Mapped
<1>2. intersected[r] = UNION {NodesOf(c) : c \in {c \in Owned(r) : IsCut(c)}}
  BY <1>1 DEF Mapped
<1>3. QED
  BY <1>1, <1>2 DEF OwnCutAt, CutAt, Owned

LEMMA StartFacts ==
  ASSUME TypeOK, NEW n \in Nodes
  PROVE /\ SumFunctionOnSet(eta, CutAt(n)) \in Int
        /\ SignedStart(n) = Unshifted(n) + scale * SumFunctionOnSet(eta, CutAt(n))
        /\ Unshifted(n) \in Int /\ SignedStart(n) \in Int /\ Start(n) \in Nat
        /\ CutAt(n) = {} => /\ SignedStart(n) = Sgn(ls[n]) * MaxDistance
                            /\ Start(n) = IF ls[n] = 0 THEN 0 ELSE MaxDistance
<1>1. CutAt(n) \in SUBSET Cells
  BY DEF CutAt
<1>2. IsFiniteSet(CutAt(n)) /\ \A c \in CutAt(n) : eta[c] \in Int
  BY <1>1, MeshAssumption, FS_Subset DEF TypeOK
<1>3. SumFunctionOnSet(eta, CutAt(n)) \in Int
  BY <1>2, SumType
<1>4. Unshifted(n) \in Int
  BY Lengths DEF Unshifted, Sgn
<1>5. scale * SumFunctionOnSet(eta, CutAt(n)) \in Int
  BY <1>3, ProductType DEF TypeOK
<1>6. SignedStart(n) = Unshifted(n) + scale * SumFunctionOnSet(eta, CutAt(n))
  BY DEF SignedStart, Unshifted
<1>7. SignedStart(n) \in Int /\ Start(n) \in Nat
  BY <1>4, <1>5, <1>6, SignType DEF Start
<1>8. ASSUME CutAt(n) = {}
      PROVE /\ SignedStart(n) = Sgn(ls[n]) * MaxDistance
            /\ Start(n) = IF ls[n] = 0 THEN 0 ELSE MaxDistance
  <2>1. SumFunctionOnSet(eta, CutAt(n)) = 0
    BY <1>2, <1>8, TotalOf
  <2>2. scale * 0 = 0
    BY DEF TypeOK
  <2>3. SignedStart(n) = Unshifted(n)
    BY <1>4, <1>6, <2>1, <2>2
  <2>4. Unshifted(n) = Sgn(ls[n]) * MaxDistance
    BY <1>8 DEF Unshifted
  <2>5. ls[n] \in Int
    BY MeshAssumption DEF TypeOK
  <2>6. QED
    BY <2>3, <2>4, <2>5, Lengths DEF Start, Abs, Sgn
<1>9. QED
  BY <1>3, <1>4, <1>6, <1>7, <1>8

LEMMA ReconstructStep == ASSUME IInv, TypeOK', NEW r \in Ranks, Reconstruct(r) PROVE IInv'
<1>0. part' = part /\ ls' = ls
  BY DEF Reconstruct
<1>1. /\ pc \in [Ranks -> Places] /\ cut \in [Ranks -> SUBSET Cells]
      /\ intersected \in [Ranks -> SUBSET Nodes] /\ dist \in [Ranks -> [Nodes -> Nat]]
      /\ signed \in [Ranks -> [Nodes -> Int]]
  BY DEF IInv, TypeOK, Places
<1>2. \A q \in Ranks : pc[q] \in {"reconstruct", "first"}
  BY Together DEF IInv, Reconstruct, Go, Phases
<1>3. /\ \A q \in Ranks : pc'[q] \in {"reconstruct", "first"}
      /\ \A q \in Ranks : q # r =>
           /\ pc'[q] = pc[q] /\ cut'[q] = cut[q] /\ intersected'[q] = intersected[q]
           /\ dist'[q] = dist[q] /\ signed'[q] = signed[q]
      /\ cut'[r] = CutCells(r)
      /\ intersected'[r] = UNION {NodesOf(c) : c \in CutCells(r) \cap Owned(r)}
      /\ \A n \in Nodes : /\ dist'[r][n] = (IF n \in intersected'[r] THEN Near ELSE MaxDistance)
                          /\ signed'[r][n] = Sgn(ls[n]) * MaxDistance
  BY <1>1, <1>2 DEF Reconstruct, Go
<1>4. Sync'
  BY <1>3 DEF Sync, Phases
<1>5. Mapped'
  BY <1>0, <1>3, SameMesh DEF IInv, Mapped, InSolve
<1>6. Measured'
  BY <1>0, <1>3 DEF IInv, Measured
<1>7. Corrected' /\ Signed' /\ Agreed' /\ Sinking' /\ Grounded' /\ Settled'
  BY <1>3 DEF Corrected, Signed, Agreed, Sinking, Grounded, Settled, Marching
<1>8. QED
  BY <1>4, <1>5, <1>6, <1>7 DEF IInv

LEMMA SignTimes ==
  ASSUME NEW s \in {-1, 0, 1}, NEW m \in Nat, NEW d \in Nat, d <= m
  PROVE d * Sgn(s * m) = s * d
<1>1. CASE m = 0
  BY <1>1 DEF Sgn
<1>2. CASE m > 0 /\ s = 1
  BY <1>2 DEF Sgn
<1>3. CASE m > 0 /\ s = -1
  BY <1>3 DEF Sgn
<1>4. CASE s = 0
  BY <1>4 DEF Sgn
<1>5. QED
  BY <1>1, <1>2, <1>3, <1>4

LEMMA ExchangeFirstStep == ASSUME IInv, TypeOK', ExchangeFirst PROVE IInv'
<1>0. part' = part /\ ls' = ls /\ cut' = cut /\ intersected' = intersected
  BY DEF ExchangeFirst
<1>1. \A r \in Ranks : pc[r] = "first" /\ pc'[r] = "volume"
  BY DEF ExchangeFirst, GoAll, All
<1>2. dist' = ExchangedMin(dist) /\ signed' = WithSign(dist') /\ dist' \in [Ranks -> [Nodes -> Nat]]
  BY DEF ExchangeFirst, TypeOK
<1>3. Mapped /\ Measured /\ TypeOK /\ dist \in [Ranks -> [Nodes -> Nat]] /\ part \in Partitions
  BY DEF IInv, TypeOK
<1>4. ASSUME NEW r \in Ranks, NEW n \in Active(r)
      PROVE dist'[r][n] = IF CutAt(n) # {} THEN Near ELSE MaxDistance
  <2>1. /\ \E q \in Sharing(n) : dist'[r][n] = dist[q][n]
        /\ \A q \in Sharing(n) : dist'[r][n] <= dist[q][n]
    BY <1>2, <1>3, ExchangedMinFacts
  <2>2. \A q \in Sharing(n) :
          dist[q][n] = IF OwnCutAt(q, n) # {} THEN Near ELSE MaxDistance
    BY <1>1, <1>3, ActiveFacts, MappedFacts DEF Measured, InSolve
  <2>3. \A q \in Sharing(n) : OwnCutAt(q, n) \subseteq CutAt(n)
    BY <1>1, <1>3, ActiveFacts, MappedFacts DEF InSolve
  <2>4. CASE CutAt(n) # {}
    <3>1. PICK c \in CutAt(n) : TRUE
      BY <2>4
    <3>2. c \in Cells /\ n \in NodesOf(c) /\ IsCut(c)
      BY DEF CutAt
    <3>3. part[c] \in Ranks /\ c \in Owned(part[c])
      BY <1>3, <3>2, Divided
    <3>4. part[c] \in Sharing(n) /\ c \in OwnCutAt(part[c], n)
      BY <3>2, <3>3, Shares DEF Sharing, OwnCutAt
    <3>5. dist'[r][n] <= Near
      BY <2>1, <2>2, <3>4
    <3>6. dist'[r][n] \in {Near, MaxDistance}
      BY <2>1, <2>2
    <3>7. QED
      BY <2>4, <3>5, <3>6, Lengths
  <2>5. CASE CutAt(n) = {}
    BY <2>1, <2>2, <2>3, <2>5
  <2>6. QED
    BY <2>4, <2>5
<1>5. ASSUME NEW r \in Ranks, NEW n \in Active(r) PROVE signed'[r][n] = Unshifted(n)
  <2>1. n \in Nodes
    BY ActiveFacts
  <2>2. signed'[r][n] = dist'[r][n] * Sgn(Sgn(ls[n]) * MaxDistance)
    BY <1>1, <1>2, <1>3, <2>1, WithSignType DEF Measured
  <2>3. dist'[r][n] \in Nat /\ dist'[r][n] <= MaxDistance
    BY <1>4, Lengths
  <2>4. Sgn(ls[n]) \in {-1, 0, 1}
    BY DEF Sgn
  <2>5. signed'[r][n] = Sgn(ls[n]) * dist'[r][n]
    BY <2>2, <2>3, <2>4, SignTimes, Lengths
  <2>6. QED
    BY <1>4, <2>5 DEF Unshifted
<1>6. Sync'
  BY <1>1 DEF Sync, Phases
<1>7. Mapped'
  BY <1>0, <1>1, <1>3, SameMesh DEF Mapped, InSolve
<1>8. Corrected'
  BY <1>0, <1>1, <1>5, SameMesh DEF Corrected
<1>9. Measured' /\ Signed' /\ Agreed' /\ Sinking' /\ Grounded' /\ Settled'
  BY <1>1 DEF Measured, Signed, Agreed, Sinking, Grounded, Settled, Marching
<1>10. QED
  BY <1>6, <1>7, <1>8, <1>9 DEF IInv

LEMMA CellCorrectionStep == ASSUME IInv, TypeOK', NEW r \in Ranks, CellCorrection(r) PROVE IInv'
<1>0. /\ part' = part /\ ls' = ls /\ cut' = cut /\ intersected' = intersected /\ eta' = eta
      /\ signed' = signed
  BY DEF CellCorrection
<1>1. pc \in [Ranks -> Places] /\ corr \in [Ranks -> [Nodes -> Int]]
  BY DEF IInv, TypeOK, Places
<1>2. \A q \in Ranks : pc[q] \in {"volume", "conserve"}
  BY Together DEF IInv, CellCorrection, Go, Phases
<1>3. /\ \A q \in Ranks : pc'[q] \in {"volume", "conserve"}
      /\ \A q \in Ranks : q # r => pc'[q] = pc[q] /\ corr'[q] = corr[q]
      /\ \A n \in Nodes : corr'[r][n] =
           SumFunctionOnSet(eta, {c \in cut[r] \cap Owned(r) : n \in NodesOf(c)})
  BY <1>1, <1>2 DEF CellCorrection, Go
<1>4. \A n \in Nodes : corr'[r][n] = SumFunctionOnSet(eta, OwnCutAt(r, n))
  <2>1. Mapped /\ pc[r] \in InSolve
    BY <1>2 DEF IInv, InSolve
  <2>2. QED
    BY <1>3, <2>1, MappedFacts
<1>5. Sync'
  BY <1>3 DEF Sync, Phases
<1>6. Mapped'
  BY <1>0, <1>2, <1>3, SameMesh DEF IInv, Mapped, InSolve
<1>7. Corrected'
  BY <1>0, <1>2, <1>3, <1>4, SameMesh DEF IInv, Corrected
<1>8. Measured' /\ Signed' /\ Agreed' /\ Sinking' /\ Grounded' /\ Settled'
  BY <1>3 DEF Measured, Signed, Agreed, Sinking, Grounded, Settled, Marching
<1>9. QED
  BY <1>5, <1>6, <1>7, <1>8 DEF IInv

LEMMA ConserveStep == ASSUME IInv, TypeOK', ConserveVolume PROVE IInv'
<1>0. part' = part /\ ls' = ls /\ cut' = cut /\ intersected' = intersected /\ eta' = eta
  BY DEF ConserveVolume
<1>1. \A r \in Ranks : pc[r] = "conserve" /\ pc'[r] = "march"
  BY DEF ConserveVolume, GoAll, All
<1>2. TypeOK /\ Mapped /\ Corrected /\ part \in Partitions /\ eta \in Etas
  BY DEF IInv, TypeOK
<1>3. ASSUME NEW r \in Ranks, NEW n \in Active(r) PROVE signed'[r][n] = SignedStart(n)'
  <2>1. n \in Nodes /\ Sharing(n) \subseteq Ranks
    BY ActiveFacts
  <2>2. PICK g : g = [q \in Ranks |-> corr[q][n]]
    OBVIOUS
  <2>3. corr'[r][n] = SumFunctionOnSet(g, Sharing(n))
    BY <2>1, <2>2 DEF ConserveVolume, ExchangedSum
  <2>4. \A q \in Sharing(n) : g[q] = SumFunctionOnSet(eta, OwnCutAt(q, n))
    BY <1>1, <1>2, <2>1, <2>2 DEF Corrected
  <2>5. corr'[r][n] = SumFunctionOnSet(eta, CutAt(n))
    BY <1>2, <2>3, <2>4, SharesAddUp
  <2>6. signed'[r][n] = Unshifted(n) + scale' * SumFunctionOnSet(eta, CutAt(n))
    BY <1>1, <1>2, <2>1, <2>5 DEF ConserveVolume, Corrected
  <2>7. CutAt(n)' = CutAt(n) /\ Unshifted(n)' = Unshifted(n)
    BY <1>0, SameMesh
  <2>8. SignedStart(n)' = Unshifted(n)' + scale' * SumFunctionOnSet(eta', CutAt(n)')
    BY DEF SignedStart, Unshifted
  <2>9. QED
    BY <1>0, <2>6, <2>7, <2>8
<1>4. PICK d : d = [r \in Ranks |-> [n \in Nodes |-> Magnitude(signed'[r][n])]]
  OBVIOUS
<1>5. d \in [Ranks -> [Nodes -> Nat]]
  BY <1>4, SignType DEF Magnitude, TypeOK
<1>6. dist' = ExchangedMin(d) /\ snap' = dist'
  BY <1>4 DEF ConserveVolume
<1>7. \A r \in Ranks : Active(r)' = Active(r)
  BY <1>0, SameMesh
<1>8. ASSUME NEW r \in Ranks, NEW n \in Active(r)
      PROVE dist'[r][n] = Start(n)' /\ snap'[r][n] = Start(n)' /\ Start(n)' \in Nat
  <2>1. PICK q \in Sharing(n) : dist'[r][n] = d[q][n]
    BY <1>5, <1>6, ExchangedMinFacts
  <2>2. q \in Ranks /\ n \in Active(q) /\ n \in Nodes
    BY ActiveFacts
  <2>3. d[q][n] = Magnitude(signed'[q][n]) /\ signed'[q][n] = SignedStart(n)'
    BY <1>3, <1>4, <2>2
  <2>4. d[q][n] = Start(n)'
    BY <2>3 DEF Start, Magnitude
  <2>5. QED
    BY <1>5, <1>6, <2>1, <2>2, <2>4
<1>9. Sync'
  BY <1>1 DEF Sync, Phases
<1>10. Mapped'
  BY <1>0, <1>1, <1>2, SameMesh DEF Mapped, InSolve
<1>11. Signed'
  BY <1>3, <1>7 DEF Signed
<1>12. Agreed' /\ Sinking'
  BY <1>7, <1>8 DEF Agreed, Sinking
<1>13. Grounded'
  BY <1>7, <1>8 DEF Grounded, Founded
<1>14. Settled'
  BY <1>1, <1>6 DEF Settled, Unchanged
<1>15. Measured' /\ Corrected'
  BY <1>1 DEF Measured, Corrected
<1>16. QED
  BY <1>9, <1>10, <1>11, <1>12, <1>13, <1>14, <1>15 DEF IInv

LEMMA SweepStep == ASSUME IInv, TypeOK', NEW r \in Ranks, Sweep(r) PROVE IInv'
<1>0. /\ part' = part /\ ls' = ls /\ cut' = cut /\ intersected' = intersected /\ eta' = eta
      /\ signed' = signed /\ snap' = snap /\ scale' = scale
  BY DEF Sweep
<1>1. /\ TypeOK /\ pc \in [Ranks -> Places] /\ change \in [Ranks -> BOOLEAN]
      /\ snap \in [Ranks -> [Nodes -> Nat]] /\ dist \in [Ranks -> [Nodes -> Nat]]
  BY DEF IInv, TypeOK, Places
<1>2. pc[r] = "march" /\ \A q \in Ranks : pc[q] \in {"march", "swept"}
  BY Together DEF IInv, Sweep, Go, Phases
<1>3. /\ \A q \in Ranks : pc'[q] \in {"march", "swept"}
      /\ \A q \in Ranks : q # r => pc'[q] = pc[q] /\ change'[q] = change[q]
      /\ pc'[r] = "swept" /\ change'[r] = Improves(r)
  BY <1>1, <1>2 DEF Sweep, Go
<1>4. /\ dist' \in [Ranks -> [Nodes -> Nat]]
      /\ \A q \in Ranks : q # r => dist'[q] = dist[q]
      /\ \A n \in Nodes :
           /\ dist'[r][n] <= dist[r][n]
           /\ \A a \in Offers(r, n) : dist'[r][n] <= a
           /\ dist'[r][n] = dist[r][n] \/ dist'[r][n] \in Offers(r, n)
  BY <1>1, SweptFacts
<1>5. /\ \A q : Owned(q)' = Owned(q) /\ Active(q)' = Active(q)
      /\ \A q, n : Uncut(q, n)' = Uncut(q, n)
      /\ \A n : CutAt(n)' = CutAt(n)
  BY <1>0, SameMesh
<1>6. \A n : SignedStart(n)' = SignedStart(n) /\ Start(n)' = Start(n)
  BY <1>0, SameStart
<1>7. Mapped /\ pc[r] \in InSolve
  BY <1>2 DEF IInv, InSolve
<1>8. \A n \in Active(r) : n \in Nodes
  BY ActiveFacts
<1>9. \A q \in Ranks : pc[q] \in Marching
  BY <1>2 DEF Marching
<1>10. Sync'
  BY <1>3 DEF Sync, Phases
<1>11. Mapped'
  BY <1>0, <1>2, <1>3, SameMesh DEF IInv, Mapped, InSolve
<1>12. Signed' /\ Agreed'
  BY <1>0, <1>5, <1>6, <1>9 DEF IInv, Signed, Agreed
<1>13. Sinking'
  <2>1. ASSUME NEW q \in Ranks, NEW n \in Active(q)
        PROVE dist'[q][n] <= snap[q][n] /\ snap[q][n] <= Start(n)
    <3>1. n \in Nodes
      BY ActiveFacts
    <3>2. dist[q][n] <= snap[q][n] /\ snap[q][n] <= Start(n)
      BY <1>9 DEF IInv, Sinking
    <3>3. dist'[q][n] <= dist[q][n] /\ dist'[q][n] \in Nat /\ dist[q][n] \in Nat /\ snap[q][n] \in Nat
      BY <1>1, <1>4, <3>1
    <3>4. QED
      BY <3>2, <3>3
  <2>2. QED
    BY <1>0, <1>5, <1>6, <2>1 DEF Sinking
<1>14. Grounded'
  <2>1. ASSUME NEW q \in Ranks, NEW n \in Active(q)
        PROVE Founded(n, dist'[q][n]) /\ Founded(n, snap[q][n])
    <3>1. n \in Nodes
      BY ActiveFacts
    <3>2. Founded(n, dist[q][n]) /\ Founded(n, snap[q][n])
      BY <1>9 DEF IInv, Grounded
    <3>3. CASE dist'[q][n] = dist[q][n]
      BY <3>2, <3>3
    <3>4. CASE dist'[q][n] # dist[q][n]
      <4>1. q = r /\ dist'[r][n] \in Offers(r, n)
        BY <1>4, <3>1, <3>4
      <4>2. PICK c \in Owned(r) : c \notin cut[r] /\ n \in NodesOf(c) /\ dist'[r][n] = Approx(r, c, n)
        BY <1>1, <4>1, OffersFacts
      <4>3. c \in Uncut(r, n)
        BY <1>7, <4>2, MappedFacts DEF Uncut
      <4>4. dist'[r][n] >= Via(c, n, snap[r])
        BY <1>1, <4>2, ApproxFacts
      <4>5. QED
        BY <3>2, <4>1, <4>3, <4>4 DEF Founded
    <3>5. QED
      BY <3>3, <3>4
  <2>2. \A n : \A x : Founded(n, x) => (\/ x = Start(n)'
                                        \/ \E q \in Ranks : \E c \in Uncut(q, n)' : x >= Via(c, n, snap'[q]))
    BY <1>0, <1>5, <1>6 DEF Founded
  <2>3. QED
    BY <1>0, <1>5, <2>1, <2>2 DEF Grounded, Founded
<1>15. ASSUME ~change'[r] PROVE \A n \in Active(r) : dist'[r][n] = snap[r][n]
  <2>1. ASSUME NEW n \in Active(r) PROVE dist'[r][n] = snap[r][n]
    <3>1. dist[r][n] = snap[r][n]
      BY <1>2 DEF IInv, Settled, Unchanged
    <3>2. \A a \in Offers(r, n) : ~(dist[r][n] > a)
      BY <1>3, <1>15 DEF Improves
    <3>3. dist'[r][n] \in Nat /\ dist[r][n] \in Nat /\ dist'[r][n] <= dist[r][n]
      BY <1>1, <1>4, <1>8
    <3>4. dist'[r][n] = dist[r][n] \/ ~(dist[r][n] > dist'[r][n])
      BY <1>4, <1>8, <3>2
    <3>5. QED
      BY <3>1, <3>3, <3>4
  <2>2. QED
    BY <2>1
<1>16. ASSUME NEW n \in Active(r), CutAt(n) = {}, NEW c \in Uncut(r, n)
       PROVE dist'[r][n] <= Via(c, n, snap[r])
  <2>1. c \in Owned(r) /\ ~IsCut(c) /\ n \in NodesOf(c) /\ c \in Cells /\ n \in Nodes
    BY <1>8, Shares DEF Uncut
  <2>2. c \notin cut[r] /\ n \notin intersected[r]
    BY <1>7, <1>16, <2>1, MappedFacts
  <2>3. Approx(r, c, n) = Via(c, n, snap[r])
    BY <1>1, <2>1, <2>2, ApproxFacts
  <2>4. CASE c \in corona[r] \cup Reached(r)
    <3>1. Approx(r, c, n) \in Offers(r, n)
      BY <1>1, <2>1, <2>2, <2>4, OffersFacts
    <3>2. QED
      BY <1>4, <2>1, <2>3, <3>1
  <2>5. CASE c \notin corona[r] \cup Reached(r)
    <3>1. \A m \in NodesOf(c) : snap[r][m] \in Nat /\ ~(snap[r][m] < MaxDistance)
      BY <1>1, <2>1, <2>5, Shares DEF Reached
    <3>2. PICK m \in UNION OppositeFaces(c, n) : Via(c, n, snap[r]) = H + snap[r][m]
      BY <2>1, <3>1, ViaFacts
    <3>3. m \in NodesOf(c)
      BY <2>1, Opposite
    <3>4. Via(c, n, snap[r]) >= MaxDistance /\ Via(c, n, snap[r]) \in Nat
      BY <3>1, <3>2, <3>3, Lengths
    <3>5. dist[r][n] <= snap[r][n] /\ snap[r][n] <= MaxDistance
      <4>1. Start(n) = IF ls[n] = 0 THEN 0 ELSE MaxDistance
        BY <1>1, <1>16, <2>1, StartFacts DEF IInv
      <4>2. Start(n) <= MaxDistance
        BY <4>1, Lengths
      <4>3. /\ dist[r][n] <= snap[r][n] /\ snap[r][n] <= Start(n)
            /\ snap[r][n] \in Nat /\ Start(n) \in Nat
        BY <1>1, <1>9, <1>16, <2>1, StartFacts DEF IInv, Sinking
      <4>4. QED
        BY <4>2, <4>3, Lengths
    <3>6. dist'[r][n] \in Nat /\ dist[r][n] \in Nat /\ snap[r][n] \in Nat /\ dist'[r][n] <= dist[r][n]
      BY <1>1, <1>4, <2>1
    <3>7. QED
      BY <3>4, <3>5, <3>6, Lengths
  <2>6. QED
    BY <2>4, <2>5
<1>17. Settled'
  <2>1. ASSUME NEW q \in Ranks, q # r
        PROVE /\ pc'[q] = "march" => \A n \in Active(q) : dist'[q][n] = snap[q][n]
              /\ pc'[q] = "swept" /\ ~change'[q] =>
                   /\ \A n \in Active(q) : dist'[q][n] = snap[q][n]
                   /\ \A n \in Active(q) : CutAt(n) = {} =>
                        \A c \in Uncut(q, n) : dist'[q][n] <= Via(c, n, snap[q])
    BY <1>3, <1>4, <2>1 DEF IInv, Settled, Unchanged, NoShorter
  <2>2. \A q \in Ranks : pc'[q] # "finish"
    BY <1>3
  <2>3. QED
    BY <1>0, <1>3, <1>5, <1>15, <1>16, <2>1, <2>2 DEF Settled, Unchanged, NoShorter
<1>18. Measured' /\ Corrected'
  BY <1>3 DEF Measured, Corrected
<1>19. QED
  BY <1>10, <1>11, <1>12, <1>13, <1>14, <1>17, <1>18 DEF IInv

LEMMA ExchangeSweepStep == ASSUME IInv, TypeOK', ExchangeSweep PROVE IInv'
<1>0. /\ part' = part /\ ls' = ls /\ cut' = cut /\ intersected' = intersected /\ eta' = eta
      /\ signed' = signed /\ scale' = scale
  BY DEF ExchangeSweep
<1>1. /\ TypeOK /\ snap \in [Ranks -> [Nodes -> Nat]] /\ dist \in [Ranks -> [Nodes -> Nat]]
  BY DEF IInv, TypeOK
<1>2. \A r \in Ranks : pc[r] = "swept"
  BY DEF ExchangeSweep, All
<1>3. \/ \A r \in Ranks : pc'[r] = "march"
      \/ (\A r \in Ranks : pc'[r] = "finish") /\ (\A r \in Ranks : ~change[r])
  BY DEF ExchangeSweep, MarchesOn
<1>4. \A r \in Ranks : pc[r] \in Marching /\ pc'[r] \in Marching
  BY <1>2, <1>3 DEF Marching
<1>5. dist' = ExchangedMin(dist) /\ snap' = dist' /\ dist' \in [Ranks -> [Nodes -> Nat]]
  BY DEF ExchangeSweep, TypeOK
<1>6. ASSUME NEW r \in Ranks, NEW n \in Active(r)
      PROVE /\ \E q \in Sharing(n) : q \in Ranks /\ n \in Active(q) /\ dist'[r][n] = dist[q][n]
            /\ \A q \in Ranks : n \in Active(q) => dist'[r][n] = dist'[q][n]
            /\ dist'[r][n] <= dist[r][n] /\ n \in Nodes
  <2>1. /\ \E q \in Sharing(n) : ExchangedMin(dist)[r][n] = dist[q][n]
        /\ \A q \in Sharing(n) : ExchangedMin(dist)[r][n] <= dist[q][n]
        /\ \A q \in Sharing(n) : ExchangedMin(dist)[r][n] = ExchangedMin(dist)[q][n]
    BY <1>1, ExchangedMinFacts
  <2>2. \A q \in Ranks : n \in Active(q) => q \in Sharing(n)
    BY DEF Sharing
  <2>3. QED
    BY <1>5, <2>1, <2>2, ActiveFacts
<1>7. /\ \A q : Owned(q)' = Owned(q) /\ Active(q)' = Active(q)
      /\ \A q, n : Uncut(q, n)' = Uncut(q, n)
      /\ \A n : CutAt(n)' = CutAt(n)
  BY <1>0, SameMesh
<1>8. \A n : SignedStart(n)' = SignedStart(n) /\ Start(n)' = Start(n)
  BY <1>0, SameStart
<1>9. Sync'
  BY <1>3 DEF Sync, Phases
<1>10. Mapped'
  BY <1>0, <1>2, <1>4, SameMesh DEF IInv, Mapped, InSolve, Marching
<1>11. Signed'
  BY <1>0, <1>4, <1>7, <1>8 DEF IInv, Signed
<1>12. Agreed'
  BY <1>5, <1>6, <1>7 DEF Agreed
<1>13. ASSUME NEW r \in Ranks, NEW n \in Active(r)
       PROVE dist'[r][n] <= snap[r][n] /\ dist'[r][n] <= Start(n) /\ dist'[r][n] \in Nat
  <2>1. dist[r][n] <= snap[r][n] /\ snap[r][n] <= Start(n)
    BY <1>4 DEF IInv, Sinking
  <2>2. Start(n) \in Nat /\ dist'[r][n] \in Nat /\ dist[r][n] \in Nat /\ snap[r][n] \in Nat
    BY <1>1, <1>5, <1>6, StartFacts
  <2>3. QED
    BY <1>6, <2>1, <2>2
<1>14. Sinking'
  BY <1>5, <1>7, <1>8, <1>13 DEF Sinking
<1>15. ASSUME NEW q \in Ranks, NEW n, NEW c \in Uncut(q, n)
       PROVE /\ Via(c, n, snap'[q]) <= Via(c, n, snap[q])
             /\ Via(c, n, snap'[q]) \in Nat /\ Via(c, n, snap[q]) \in Nat
  <2>1. c \in Owned(q) /\ n \in NodesOf(c) /\ c \in Cells /\ NodesOf(c) \subseteq Active(q)
    BY Shares DEF Uncut
  <2>2. \A m \in NodesOf(c) : snap[q][m] \in Nat /\ snap'[q][m] \in Nat /\ snap'[q][m] <= snap[q][m]
    BY <1>1, <1>5, <1>13, <2>1, ActiveFacts
  <2>3. QED
    BY <2>1, <2>2, ViaMonotone, ViaFacts
<1>16. Grounded'
  <2>1. ASSUME NEW r \in Ranks, NEW n \in Active(r)
        PROVE \/ dist'[r][n] = Start(n)
              \/ \E q \in Ranks : \E c \in Uncut(q, n) : dist'[r][n] >= Via(c, n, snap'[q])
    <3>1. PICK q \in Ranks : n \in Active(q) /\ dist'[r][n] = dist[q][n]
      BY <1>6
    <3>2. Founded(n, dist[q][n])
      BY <1>4, <3>1 DEF IInv, Grounded
    <3>3. CASE dist[q][n] = Start(n)
      BY <3>1, <3>3
    <3>4. CASE \E p \in Ranks : \E c \in Uncut(p, n) : dist[q][n] >= Via(c, n, snap[p])
      <4>1. PICK p \in Ranks : \E c \in Uncut(p, n) : dist[q][n] >= Via(c, n, snap[p])
        BY <3>4
      <4>2. PICK c \in Uncut(p, n) : dist[q][n] >= Via(c, n, snap[p])
        BY <4>1
      <4>3. dist'[r][n] \in Nat
        BY <1>13
      <4>4. dist'[r][n] >= Via(c, n, snap'[p])
        BY <1>15, <3>1, <4>2, <4>3
      <4>5. QED
        BY <4>4
    <3>5. QED
      BY <3>2, <3>3, <3>4 DEF Founded
  <2>2. QED
    BY <1>5, <1>7, <1>8, <2>1 DEF Grounded, Founded
<1>17. CASE \A r \in Ranks : pc'[r] = "march"
  <2>1. Settled'
    BY <1>5, <1>17 DEF Settled, Unchanged
  <2>2. Measured' /\ Corrected'
    BY <1>17 DEF Measured, Corrected
  <2>3. QED
    BY <1>9, <1>10, <1>11, <1>12, <1>14, <1>16, <2>1, <2>2 DEF IInv
<1>18. CASE (\A r \in Ranks : pc'[r] = "finish") /\ (\A r \in Ranks : ~change[r])
  <2>1. \A r \in Ranks : Unchanged(r) /\ NoShorter(r)
    BY <1>2, <1>18 DEF IInv, Settled
  <2>2. ASSUME NEW r \in Ranks, NEW n \in Active(r)
        PROVE dist'[r][n] = dist[r][n] /\ snap'[r][n] = snap[r][n]
    <3>1. PICK q \in Ranks : n \in Active(q) /\ dist'[r][n] = dist[q][n]
      BY <1>6
    <3>2. dist[q][n] = snap[q][n] /\ dist[r][n] = snap[r][n]
      BY <2>1, <3>1 DEF Unchanged
    <3>3. snap[q][n] = snap[r][n]
      BY <1>4, <3>1 DEF IInv, Agreed
    <3>4. QED
      BY <1>5, <3>1, <3>2, <3>3
  <2>3. ASSUME NEW r \in Ranks, NEW n \in Active(r), CutAt(n) = {}, NEW c \in Uncut(r, n)
        PROVE dist'[r][n] <= Via(c, n, snap'[r])
    <3>1. dist[r][n] <= Via(c, n, snap[r])
      BY <2>1, <2>3 DEF NoShorter
    <3>2. c \in Owned(r) /\ n \in NodesOf(c) /\ c \in Cells /\ NodesOf(c) \subseteq Active(r)
      BY Shares DEF Uncut
    <3>3. \A m \in NodesOf(c) : snap[r][m] \in Nat /\ snap'[r][m] = snap[r][m]
      BY <1>1, <2>2, <3>2, ActiveFacts
    <3>4. Via(c, n, snap'[r]) = Via(c, n, snap[r])
      BY <3>2, <3>3, ViaSame
    <3>5. QED
      BY <2>2, <3>1, <3>4
  <2>4. Settled'
    BY <1>5, <1>7, <1>18, <2>3 DEF Settled, Unchanged, NoShorter
  <2>5. Measured' /\ Corrected'
    BY <1>18 DEF Measured, Corrected
  <2>6. QED
    BY <1>9, <1>10, <1>11, <1>12, <1>14, <1>16, <2>4, <2>5 DEF IInv
<1>19. QED
  BY <1>3, <1>17, <1>18

(* Outside of solve() and in its last step nothing is claimed yet.         *)
LEMMA OutsideStep ==
  ASSUME IInv, TypeOK', SetupDofs \/ Solve \/ Finish
  PROVE IInv'
<1>1. PICK place \in {"ready", "reconstruct", "solved"} : \A r \in Ranks : pc'[r] = place
  BY DEF SetupDofs, Solve, Finish, GoAll
<1>2. Sync'
  BY <1>1 DEF Sync, Phases
<1>3. /\ Mapped' /\ Measured' /\ Corrected' /\ Signed' /\ Agreed' /\ Sinking' /\ Grounded'
      /\ Settled'
  BY <1>1 DEF Mapped, Measured, Corrected, Signed, Agreed, Sinking, Grounded, Settled, InSolve,
              Marching
<1>4. QED
  BY <1>2, <1>3 DEF IInv

LEMMA StutterStep == ASSUME IInv, TypeOK', UNCHANGED vars PROVE IInv'
<1>0. /\ part' = part /\ ls' = ls /\ cut' = cut /\ intersected' = intersected /\ eta' = eta
      /\ signed' = signed /\ scale' = scale /\ dist' = dist /\ snap' = snap /\ pc' = pc
      /\ change' = change /\ corr' = corr
  BY DEF vars
<1>1. /\ \A q : Owned(q)' = Owned(q) /\ Active(q)' = Active(q) /\ CutCells(q)' = CutCells(q)
      /\ \A q, n : Uncut(q, n)' = Uncut(q, n) /\ OwnCutAt(q, n)' = OwnCutAt(q, n)
      /\ \A n : CutAt(n)' = CutAt(n) /\ Unshifted(n)' = Unshifted(n)
  BY <1>0, SameMesh
<1>2. \A n : SignedStart(n)' = SignedStart(n) /\ Start(n)' = Start(n)
  BY <1>0, SameStart
<1>3. Sync' /\ Mapped' /\ Measured'
  BY <1>0, <1>1 DEF IInv, Sync, Mapped, Measured
<1>4. Corrected' /\ Signed' /\ Agreed' /\ Sinking'
  BY <1>0, <1>1, <1>2 DEF IInv, Corrected, Signed, Agreed, Sinking
<1>5. Grounded'
  BY <1>0, <1>1, <1>2 DEF IInv, Grounded, Founded
<1>6. Settled'
  BY <1>0, <1>1 DEF IInv, Settled, Unchanged, NoShorter
<1>7. QED
  BY <1>3, <1>4, <1>5, <1>6 DEF IInv

LEMMA InvInit == Init => IInv
<1> SUFFICES ASSUME Init PROVE IInv
  OBVIOUS
<1>1. TypeOK /\ \A r \in Ranks : pc[r] = "ready"
  BY TypeInit DEF Init
<1>2. QED
  BY <1>1 DEF IInv, Sync, Phases, Mapped, Measured, Corrected, Signed, Agreed, Sinking, Grounded,
              Settled, InSolve, Marching

LEMMA InvStep == IInv /\ [Next]_vars => IInv'
<1> SUFFICES ASSUME IInv, [Next]_vars PROVE IInv'
  OBVIOUS
<1>1. TypeOK'
  BY TypeStep DEF IInv
<1>2. CASE SetupDofs \/ Solve \/ Finish
  BY <1>1, <1>2, OutsideStep
<1>3. CASE ExchangeFirst
  BY <1>1, <1>3, ExchangeFirstStep
<1>4. CASE ConserveVolume
  BY <1>1, <1>4, ConserveStep
<1>5. CASE ExchangeSweep
  BY <1>1, <1>5, ExchangeSweepStep
<1>6. ASSUME NEW r \in Ranks, Reconstruct(r) PROVE IInv'
  BY <1>1, <1>6, ReconstructStep
<1>7. ASSUME NEW r \in Ranks, CellCorrection(r) PROVE IInv'
  BY <1>1, <1>7, CellCorrectionStep
<1>8. ASSUME NEW r \in Ranks, Sweep(r) PROVE IInv'
  BY <1>1, <1>8, SweepStep
<1>9. CASE UNCHANGED vars
  BY <1>1, <1>9, StutterStep
<1>10. QED
  BY <1>2, <1>3, <1>4, <1>5, <1>6, <1>7, <1>8, <1>9 DEF Next, Collective, RankStep

-----------------------------------------------------------------------------
(* What a solve returns                                                    *)

LEMMA InvIsShortest == ASSUME IInv, ShiftIsGentle, \A r \in Ranks : pc[r] = "finish"
                       PROVE \E d \in {[n \in Nodes |-> dist[CHOOSE r \in Sharing(n) : TRUE][n]]} :
                               /\ \A r \in Ranks : \A n \in Active(r) : dist[r][n] = d[n]
                               /\ Shortest(d)
<1> DEFINE d == [n \in Nodes |-> dist[CHOOSE r \in Sharing(n) : TRUE][n]]
<1>1. /\ TypeOK /\ part \in Partitions
      /\ snap \in [Ranks -> [Nodes -> Nat]] /\ dist \in [Ranks -> [Nodes -> Nat]]
  BY DEF IInv, TypeOK
<1>2. \A r \in Ranks : pc[r] \in Marching /\ Unchanged(r) /\ NoShorter(r)
  BY DEF IInv, Settled, Marching
<1>3. ASSUME NEW r \in Ranks, NEW n \in Active(r)
      PROVE d[n] = dist[r][n] /\ d[n] = snap[r][n] /\ d[n] \in Nat /\ n \in Nodes
  <2>1. n \in Nodes /\ r \in Sharing(n)
    BY ActiveFacts
  <2>2. PICK q \in Sharing(n) : d[n] = dist[q][n]
    BY <2>1
  <2>3. q \in Ranks /\ n \in Active(q)
    BY <2>1, ActiveFacts
  <2>4. dist[r][n] = snap[r][n] /\ dist[q][n] = snap[q][n]
    BY <1>2, <2>3 DEF Unchanged
  <2>5. snap[r][n] = snap[q][n]
    BY <1>2, <2>3 DEF IInv, Agreed
  <2>6. QED
    BY <1>1, <2>1, <2>2, <2>4, <2>5
<1> HIDE DEF d
<1>4. ASSUME NEW q \in Ranks, NEW n, NEW c \in Uncut(q, n)
      PROVE Via(c, n, snap[q]) = Via(c, n, d) /\ Via(c, n, d) \in Nat /\ Via(c, n, d) >= H
  <2>1. c \in Owned(q) /\ n \in NodesOf(c) /\ c \in Cells /\ NodesOf(c) \subseteq Active(q)
    BY Shares DEF Uncut
  <2>2. \A m \in NodesOf(c) : d[m] \in Nat /\ snap[q][m] = d[m]
    BY <1>3, <2>1
  <2>3. QED
    BY <2>1, <2>2, ViaSame, ViaFacts
<1>5. ASSUME NEW n \in Nodes
      PROVE \E r \in Ranks : n \in Active(r)
  <2>1. PICK c \in Cells : n \in NodesOf(c)
    BY MeshAssumption
  <2>2. part[c] \in Ranks /\ c \in Owned(part[c])
    BY <1>1, Divided
  <2>3. QED
    BY <2>1, <2>2, Shares
<1>6. ASSUME NEW n \in Nodes
      PROVE /\ d[n] \in Nat /\ d[n] <= Start(n)
            /\ d[n] = Start(n) \/ \E q \in Ranks : \E c \in Uncut(q, n) : d[n] >= Via(c, n, d)
  <2>1. PICK r \in Ranks : n \in Active(r)
    BY <1>5
  <2>2. d[n] = snap[r][n] /\ d[n] \in Nat
    BY <1>3, <2>1
  <2>3. snap[r][n] <= Start(n) /\ Founded(n, snap[r][n])
    BY <1>2, <2>1 DEF IInv, Sinking, Grounded
  <2>4. QED
    BY <1>4, <2>2, <2>3 DEF Founded
<1>7. ASSUME NEW n \in Nodes, NEW c \in Cells, ~IsCut(c), n \in NodesOf(c)
      PROVE /\ d[n] <= Via(c, n, d) /\ Via(c, n, d) \in Nat
            /\ \E q \in Ranks : c \in Uncut(q, n)
  <2>1. PICK q \in Ranks : c \in Owned(q)
    BY <1>1, Divided
  <2>2. c \in Uncut(q, n) /\ n \in Active(q) /\ NodesOf(c) \subseteq Active(q)
    BY <1>7, <2>1, Shares DEF Uncut
  <2>3. Via(c, n, snap[q]) = Via(c, n, d) /\ Via(c, n, d) \in Nat
    BY <1>4, <2>2
  <2>4. CASE CutAt(n) = {}
    BY <1>2, <1>3, <2>2, <2>3, <2>4 DEF NoShorter
  <2>5. CASE CutAt(n) # {}
    <3>1. \A m \in NodesOf(c) : d[m] \in Nat /\ m \in Nodes
      BY <1>3, <2>2
    <3>2. PICK m \in UNION OppositeFaces(c, n) : Via(c, n, d) = H + d[m]
      BY <1>7, <3>1, ViaFacts
    <3>3. m \in NodesOf(c) /\ m \in Nodes
      BY <1>7, <3>1, Opposite
    <3>4. Start(n) <= H + Min({H, Start(m)})
      BY <1>7, <2>5 DEF ShiftIsGentle
    <3>5. Start(n) \in Nat /\ Start(m) \in Nat
      BY <1>1, <3>3, StartFacts
    <3>6. {H, Start(m)} \in SUBSET Nat /\ {H, Start(m)} # {}
      BY <3>5, Lengths
    <3>7. Min({H, Start(m)}) \in Nat /\ Min({H, Start(m)}) <= H /\ Min({H, Start(m)}) <= Start(m)
      BY <3>6, MinFacts
    <3>8. d[m] = Start(m) \/ d[m] >= H
      <4>1. \A p \in Ranks : \A k \in Uncut(p, m) : Via(k, m, d) \in Nat /\ Via(k, m, d) >= H
        BY <1>4
      <4>2. d[m] \in Nat
        BY <3>1, <3>3
      <4>3. QED
        BY <1>6, <3>3, <4>1, <4>2, Lengths
    <3>9. d[m] >= Min({H, Start(m)})
      BY <3>1, <3>3, <3>5, <3>7, <3>8, Lengths
    <3>10. d[n] <= Start(n) /\ d[n] \in Nat /\ d[m] \in Nat
      BY <1>6, <3>1, <3>3
    <3>11. QED
      BY <2>2, <2>3, <3>2, <3>4, <3>5, <3>7, <3>9, <3>10, Lengths
  <2>6. QED
    BY <2>2, <2>3, <2>4, <2>5
<1>8. Shortest(d)
  <2> SUFFICES ASSUME NEW n \in Nodes,
                      NEW ways, ways = {Via(c, n, d) : c \in {x \in Cells : ~IsCut(x) /\ n \in NodesOf(x)}}
               PROVE d[n] \in {Start(n)} \cup ways /\ \A w \in {Start(n)} \cup ways : d[n] <= w
    BY DEF Shortest, Start
  <2>1. \A w \in ways : d[n] <= w
    BY <1>7
  <2>2. ASSUME d[n] # Start(n) PROVE d[n] \in ways
    <3>1. PICK q \in Ranks : \E c \in Uncut(q, n) : d[n] >= Via(c, n, d)
      BY <1>6, <2>2
    <3>2. PICK c \in Uncut(q, n) : d[n] >= Via(c, n, d)
      BY <3>1
    <3>3. c \in Cells /\ ~IsCut(c) /\ n \in NodesOf(c)
      BY DEF Uncut, Owned
    <3>4. d[n] <= Via(c, n, d) /\ Via(c, n, d) \in Nat /\ d[n] \in Nat
      BY <1>6, <1>7, <3>3
    <3>5. d[n] = Via(c, n, d)
      BY <3>2, <3>4
    <3>6. QED
      BY <3>3, <3>5
  <2>3. QED
    BY <1>6, <2>1, <2>2
<1>9. QED
  BY <1>3, <1>8 DEF d

(* When the marching loop ends, the ranks' copies agree and are the        *)
(* shortest ways through uncut cells that one process would have found, on *)
(* every mesh and for every division of it, if the volume's shift does not *)
(* tear the front.                                                         *)
THEOREM DistanceIsShortest == Spec => [](ShiftIsGentle => DistanceShortest)
<1>1. IInv => (ShiftIsGentle => DistanceShortest)
  BY InvIsShortest DEF DistanceShortest, All
<1>2. QED
  BY <1>1, InvInit, InvStep, PTL DEF Spec

(* A correction that leaves every node of a cut cell within a cell's       *)
(* length of the interface is gentle.                                      *)
LEMMA SmallShiftIsGentle ==
  ASSUME TypeOK, \A S \in SUBSET Cells : Abs(SumFunctionOnSet(eta, S)) <= H - Near
  PROVE  ShiftIsGentle
<1>1. ASSUME NEW n \in Nodes, CutAt(n) # {} PROVE Start(n) <= H
  <2>1. Abs(SumFunctionOnSet(eta, CutAt(n))) <= H - Near
    BY DEF CutAt
  <2>2. /\ SumFunctionOnSet(eta, CutAt(n)) \in Int /\ scale \in {0, 1}
        /\ SignedStart(n) = Sgn(ls[n]) * Near + scale * SumFunctionOnSet(eta, CutAt(n))
    BY <1>1, StartFacts DEF TypeOK, Unshifted
  <2>3. ASSUME NEW s \in Int, NEW sign \in {-1, 0, 1}, NEW k \in {0, 1}, NEW l \in Nat, l <= H,
               Abs(s) <= H - l
        PROVE Abs(sign * l + k * s) <= H
    BY <2>3, Lengths DEF Abs
  <2>4. Near <= H /\ Sgn(ls[n]) \in {-1, 0, 1}
    BY NearIsShort DEF Sgn
  <2>5. QED
    BY <2>1, <2>2, <2>3, <2>4, Lengths DEF Start
<1>2. ASSUME NEW n \in Nodes, NEW c \in Cells, CutAt(n) # {}, n \in NodesOf(c),
             NEW m \in UNION OppositeFaces(c, n)
      PROVE Start(n) <= H + Min({H, Start(m)})
  <2>1. m \in Nodes
    BY <1>2, Opposite, MeshAssumption
  <2>2. Start(n) \in Nat /\ Start(m) \in Nat
    BY <2>1, StartFacts
  <2>3. {H, Start(m)} \in SUBSET Nat /\ {H, Start(m)} # {}
    BY <2>2, Lengths
  <2>4. Min({H, Start(m)}) \in Nat
    BY <2>3, MinFacts
  <2>5. QED
    BY <1>1, <1>2, <2>2, <2>4, Lengths
<1>3. QED
  BY <1>2 DEF ShiftIsGentle

(* So the solve returns the shortest ways whenever no sum of cell-wise     *)
(* corrections, wherever the interface lies, moves a node of a cut cell    *)
(* out of its cell.                                                        *)
THEOREM SmallShiftIsShortest ==
  ASSUME \A e \in Etas : \A S \in SUBSET Cells : Abs(SumFunctionOnSet(e, S)) <= H - Near
  PROVE  Spec => []DistanceShortest
<1>1. TypeOK => ShiftIsGentle
  BY SmallShiftIsGentle DEF TypeOK
<1>2. QED
  BY <1>1, DistanceIsShortest, TypeCorrect, PTL

LEMMA SolvedStep ==
  ASSUME MaxDistance > 0, IInv, Solved, [Next]_vars
  PROVE Solved'
<1>1. CASE Finish
  <2>1. \A r \in Ranks : pc[r] = "finish" /\ pc[r] \in Marching
    BY <1>1 DEF Finish, GoAll, All, Marching
  <2>2. /\ part' = part /\ ls' = ls /\ eta' = eta /\ scale' = scale /\ dist' = dist
        /\ signed' = WithSign(dist)
    BY <1>1 DEF Finish
  <2>3. TypeOK /\ dist \in [Ranks -> [Nodes -> Nat]] /\ snap \in [Ranks -> [Nodes -> Nat]]
    BY DEF IInv, TypeOK
  <2>4. ASSUME NEW r \in Ranks, NEW n \in Active(r)
        PROVE /\ signed'[r][n] = Sgn(SignedStart(n)) * dist[r][n]
              /\ CutAt(n) = {} => Sgn(signed'[r][n]) = Sgn(ls[n])
    <3>1. n \in Nodes /\ signed[r][n] = SignedStart(n) /\ dist[r][n] \in Nat
      BY <2>1, <2>3, ActiveFacts DEF IInv, Signed
    <3>2. signed'[r][n] = dist[r][n] * Sgn(SignedStart(n))
      BY <2>2, <2>3, <3>1, WithSignType
    <3>3. Sgn(SignedStart(n)) \in {-1, 0, 1}
      BY DEF Sgn
    <3>4. signed'[r][n] = Sgn(SignedStart(n)) * dist[r][n]
      BY <3>1, <3>2, <3>3
    <3>5. ASSUME CutAt(n) = {} PROVE Sgn(signed'[r][n]) = Sgn(ls[n])
      <4>1. /\ SignedStart(n) = Sgn(ls[n]) * MaxDistance /\ ls[n] \in Int
            /\ Start(n) = IF ls[n] = 0 THEN 0 ELSE MaxDistance
        BY <2>3, <3>1, <3>5, StartFacts, MeshAssumption DEF TypeOK
      <4>2. Sgn(SignedStart(n)) = Sgn(ls[n]) /\ Sgn(ls[n]) \in {-1, 0, 1}
        BY <4>1, Lengths DEF Sgn
      <4>3. CASE ls[n] = 0
        BY <3>1, <3>4, <4>2, <4>3 DEF Sgn
      <4>4. CASE ls[n] # 0
        <5>1. Founded(n, dist[r][n])
          BY <2>1 DEF IInv, Grounded
        <5>2. ASSUME NEW q \in Ranks, NEW c \in Uncut(q, n)
              PROVE Via(c, n, snap[q]) \in Nat /\ Via(c, n, snap[q]) > 0
          <6>1. c \in Cells /\ n \in NodesOf(c) /\ NodesOf(c) \subseteq Nodes
            BY Shares DEF Uncut
          <6>2. QED
            BY <2>3, <6>1, ViaFacts, Lengths
        <5>3. dist[r][n] > 0
          BY <3>1, <4>1, <4>4, <5>1, <5>2, Lengths DEF Founded
        <5>4. Sgn(Sgn(ls[n]) * dist[r][n]) = Sgn(ls[n])
          BY <3>1, <4>2, <5>3 DEF Sgn
        <5>5. QED
          BY <3>4, <4>2, <5>4
      <4>5. QED
        BY <4>3, <4>4
    <3>6. QED
      BY <3>4, <3>5
  <2>5. /\ \A r : Active(r)' = Active(r)
        /\ \A n : CutAt(n)' = CutAt(n) /\ SignedStart(n)' = SignedStart(n)
    BY <2>2, SameMesh, SameStart
  <2>6. QED
    BY <2>2, <2>4, <2>5 DEF Solved
<1>2. CASE Next /\ ~Finish
  <2>1. \A r \in Ranks : pc'[r] # "solved"
    <3>1. CASE SetupDofs \/ Solve \/ ExchangeFirst \/ ConserveVolume \/ ExchangeSweep
      BY <3>1 DEF SetupDofs, Solve, ExchangeFirst, ConserveVolume, ExchangeSweep, GoAll
    <3>2. ASSUME NEW r \in Ranks, RankStep(r) PROVE \A q \in Ranks : pc'[q] # "solved"
      <4>1. pc[r] \in {"reconstruct", "volume", "march"} /\ pc' = [pc EXCEPT ![r] = pc'[r]]
            /\ pc'[r] \in {"first", "conserve", "swept"}
        BY <3>2 DEF RankStep, Reconstruct, CellCorrection, Sweep, Go, IInv, TypeOK
      <4>2. \A q \in Ranks : pc[q] # "solved"
        BY <4>1, Together DEF IInv, Phases
      <4>3. QED
        BY <4>1, <4>2 DEF IInv, TypeOK
    <3>3. QED
      BY <1>2, <3>1, <3>2 DEF Next, Collective
  <2>2. QED
    BY <2>1 DEF Solved
<1>3. CASE UNCHANGED vars
  <2>1. /\ part' = part /\ ls' = ls /\ eta' = eta /\ scale' = scale /\ dist' = dist
        /\ signed' = signed /\ pc' = pc
    BY <1>3 DEF vars
  <2>2. /\ \A r : Active(r)' = Active(r)
        /\ \A n : CutAt(n)' = CutAt(n) /\ SignedStart(n)' = SignedStart(n)
    BY <2>1, SameMesh, SameStart
  <2>3. QED
    BY <2>1, <2>2 DEF Solved
<1>4. QED
  BY <1>1, <1>2, <1>3

(* The sign solve() hands out is that of the volume-conserving interface   *)
(* and, off the cut cells, that of the level set, on every rank, also zero *)
(* exactly on the interface; a max_distance of zero would lose it.         *)
THEOREM SideIsKept == ASSUME MaxDistance > 0 PROVE Spec => []SideKept
<1>1. Init => Solved
  BY DEF Init, Solved
<1>2. IInv /\ Solved /\ [Next]_vars => Solved'
  BY SolvedStep
<1>3. Solved => SideKept
  BY DEF Solved, SideKept, All
<1>4. QED
  BY <1>1, <1>2, <1>3, InvInit, InvStep, PTL DEF Spec
=============================================================================
