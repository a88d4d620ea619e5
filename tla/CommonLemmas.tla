----------------------------- MODULE CommonLemmas -----------------------------
(***************************************************************************)
(* Lemmas the proofs of several components cite: induction over the natural  *)
(* numbers, recursion up to one of them and induction over the subsets of a  *)
(* finite set, stated of sets and functions so that they take no operator;   *)
(* sums, folds and lists; and the acceptance rules over one answer, for any  *)
(* task and any set of severities.  The last rest on one fact: an answer that*)
(* names no criterion twice has one item per criterion, so what the mapping  *)
(* the code builds kept of it is that item.                                  *)
(***************************************************************************)
EXTENDS ReviewDecision, Functions, SequencesExt, FiniteSetsExt, FiniteSetTheorems,
        SequenceTheorems, WellFoundedInduction, TLAPS

-----------------------------------------------------------------------------
(* Induction.                                                                *)

\* A set of numbers that holds zero and the successor of each of its members holds
\* every number.
LEMMA SetInduction ==
  ASSUME NEW S \in SUBSET Nat, 0 \in S, \A n \in S : n + 1 \in S
  PROVE  S = Nat
<1> DEFINE below == {ss \in Nat \X Nat : ss[1] < ss[2]}
           T == Nat \ S
<1>1. IsWellFoundedOn(below, Nat)
  BY NatLessThanWellFounded DEF OpToRel
<1>2. \A x, y \in Nat : y < x => <<y, x>> \in below
  OBVIOUS
<1> HIDE DEF below
<1> SUFFICES ASSUME T # {} PROVE FALSE
  OBVIOUS
<1>3. PICK x \in T : \A y \in T : <<y, x>> \notin below
  BY <1>1, WFMin, Zenon
<1>4. x \in Nat /\ x # 0 /\ x - 1 \in Nat /\ x - 1 < x /\ (x - 1) + 1 = x
  OBVIOUS
<1>5. x - 1 \in S
  BY <1>2, <1>3, <1>4
<1> QED
  BY <1>4, <1>5

\* A function defined by recursion over 0 .. N exists, and is of its type.
Iterates(f, N, S, first, step) ==
  f \in [0 .. N -> S] /\ f[0] = first /\ \A n \in 1 .. N : f[n] = step[<<n, f[n - 1]>>]

LEMMA Iterated ==
  ASSUME NEW N \in Nat, NEW S, NEW first \in S, NEW step,
         \A n \in 1 .. N, s \in S : step[<<n, s>>] \in S
  PROVE  \E f : Iterates(f, N, S, first, step)
<1> DEFINE Upto(m, f) == Iterates(f, m, S, first, step)
           T == {m \in Nat : m <= N => \E f : Upto(m, f)}
<1>1. 0 \in T
  <2>1. Upto(0, [n \in 0 .. 0 |-> first])
    BY DEF Iterates
  <2> HIDE DEF Upto
  <2> QED
    BY <2>1
<1>2. ASSUME NEW m \in T PROVE m + 1 \in T
  <2> SUFFICES ASSUME m + 1 <= N PROVE \E f : Upto(m + 1, f)
    OBVIOUS
  <2>1. PICK f : Upto(m, f)
    <3>1. m <= N
      OBVIOUS
    <3> HIDE DEF Upto
    <3> QED
      BY <3>1
  <2> DEFINE g == [n \in 0 .. m + 1 |-> IF n <= m THEN f[n] ELSE step[<<m + 1, f[m]>>]]
  <2>2. f[m] \in S /\ step[<<m + 1, f[m]>>] \in S
    BY <2>1 DEF Iterates
  <2>3. g \in [0 .. m + 1 -> S] /\ g[0] = first
    BY <2>1, <2>2 DEF Iterates
  <2>4. ASSUME NEW n \in 1 .. m + 1 PROVE g[n] = step[<<n, g[n - 1]>>]
    <3>1. CASE n = m + 1
      <4>1. g[m + 1] = step[<<m + 1, f[m]>>] /\ g[m] = f[m] /\ n - 1 = m
        BY <3>1
      <4> QED
        BY <3>1, <4>1
    <3>2. CASE n # m + 1
      <4>1. n \in 1 .. m /\ n - 1 \in 0 .. m
        BY <3>2
      <4>2. g[n] = f[n] /\ g[n - 1] = f[n - 1]
        BY <4>1
      <4> QED
        BY <2>1, <4>1, <4>2 DEF Iterates
    <3> QED
      BY <3>1, <3>2
  <2>5. Upto(m + 1, g)
    BY <2>3, <2>4 DEF Iterates
  <2> HIDE DEF Upto, g
  <2> QED
    BY <2>5
<1>3. T = Nat
  <2>1. T \in SUBSET Nat
    OBVIOUS
  <2> HIDE DEF T
  <2> QED
    BY <1>1, <1>2, <2>1, SetInduction
<1>4. N \in T
  BY <1>3
<1> HIDE DEF Upto
<1>5. \E f : Upto(N, f)
  BY <1>4
<1> QED
  BY <1>5 DEF Upto

\* What holds of its first value and of each after the one before it holds of all.
LEMMA UptoInduction ==
  ASSUME NEW N \in Nat, NEW P, 0 \in P, \A n \in 1 .. N : n - 1 \in P => n \in P
  PROVE  0 .. N \subseteq P
<1> DEFINE T == {m \in Nat : m <= N => m \in P}
<1>1. 0 \in T
  OBVIOUS
<1>2. ASSUME NEW m \in T PROVE m + 1 \in T
  <2> SUFFICES ASSUME m + 1 <= N PROVE m + 1 \in P
    OBVIOUS
  <2>1. m \in P /\ m + 1 \in 1 .. N /\ (m + 1) - 1 = m
    OBVIOUS
  <2> QED
    BY <2>1
<1>3. T = Nat
  <2>1. T \in SUBSET Nat
    OBVIOUS
  <2> HIDE DEF T
  <2> QED
    BY <1>1, <1>2, <2>1, SetInduction
<1> QED
  BY <1>3

-----------------------------------------------------------------------------
(* Sums.                                                                     *)

\* The element SumFunction takes of a set.
Taken(s) == CHOOSE x \in s : TRUE

\* A family that holds the empty set and each set whose rest it holds, holds every
\* subset of a finite set.
LEMMA SubsetInduction ==
  ASSUME NEW D, IsFiniteSet(D), NEW P, {} \in P,
         \A s \in SUBSET D : s # {} /\ s \ {Taken(s)} \in P => s \in P
  PROVE  SUBSET D \subseteq P
<1> DEFINE T == {n \in Nat : \A s \in SUBSET D : Cardinality(s) <= n => s \in P}
<1>1. \A s \in SUBSET D : /\ IsFiniteSet(s) /\ Cardinality(s) \in Nat
                          /\ Cardinality(s) = 0 <=> s = {}
  BY FS_Subset, FS_CardinalityType, FS_EmptySet
<1>2. 0 \in T
  <2>1. ASSUME NEW s \in SUBSET D, Cardinality(s) <= 0 PROVE s \in P
    <3>1. Cardinality(s) = 0
      BY <1>1, <2>1
    <3> QED
      BY <1>1, <3>1
  <2> QED
    BY <2>1
<1>3. ASSUME NEW n \in T PROVE n + 1 \in T
  <2>1. ASSUME NEW s \in SUBSET D, Cardinality(s) <= n + 1 PROVE s \in P
    <3>1. CASE s = {}
      BY <3>1
    <3>2. CASE s # {}
      <4>1. Taken(s) \in s
        BY <3>2 DEF Taken
      <4>2. Cardinality(s \ {Taken(s)}) = Cardinality(s) - 1
        BY <1>1, <4>1, FS_RemoveElement
      <4>3. Cardinality(s \ {Taken(s)}) <= n /\ s \ {Taken(s)} \in SUBSET D
        BY <1>1, <2>1, <4>2
      <4>4. s \ {Taken(s)} \in P
        BY <4>3
      <4> QED
        BY <3>2, <4>4
    <3> QED
      BY <3>1, <3>2
  <2> QED
    BY <2>1
<1>4. T = Nat
  <2>1. T \in SUBSET Nat
    OBVIOUS
  <2> HIDE DEF T
  <2> QED
    BY <1>2, <1>3, <2>1, SetInduction
<1>5. ASSUME NEW s \in SUBSET D PROVE s \in P
  <2>1. Cardinality(s) \in T
    BY <1>1, <1>4
  <2> QED
    BY <1>1, <2>1
<1> QED
  BY <1>5

\* SumFunction adds one value after the other.
Summing(f, sum) ==
  /\ sum[{}] = 0
  /\ \A s \in SUBSET DOMAIN f : s # {} => sum[s] = f[Taken(s)] + sum[s \ {Taken(s)}]
  /\ SumFunction(f) = sum[DOMAIN f]

LEMMA SumByOne ==
  ASSUME NEW f, IsFiniteSet(DOMAIN f)
  PROVE  \E sum : Summing(f, sum)
<1> DEFINE D == DOMAIN f
           Upto(n) == {s \in SUBSET D : Cardinality(s) <= n}
           Body(S, g) == [s \in S |-> IF s = {} THEN 0 ELSE f[Taken(s)] + g[s \ {Taken(s)}]]
           iter == CHOOSE iter : iter = Body(SUBSET D, iter)
           T == {n \in Nat : \E g : g = Body(Upto(n), g)}
<1>1. SumFunction(f) = iter[D]
  BY DEF SumFunction, SumFunctionOnSet, FoldFunctionOnSet, MapThenFoldSet, Taken
<1>2. \A s \in SUBSET D : /\ IsFiniteSet(s) /\ Cardinality(s) \in Nat
                          /\ Cardinality(s) = 0 <=> s = {}
  BY FS_Subset, FS_CardinalityType, FS_EmptySet
<1>3. ASSUME NEW s \in SUBSET D, s # {}
      PROVE  s \ {Taken(s)} \in SUBSET D /\ Cardinality(s \ {Taken(s)}) = Cardinality(s) - 1
  <2>1. Taken(s) \in s
    BY <1>3 DEF Taken
  <2> QED
    BY <1>2, <2>1, FS_RemoveElement
<1>4. 0 \in T
  <2> DEFINE g == [s \in Upto(0) |-> 0]
  <2>1. \A s \in Upto(0) : s = {}
    BY <1>2
  <2>2. g = Body(Upto(0), g)
    <3> HIDE DEF Upto
    <3> QED
      BY <2>1
  <2> HIDE DEF g, Body
  <2> QED
    BY <2>2
<1>5. ASSUME NEW n \in T PROVE n + 1 \in T
  <2>1. PICK g : g = Body(Upto(n), g)
    <3> HIDE DEF Body
    <3> QED
      OBVIOUS
  <2> DEFINE h == [s \in Upto(n + 1) |-> IF s = {} THEN 0 ELSE f[Taken(s)] + g[s \ {Taken(s)}]]
  <2>2. ASSUME NEW s \in Upto(n), s # {}
        PROVE  g[s] = f[Taken(s)] + g[s \ {Taken(s)}]
    <3> HIDE DEF Upto
    <3> QED
      BY <2>1, <2>2
  <2>3. \A s \in Upto(n) : s = {} => g[s] = 0
    <3> HIDE DEF Upto
    <3> QED
      BY <2>1
  <2>4. ASSUME NEW s \in Upto(n) PROVE s \in Upto(n + 1) /\ h[s] = g[s]
    <3>1. s \in Upto(n + 1)
      BY <1>2
    <3> HIDE DEF Upto
    <3> QED
      BY <2>2, <2>3, <3>1
  <2>5. ASSUME NEW s \in Upto(n + 1), s # {} PROVE s \ {Taken(s)} \in Upto(n)
    BY <1>2, <1>3, <2>5
  <2>6. ASSUME NEW s \in Upto(n + 1)
        PROVE  h[s] = IF s = {} THEN 0 ELSE f[Taken(s)] + h[s \ {Taken(s)}]
    <3> HIDE DEF Upto
    <3>1. h[s] = IF s = {} THEN 0 ELSE f[Taken(s)] + g[s \ {Taken(s)}]
      OBVIOUS
    <3> HIDE DEF h
    <3> QED
      BY <2>4, <2>5, <3>1
  <2>7. h = [s \in Upto(n + 1) |-> h[s]]
    <3> HIDE DEF Upto
    <3> QED
      OBVIOUS
  <2>8. h = Body(Upto(n + 1), h)
    <3>1. [s \in Upto(n + 1) |-> h[s]] = Body(Upto(n + 1), h)
      <4> HIDE DEF h, Upto
      <4> QED
        BY <2>6
    <3> HIDE DEF h, Body, Upto
    <3> QED
      BY <2>7, <3>1
  <2> HIDE DEF h, Body, Upto
  <2> QED
    BY <2>8
<1>6. T = Nat
  <2>1. T \in SUBSET Nat
    OBVIOUS
  <2> HIDE DEF T
  <2> QED
    BY <1>4, <1>5, <2>1, SetInduction
<1>7. Upto(Cardinality(D)) = SUBSET D
  <2>1. \A s \in SUBSET D : Cardinality(s) <= Cardinality(D)
    BY FS_Subset
  <2> QED
    BY <2>1
<1>8. iter = Body(SUBSET D, iter)
  <2>1. Cardinality(D) \in T
    BY <1>2, <1>6
  <2>2. \E g : g = Body(Upto(Cardinality(D)), g)
    <3> HIDE DEF Body, Upto
    <3> QED
      BY <2>1
  <2> HIDE DEF Body, Upto
  <2> QED
    BY <1>7, <2>2
<1> HIDE DEF iter
<1>9. ASSUME NEW s \in SUBSET D
      PROVE  iter[s] = IF s = {} THEN 0 ELSE f[Taken(s)] + iter[s \ {Taken(s)}]
  <2> DEFINE same == Body(SUBSET D, iter)
  <2>1. same[s] = IF s = {} THEN 0 ELSE f[Taken(s)] + iter[s \ {Taken(s)}]
    OBVIOUS
  <2>2. iter = same
    BY <1>8
  <2> HIDE DEF same
  <2> QED
    BY <2>1, <2>2
<1>10. Summing(f, iter)
  <2>1. {} \in SUBSET D
    OBVIOUS
  <2> QED
    BY <1>1, <1>9, <2>1 DEF Summing
<1> QED
  BY <1>10

\* A sum of integers is one; of natural numbers, one that is no less than each of them.
LEMMA SumOfIntegers ==
  ASSUME NEW D, IsFiniteSet(D), NEW f \in [D -> Int], NEW sum, Summing(f, sum)
  PROVE  \A s \in SUBSET D : sum[s] \in Int
<1> DEFINE P == {s \in SUBSET D : sum[s] \in Int}
<1>1. {} \in P
  BY DEF Summing
<1>2. ASSUME NEW s \in SUBSET D, s # {}, s \ {Taken(s)} \in P PROVE s \in P
  <2>1. Taken(s) \in D /\ sum[s] = f[Taken(s)] + sum[s \ {Taken(s)}]
    BY <1>2 DEF Taken, Summing
  <2> QED
    BY <1>2, <2>1
<1>3. SUBSET D \subseteq P
  <2> HIDE DEF P
  <2> QED
    BY <1>1, <1>2, SubsetInduction
<1> QED
  BY <1>3

LEMMA SumOfNaturals ==
  ASSUME NEW D, IsFiniteSet(D), NEW f \in [D -> Nat]
  PROVE  SumFunction(f) \in Nat /\ \A x \in D : f[x] <= SumFunction(f)
<1>1. PICK sum : Summing(f, sum)
  BY SumByOne
<1> DEFINE P == {s \in SUBSET D : sum[s] \in Nat /\ \A x \in s : f[x] <= sum[s]}
<1>2. {} \in P
  BY <1>1 DEF Summing
<1>3. ASSUME NEW s \in SUBSET D, s # {}, s \ {Taken(s)} \in P PROVE s \in P
  <2>1. Taken(s) \in D /\ sum[s] = f[Taken(s)] + sum[s \ {Taken(s)}]
    BY <1>1, <1>3 DEF Taken, Summing
  <2>2. sum[s \ {Taken(s)}] \in Nat /\ f[Taken(s)] \in Nat
    BY <1>3, <2>1
  <2>3. ASSUME NEW x \in s PROVE f[x] <= sum[s]
    <3>1. CASE x = Taken(s)
      BY <2>1, <2>2, <3>1
    <3>2. CASE x # Taken(s)
      <4>1. f[x] <= sum[s \ {Taken(s)}] /\ f[x] \in Nat
        BY <1>3, <3>2
      <4> QED
        BY <2>1, <2>2, <4>1
    <3> QED
      BY <3>1, <3>2
  <2> QED
    BY <2>1, <2>2, <2>3
<1>4. SUBSET D \subseteq P
  <2> HIDE DEF P
  <2> QED
    BY <1>2, <1>3, SubsetInduction
<1> QED
  BY <1>1, <1>4 DEF Summing

LEMMA SumType ==
  ASSUME NEW D, IsFiniteSet(D), NEW f \in [D -> Int]
  PROVE  SumFunction(f) \in Int
<1>1. PICK sum : Summing(f, sum)
  BY SumByOne
<1>2. sum[D] \in Int
  BY <1>1, SumOfIntegers
<1> QED
  BY <1>1, <1>2 DEF Summing

\* The sum of one value, of sums, and of multiples.
LEMMA SumOfOne ==
  ASSUME NEW x, NEW f, DOMAIN f = {x}, f[x] \in Int
  PROVE  SumFunction(f) = f[x]
<1>1. IsFiniteSet(DOMAIN f)
  BY FS_Singleton
<1>2. PICK sum : Summing(f, sum)
  BY <1>1, SumByOne
<1>3. Taken({x}) = x /\ {x} \ {x} = {}
  BY DEF Taken
<1>4. sum[{x}] = f[x] + sum[{}]
  BY <1>2, <1>3 DEF Summing
<1> QED
  BY <1>2, <1>4 DEF Summing

Adds(D, f, g, h) ==
  /\ f \in [D -> Int] /\ g \in [D -> Int] /\ h \in [D -> Int]
  /\ \A x \in D : h[x] = f[x] + g[x]

Scales(D, f, a, h) ==
  /\ f \in [D -> Int] /\ a \in Int /\ h \in [D -> Int]
  /\ \A x \in D : h[x] = f[x] * a

LEMMA SumAdds ==
  ASSUME NEW D, IsFiniteSet(D), NEW f, NEW g, NEW h, Adds(D, f, g, h)
  PROVE  SumFunction(h) = SumFunction(f) + SumFunction(g)
<1>0. f \in [D -> Int] /\ g \in [D -> Int] /\ h \in [D -> Int] /\ \A x \in D : h[x] = f[x] + g[x]
  BY DEF Adds
<1>1. PICK ff : Summing(f, ff)
  BY <1>0, SumByOne
<1>2. PICK gg : Summing(g, gg)
  BY <1>0, SumByOne
<1>3. PICK hh : Summing(h, hh)
  BY <1>0, SumByOne
<1>4. \A s \in SUBSET D : ff[s] \in Int /\ gg[s] \in Int /\ hh[s] \in Int
  BY <1>0, <1>1, <1>2, <1>3, SumOfIntegers
<1> DEFINE P == {s \in SUBSET D : hh[s] = ff[s] + gg[s]}
<1>5. {} \in P
  BY <1>1, <1>2, <1>3 DEF Summing
<1>6. ASSUME NEW s \in SUBSET D, s # {}, s \ {Taken(s)} \in P PROVE s \in P
  <2> DEFINE x == Taken(s)
             rest == s \ {x}
  <2>1. x \in D /\ rest \in SUBSET D
    BY <1>6 DEF Taken
  <2>2. /\ ff[s] = f[x] + ff[rest]
        /\ gg[s] = g[x] + gg[rest]
        /\ hh[s] = h[x] + hh[rest]
    BY <1>0, <1>1, <1>2, <1>3, <1>6 DEF Summing
  <2>3. hh[rest] = ff[rest] + gg[rest]
    BY <1>6
  <2> HIDE DEF x, rest
  <2>4. /\ f[x] \in Int /\ g[x] \in Int /\ h[x] = f[x] + g[x]
        /\ ff[rest] \in Int /\ gg[rest] \in Int
    BY <1>0, <1>4, <2>1
  <2>5. hh[s] = ff[s] + gg[s]
    BY <2>2, <2>3, <2>4
  <2> QED
    BY <2>5
<1>7. SUBSET D \subseteq P
  <2> HIDE DEF P
  <2> QED
    BY <1>5, <1>6, SubsetInduction
<1>8. hh[D] = ff[D] + gg[D]
  BY <1>7
<1> QED
  BY <1>0, <1>1, <1>2, <1>3, <1>8 DEF Summing

LEMMA SumScales ==
  ASSUME NEW D, IsFiniteSet(D), NEW f, NEW a, NEW h, Scales(D, f, a, h)
  PROVE  SumFunction(h) = SumFunction(f) * a
<1>0. f \in [D -> Int] /\ a \in Int /\ h \in [D -> Int] /\ \A x \in D : h[x] = f[x] * a
  BY DEF Scales
<1>1. PICK ff : Summing(f, ff)
  BY <1>0, SumByOne
<1>2. PICK hh : Summing(h, hh)
  BY <1>0, SumByOne
<1>3. \A s \in SUBSET D : ff[s] \in Int /\ hh[s] \in Int
  BY <1>0, <1>1, <1>2, SumOfIntegers
<1> DEFINE P == {s \in SUBSET D : hh[s] = ff[s] * a}
<1>4. {} \in P
  BY <1>0, <1>1, <1>2 DEF Summing
<1>5. ASSUME NEW s \in SUBSET D, s # {}, s \ {Taken(s)} \in P PROVE s \in P
  <2> DEFINE x == Taken(s)
             rest == s \ {x}
  <2>1. x \in D /\ rest \in SUBSET D
    BY <1>5 DEF Taken
  <2>2. ff[s] = f[x] + ff[rest] /\ hh[s] = h[x] + hh[rest]
    BY <1>0, <1>1, <1>2, <1>5 DEF Summing
  <2>3. hh[rest] = ff[rest] * a
    BY <1>5
  <2> HIDE DEF x, rest
  <2>4. f[x] \in Int /\ h[x] = f[x] * a /\ ff[rest] \in Int
    BY <1>0, <1>3, <2>1
  <2>5. (f[x] + ff[rest]) * a = f[x] * a + ff[rest] * a
    BY <1>0, <2>4
  <2>6. hh[s] = ff[s] * a
    BY <2>2, <2>3, <2>4, <2>5
  <2> QED
    BY <2>6
<1>6. SUBSET D \subseteq P
  <2> HIDE DEF P
  <2> QED
    BY <1>4, <1>5, SubsetInduction
<1>7. hh[D] = ff[D] * a
  BY <1>6
<1> QED
  BY <1>0, <1>1, <1>2, <1>7 DEF Summing

\* What is counted for one after the other is what is counted in all.
Pairs(of, S) == UNION {{f} \X of[f] : f \in S}

LEMMA PairsCount ==
  ASSUME NEW D, IsFiniteSet(D), NEW of, \A f \in D : IsFiniteSet(of[f])
  PROVE  SumFunction([f \in D |-> Cardinality(of[f])]) = Cardinality(Pairs(of, D))
<1> DEFINE numbers == [f \in D |-> Cardinality(of[f])]
<1>1. DOMAIN numbers = D /\ \A f \in D : numbers[f] = Cardinality(of[f])
  OBVIOUS
<1> HIDE DEF numbers
<1>2. PICK sum : Summing(numbers, sum)
  BY <1>1, SumByOne
<1> DEFINE Q == {S \in SUBSET D : /\ IsFiniteSet(Pairs(of, S))
                                  /\ sum[S] = Cardinality(Pairs(of, S))}
<1>3. {} \in Q
  <2>1. Pairs(of, {}) = {}
    BY DEF Pairs
  <2>2. sum[{}] = 0
    BY <1>2 DEF Summing
  <2> QED
    BY <2>1, <2>2, FS_EmptySet
<1>4. ASSUME NEW S \in SUBSET D, S # {}, S \ {Taken(S)} \in Q PROVE S \in Q
  <2> DEFINE d == Taken(S)
             rest == S \ {d}
             one == {d} \X of[d]
  <2>1. d \in S /\ d \in D
    BY <1>4 DEF Taken
  <2>2. sum[S] = numbers[d] + sum[rest]
    BY <1>1, <1>2, <1>4 DEF Summing
  <2>3. IsFiniteSet(Pairs(of, rest)) /\ sum[rest] = Cardinality(Pairs(of, rest))
    BY <1>4
  <2> HIDE DEF d
  <2>4. IsFiniteSet({d}) /\ Cardinality({d}) = 1 /\ IsFiniteSet(of[d])
    BY <2>1, FS_Singleton
  <2>5. Cardinality(of[d]) \in Nat
    BY <2>4, FS_CardinalityType
  <2>6. IsFiniteSet(one) /\ Cardinality(one) = Cardinality({d}) * Cardinality(of[d])
    BY <2>4, FS_Product
  <2>7. Cardinality(one) = numbers[d]
    BY <1>1, <2>1, <2>4, <2>5, <2>6
  <2>8. Pairs(of, S) = one \cup Pairs(of, rest)
    BY <2>1 DEF Pairs
  <2>9. one \cap Pairs(of, rest) = {}
    BY DEF Pairs
  <2> HIDE DEF one, rest
  <2>10. /\ IsFiniteSet(one \cup Pairs(of, rest))
         /\ Cardinality(one \cup Pairs(of, rest)) =
              Cardinality(one) + Cardinality(Pairs(of, rest)) - Cardinality({})
    BY <2>3, <2>6, <2>9, FS_Union
  <2>11. Cardinality({}) = 0 /\ Cardinality(one) \in Nat /\ Cardinality(Pairs(of, rest)) \in Nat
    BY <2>3, <2>6, FS_EmptySet, FS_CardinalityType
  <2>12. sum[S] = Cardinality(Pairs(of, S)) /\ IsFiniteSet(Pairs(of, S))
    BY <2>2, <2>3, <2>7, <2>8, <2>10, <2>11
  <2> QED
    BY <2>12
<1>5. SUBSET D \subseteq Q
  <2> HIDE DEF Q
  <2> QED
    BY <1>3, <1>4, SubsetInduction
<1>6. sum[D] = Cardinality(Pairs(of, D))
  BY <1>5
<1> QED
  BY <1>1, <1>2, <1>6 DEF Summing, numbers

-----------------------------------------------------------------------------
(* Folds and lists.                                                          *)

\* The greatest of some of the first numbers, the last of them being one.
LEMMA LastIsMax ==
  ASSUME NEW n \in Nat, NEW s \in SUBSET (1 .. n), n \in s
  PROVE  Max(s) = n
<1>1. \A y \in s : n >= y
  OBVIOUS
<1>2. Max(s) \in s /\ \A y \in s : Max(s) >= y
  BY <1>1 DEF Max
<1>3. Max(s) \in 1 .. n /\ Max(s) >= n
  <2> DEFINE x == Max(s)
  <2>1. x \in s /\ \A y \in s : x >= y
    BY <1>2
  <2> HIDE DEF x
  <2>2. x \in 1 .. n /\ x >= n
    BY <2>1
  <2> QED
    BY <2>2 DEF x
<1> QED
  BY <1>3

LEMMA FirstOnes ==
  ASSUME NEW N \in Nat, NEW n \in 1 .. N
  PROVE  /\ 1 .. n \in SUBSET (1 .. N) /\ 1 .. n # {} /\ Max(1 .. n) = n
         /\ (1 .. n) \ {n} = 1 .. n - 1
<1>1. n \in 1 .. n /\ n \in Nat /\ 1 .. n \in SUBSET (1 .. n)
  OBVIOUS
<1>2. Max(1 .. n) = n
  BY <1>1, LastIsMax
<1>3. (1 .. n) \ {n} = 1 .. n - 1
  OBVIOUS
<1> QED
  BY <1>1, <1>2, <1>3

\* FoldLeft removes the greatest of some positions until none is left.
Folding(f, N, S, base, step) ==
  /\ f \in [SUBSET (1 .. N) -> S]
  /\ \A s \in SUBSET (1 .. N) :
       f[s] = IF s = {} THEN base ELSE step[<<Max(s), f[s \ {Max(s)}]>>]

\* Some of the first numbers have a greatest and a least one.
LEMMA SomeAreBounded ==
  ASSUME NEW n \in Nat, NEW s \in SUBSET (1 .. n), s # {}
  PROVE  Max(s) \in s /\ Min(s) \in s
<1> DEFINE Bounded(S) == /\ \E x \in S : \A y \in S : x >= y
                         /\ \E x \in S : \A y \in S : x <= y
           T == {m \in Nat : \A S \in SUBSET (1 .. m) : S # {} => Bounded(S)}
<1>1. 0 \in T
  <2>1. \A S \in SUBSET (1 .. 0) : S = {}
    OBVIOUS
  <2> HIDE DEF Bounded
  <2> QED
    BY <2>1
<1>2. ASSUME NEW m \in T PROVE m + 1 \in T
  <2>1. ASSUME NEW S \in SUBSET (1 .. m + 1), S # {} PROVE Bounded(S)
    <3>1. \A x \in S : x \in Nat /\ x <= m + 1 /\ (x # m + 1 => x \in 1 .. m)
      OBVIOUS
    <3>2. CASE S \cap (1 .. m) = {}
      <4>1. \A x \in S : x = m + 1
        BY <3>1, <3>2
      <4> QED
        BY <2>1, <4>1
    <3>3. CASE S \cap (1 .. m) # {}
      <4>1. Bounded(S \cap (1 .. m))
        BY <3>3
      <4>2. PICK x \in S \cap (1 .. m) : \A y \in S \cap (1 .. m) : x >= y
        BY <4>1
      <4>3. PICK z \in S \cap (1 .. m) : \A y \in S \cap (1 .. m) : z <= y
        BY <4>1
      <4>4. \A y \in S : z <= y
        BY <3>1, <4>3
      <4>5. CASE m + 1 \in S
        BY <3>1, <4>4, <4>5
      <4>6. CASE m + 1 \notin S
        <5>1. \A y \in S : y \in S \cap (1 .. m)
          BY <3>1, <4>6
        <5> QED
          BY <4>2, <4>4, <5>1
      <4> QED
        BY <4>5, <4>6
    <3> QED
      BY <3>2, <3>3
  <2> HIDE DEF Bounded
  <2> QED
    BY <2>1
<1>3. T = Nat
  <2>1. T \in SUBSET Nat
    OBVIOUS
  <2> HIDE DEF T
  <2> QED
    BY <1>1, <1>2, <2>1, SetInduction
<1>4. Bounded(s)
  <2> HIDE DEF Bounded
  <2> QED
    BY <1>3
<1> QED
  BY <1>4 DEF Max, Min

LEMMA Folds ==
  ASSUME NEW N \in Nat, NEW S, NEW base \in S, NEW step,
         \A n \in 1 .. N, x \in S : step[<<n, x>>] \in S
  PROVE  \E f : Folding(f, N, S, base, step)
<1> DEFINE T == {n \in Nat : n <= N => \E f : Folding(f, n, S, base, step)}
<1>1. 0 \in T
  <2> DEFINE f == [s \in SUBSET (1 .. 0) |-> base]
  <2>1. \A s \in SUBSET (1 .. 0) : s = {}
    OBVIOUS
  <2>2. Folding(f, 0, S, base, step)
    BY <2>1 DEF Folding
  <2> QED
    BY <2>2
<1>2. ASSUME NEW n \in T PROVE n + 1 \in T
  <2> SUFFICES ASSUME n + 1 <= N PROVE \E f : Folding(f, n + 1, S, base, step)
    OBVIOUS
  <2>1. PICK f : Folding(f, n, S, base, step)
    <3>1. n <= N
      OBVIOUS
    <3> QED
      BY <3>1
  <2> DEFINE m == n + 1
             g == [s \in SUBSET (1 .. m) |-> IF m \in s THEN step[<<m, f[s \ {m}]>>] ELSE f[s]]
  <2>2. ASSUME NEW s \in SUBSET (1 .. m)
        PROVE  s \ {m} \in SUBSET (1 .. n) /\ (m \notin s => s \in SUBSET (1 .. n))
    <3>1. \A x \in s : x \in 1 .. n + 1 /\ (x # n + 1 => x \in 1 .. n)
      OBVIOUS
    <3> QED
      BY <3>1
  <2>3. f \in [SUBSET (1 .. n) -> S] /\ m \in 1 .. N /\ m \in Nat
    BY <2>1 DEF Folding
  <2> HIDE DEF m
  <2>4. g \in [SUBSET (1 .. m) -> S]
    <3>1. ASSUME NEW s \in SUBSET (1 .. m)
          PROVE  (IF m \in s THEN step[<<m, f[s \ {m}]>>] ELSE f[s]) \in S
      BY <2>2, <2>3
    <3> QED
      BY <3>1
  <2>5. ASSUME NEW s \in SUBSET (1 .. m)
        PROVE  g[s] = IF s = {} THEN base ELSE step[<<Max(s), g[s \ {Max(s)}]>>]
    <3>1. CASE m \in s
      <4>1. Max(s) = m
        BY <2>3, <3>1, LastIsMax
      <4>2. s \ {m} \in SUBSET (1 .. m) /\ m \notin s \ {m}
        OBVIOUS
      <4>3. g[s \ {m}] = f[s \ {m}] /\ g[s] = step[<<m, f[s \ {m}]>>]
        BY <3>1, <4>2
      <4> HIDE DEF g
      <4> QED
        BY <3>1, <4>1, <4>3
    <3>2. CASE m \notin s
      <4>1. s \in SUBSET (1 .. n) /\ s \ {Max(s)} \in SUBSET (1 .. n)
        BY <2>2, <3>2
      <4>2. s \ {Max(s)} \in SUBSET (1 .. m) /\ m \notin s \ {Max(s)}
        BY <3>2
      <4>3. g[s] = f[s] /\ g[s \ {Max(s)}] = f[s \ {Max(s)}]
        BY <3>2, <4>2
      <4>4. f[s] = IF s = {} THEN base ELSE step[<<Max(s), f[s \ {Max(s)}]>>]
        BY <2>1, <4>1 DEF Folding
      <4> HIDE DEF g
      <4> QED
        BY <4>3, <4>4
    <3> QED
      BY <3>1, <3>2
  <2> HIDE DEF g
  <2>6. Folding(g, m, S, base, step)
    BY <2>4, <2>5 DEF Folding
  <2> QED
    BY <2>6 DEF m
<1>3. T = Nat
  <2>1. T \in SUBSET Nat
    OBVIOUS
  <2> HIDE DEF T
  <2> QED
    BY <1>1, <1>2, <2>1, SetInduction
<1>4. N \in T
  BY <1>3
<1> QED
  BY <1>4

Stepping(N, S, step) == \A n \in 1 .. N, x \in S : step[<<n, x>>] \in S

Chosen(iter, N, S, base, step) ==
  /\ iter[{}] = base
  /\ \A s \in SUBSET (1 .. N) : s # {} /\ iter[s \ {Max(s)}] \in S =>
                                   iter[s] = step[<<Max(s), iter[s \ {Max(s)}]>>]

FoldsTo(N, S, base, step, r) == \E f : Iterates(f, N, S, base, step) /\ f[N] = r

\* What it makes of the first positions, one after the other.
LEMMA FoldIterates ==
  ASSUME NEW N \in Nat, NEW S, NEW base \in S, NEW step, NEW iter,
         Stepping(N, S, step), Chosen(iter, N, S, base, step)
  PROVE  FoldsTo(N, S, base, step, iter[1 .. N])
<1> DEFINE f == [n \in 0 .. N |-> iter[1 .. n]]
           P == {n \in 0 .. N : iter[1 .. n] \in S}
<1>1. 1 .. 0 = {} /\ 0 \in 0 .. N /\ N \in 0 .. N
  OBVIOUS
<1>2. ASSUME NEW n \in 1 .. N, iter[1 .. n - 1] \in S
      PROVE  iter[1 .. n] = step[<<n, iter[1 .. n - 1]>>] /\ iter[1 .. n] \in S
  <2>1. /\ 1 .. n \in SUBSET (1 .. N) /\ 1 .. n # {} /\ Max(1 .. n) = n
        /\ (1 .. n) \ {n} = 1 .. n - 1
    BY FirstOnes
  <2>2. iter[1 .. n] = step[<<Max(1 .. n), iter[(1 .. n) \ {Max(1 .. n)}]>>]
    BY <1>2, <2>1 DEF Chosen
  <2> QED
    BY <1>2, <2>1, <2>2 DEF Stepping
<1>3. 0 .. N \subseteq P
  <2>1. 0 \in P
    <3>1. iter[{}] \in S
      BY DEF Chosen
    <3>2. iter[1 .. 0] \in S
      BY <1>1, <3>1
    <3> QED
      BY <1>1, <3>2
  <2>2. ASSUME NEW n \in 1 .. N, n - 1 \in P PROVE n \in P
    <3>1. iter[1 .. n - 1] \in S
      BY <2>2
    <3>2. iter[1 .. n] \in S
      BY <1>2, <3>1
    <3>3. n \in 0 .. N
      OBVIOUS
    <3> QED
      BY <3>2, <3>3
  <2> HIDE DEF P
  <2> QED
    BY <2>1, <2>2, UptoInduction
<1>4. f \in [0 .. N -> S]
  BY <1>3
<1>5. ASSUME NEW n \in 1 .. N PROVE f[n] = step[<<n, f[n - 1]>>]
  <2>1. n \in 0 .. N /\ n - 1 \in 0 .. N
    OBVIOUS
  <2>2. iter[1 .. n - 1] \in S
    BY <1>3, <2>1
  <2>3. f[n] = iter[1 .. n] /\ f[n - 1] = iter[1 .. n - 1]
    BY <2>1
  <2> HIDE DEF f
  <2> QED
    BY <1>2, <2>2, <2>3
<1>6. f[0] = base /\ f[N] = iter[1 .. N]
  BY <1>1 DEF Chosen
<1> HIDE DEF f
<1> QED
  BY <1>4, <1>5, <1>6 DEF Iterates, FoldsTo

\* FlattenSeq appends one list after the other.
FlatStep(E, lists) == [x \in (1 .. Len(lists)) \X Seq(E) |-> x[2] \o lists[x[1]]]

LEMMA FlatSteps ==
  ASSUME NEW E, NEW lists \in Seq(Seq(E))
  PROVE  \A n \in 1 .. Len(lists), x \in Seq(E) :
           /\ lists[n] \in Seq(E)
           /\ FlatStep(E, lists)[<<n, x>>] = x \o lists[n]
           /\ FlatStep(E, lists)[<<n, x>>] \in Seq(E)
<1>1. ASSUME NEW n \in 1 .. Len(lists), NEW x \in Seq(E)
      PROVE  /\ lists[n] \in Seq(E) /\ x \o lists[n] \in Seq(E)
             /\ FlatStep(E, lists)[<<n, x>>] = x \o lists[n]
  <2> DEFINE S == Seq(E)
  <2>1. lists[n] \in S
    <3> HIDE DEF S
    <3>1. lists \in Seq(S)
      BY DEF S
    <3> QED
      BY <3>1, ElementOfSeq
  <2>2. x \o lists[n] \in S
    BY <2>1, ConcatProperties
  <2> QED
    BY <2>1, <2>2 DEF FlatStep
<1> QED
  BY <1>1

\* The lists laid out up to one of them.
Flattens(lists, flat) ==
  /\ flat[0] = <<>>
  /\ \A n \in 1 .. Len(lists) : flat[n] = flat[n - 1] \o lists[n]
  /\ FlattenSeq(lists) = flat[Len(lists)]

LEMMA FlattenedByOne ==
  ASSUME NEW E, NEW lists \in Seq(Seq(E))
  PROVE  \E flat \in [0 .. Len(lists) -> Seq(E)] : Flattens(lists, flat)
<1> DEFINE S == Seq(E)
           N == Len(lists)
           step == FlatStep(E, lists)
<1>1. N \in Nat /\ <<>> \in S /\ (N = 0 => lists = <<>>)
  <2> HIDE DEF S, N
  <2>1. lists \in Seq(S)
    BY DEF S
  <2>2. N \in Nat /\ (N = 0 => lists = <<>>)
    BY <2>1, LenProperties, EmptySeq DEF N
  <2> QED
    BY <2>2, EmptySeq DEF S
<1>2. \A n \in 1 .. N, x \in S :
        lists[n] \in S /\ step[<<n, x>>] = x \o lists[n] /\ step[<<n, x>>] \in S
  BY FlatSteps
<1> HIDE DEF S, step, N
<1>3. PICK f : Iterates(f, N, S, <<>>, step)
  BY <1>1, <1>2, Iterated
<1>4. f \in [0 .. N -> S] /\ f[0] = <<>>
  BY <1>3 DEF Iterates
<1>5. ASSUME NEW n \in 1 .. N PROVE f[n] = f[n - 1] \o lists[n]
  <2>1. f[n - 1] \in S
    BY <1>1, <1>4
  <2>2. f[n] = step[<<n, f[n - 1]>>]
    BY <1>3 DEF Iterates
  <2> QED
    BY <1>2, <2>1, <2>2
<1>6. FlattenSeq(lists) = f[N]
  <2>1. CASE N = 0
    <3>1. FlattenSeq(lists) = lists
      BY <2>1 DEF FlattenSeq, N
    <3> QED
      BY <1>1, <1>4, <2>1, <3>1
  <2>2. CASE N # 0
    <3> DEFINE Body(g) == [i \in 1 .. N |-> IF i = 1 THEN lists[i] ELSE g[i - 1] \o lists[i]]
               g == CHOOSE g : g = Body(g)
               h == [i \in 1 .. N |-> f[i]]
    <3>1. FlattenSeq(lists) = g[N]
      BY <2>2 DEF FlattenSeq, N
    <3>2. \A i \in 1 .. N : h[i] = IF i = 1 THEN lists[i] ELSE h[i - 1] \o lists[i]
      <4> SUFFICES ASSUME NEW i \in 1 .. N
                   PROVE  h[i] = IF i = 1 THEN lists[i] ELSE h[i - 1] \o lists[i]
        OBVIOUS
      <4>1. h[i] = f[i - 1] \o lists[i]
        BY <1>5
      <4>2. CASE i = 1
        <5>1. f[0] = <<>> /\ lists[1] \in Seq(E)
          BY <1>1, <1>2, <1>4, <4>2 DEF S
        <5>2. <<>> \o lists[1] = lists[1]
          BY <5>1, ConcatEmptySeq
        <5>3. f[i - 1] = <<>> /\ i = 1
          BY <1>4, <4>2
        <5> HIDE DEF h
        <5> QED
          BY <4>1, <5>2, <5>3
      <4>3. CASE i # 1
        <5>1. i - 1 \in 1 .. N
          BY <1>1, <4>3
        <5>2. h[i - 1] = f[i - 1]
          BY <5>1
        <5> HIDE DEF h
        <5> QED
          BY <4>1, <4>3, <5>2
      <4> QED
        BY <4>2, <4>3
    <3>3. h = Body(h)
      <4>1. h = [i \in 1 .. N |-> h[i]]
        OBVIOUS
      <4> HIDE DEF h
      <4> QED
        BY <3>2, <4>1
    <3>4. g = Body(g)
      <4> HIDE DEF Body, h
      <4> QED
        BY <3>3
    <3> HIDE DEF g
    <3>5. ASSUME NEW i \in 1 .. N
          PROVE  g[i] = IF i = 1 THEN lists[i] ELSE g[i - 1] \o lists[i]
      <4> DEFINE same == Body(g)
      <4>1. same[i] = IF i = 1 THEN lists[i] ELSE g[i - 1] \o lists[i]
        OBVIOUS
      <4>2. g = same
        BY <3>4
      <4> HIDE DEF same, Body
      <4> QED
        BY <4>1, <4>2
    <3> DEFINE P == {n \in 0 .. N : n # 0 => g[n] = f[n]}
    <3>6. 0 \in P
      BY <1>1
    <3>7. ASSUME NEW n \in 1 .. N, n - 1 \in P PROVE n \in P
      <4>0. n \in 0 .. N
        BY <1>1
      <4>1. f[n] = f[n - 1] \o lists[n]
        BY <1>5
      <4>2. CASE n = 1
        <5>1. h[1] = f[1]
          BY <4>2
        <5>2. h[1] = lists[1]
          BY <3>2, <4>2
        <5>3. g[1] = lists[1]
          BY <3>5, <4>2
        <5> HIDE DEF h
        <5> QED
          BY <4>0, <4>1, <4>2, <5>1, <5>2, <5>3
      <4>3. CASE n # 1
        <5>1. g[n - 1] = f[n - 1]
          <6>1. n - 1 # 0
            BY <4>3
          <6> QED
            BY <3>7, <6>1
        <5>2. g[n] = g[n - 1] \o lists[n]
          BY <3>5, <4>3
        <5> QED
          BY <4>0, <4>1, <5>1, <5>2
      <4> QED
        BY <4>2, <4>3
    <3>8. 0 .. N \subseteq P
      <4> HIDE DEF P
      <4> QED
        BY <1>1, <3>6, <3>7, UptoInduction
    <3>9. g[N] = f[N]
      <4>1. N \in P
        BY <1>1, <3>8
      <4> QED
        BY <2>2, <4>1
    <3> QED
      BY <3>1, <3>9
  <2> QED
    BY <2>1, <2>2
<1> HIDE DEF N
<1>7. Flattens(lists, f)
  BY <1>4, <1>5, <1>6 DEF Flattens, N
<1> QED
  BY <1>4, <1>7 DEF S, N

\* What is laid out is what stands in one of the lists.
Elements(s) == {s[i] : i \in 1 .. Len(s)}

LEMMA FlattenedIs ==
  ASSUME NEW E, NEW lists \in Seq(Seq(E))
  PROVE  /\ FlattenSeq(lists) \in Seq(E)
         /\ Elements(FlattenSeq(lists)) = UNION {Elements(lists[n]) : n \in 1 .. Len(lists)}
<1>1. PICK flat \in [0 .. Len(lists) -> Seq(E)] : Flattens(lists, flat)
  BY FlattenedByOne
<1>2. Len(lists) \in Nat /\ \A n \in 1 .. Len(lists) : lists[n] \in Seq(E)
  <2> DEFINE S == Seq(E)
  <2> HIDE DEF S
  <2>1. lists \in Seq(S)
    BY DEF S
  <2>2. Len(lists) \in Nat /\ \A n \in 1 .. Len(lists) : lists[n] \in S
    BY <2>1, LenProperties, ElementOfSeq
  <2> QED
    BY <2>2 DEF S
<1> DEFINE In(n) == UNION {Elements(lists[i]) : i \in 1 .. n}
           P == {n \in 0 .. Len(lists) : Elements(flat[n]) = In(n)}
<1>3. 0 \in P
  <2>1. flat[0] = <<>> /\ Len(<<>>) = 0
    BY <1>1 DEF Flattens
  <2>2. Elements(flat[0]) = {}
    BY <2>1 DEF Elements
  <2>3. In(0) = {}
    OBVIOUS
  <2> QED
    BY <1>2, <2>2, <2>3
<1>4. ASSUME NEW n \in 1 .. Len(lists), n - 1 \in P PROVE n \in P
  <2>1. n \in 0 .. Len(lists) /\ n - 1 \in 0 .. Len(lists)
    BY <1>2
  <2> DEFINE a == flat[n - 1]
             b == lists[n]
  <2>2. a \in Seq(E) /\ b \in Seq(E) /\ flat[n] = a \o b
    BY <1>1, <1>2, <2>1 DEF Flattens
  <2>3. Elements(a \o b) = Elements(a) \cup Elements(b)
    <3> HIDE DEF a, b
    <3>1. /\ Len(a \o b) = Len(a) + Len(b) /\ Len(a) \in Nat /\ Len(b) \in Nat
          /\ \A i \in 1 .. Len(a) + Len(b) : (a \o b)[i] =
                IF i <= Len(a) THEN a[i] ELSE b[i - Len(a)]
      BY <2>2, ConcatProperties, LenProperties
    <3>2. ASSUME NEW i \in 1 .. Len(a) + Len(b)
          PROVE  (a \o b)[i] \in Elements(a) \cup Elements(b)
      <4>1. CASE i <= Len(a)
        BY <3>1, <4>1 DEF Elements
      <4>2. CASE ~(i <= Len(a))
        <5>1. i - Len(a) \in 1 .. Len(b)
          BY <3>1, <4>2
        <5> QED
          BY <3>1, <4>2, <5>1 DEF Elements
      <4> QED
        BY <4>1, <4>2
    <3>3. ASSUME NEW i \in 1 .. Len(a) PROVE a[i] \in Elements(a \o b)
      <4>1. i \in 1 .. Len(a) + Len(b) /\ (a \o b)[i] = a[i]
        BY <3>1
      <4> QED
        BY <3>1, <4>1 DEF Elements
    <3>4. ASSUME NEW i \in 1 .. Len(b) PROVE b[i] \in Elements(a \o b)
      <4>1. Len(a) + i \in 1 .. Len(a) + Len(b) /\ ~(Len(a) + i <= Len(a))
        BY <3>1
      <4>2. (a \o b)[Len(a) + i] = b[i]
        BY <3>1, <4>1
      <4> QED
        BY <3>1, <4>1, <4>2 DEF Elements
    <3>5. Elements(a \o b) = {(a \o b)[i] : i \in 1 .. Len(a) + Len(b)}
      BY <3>1 DEF Elements
    <3>6. Elements(a \o b) \subseteq Elements(a) \cup Elements(b)
      BY <3>2, <3>5
    <3>7. Elements(a) \subseteq Elements(a \o b) /\ Elements(b) \subseteq Elements(a \o b)
      BY <3>3, <3>4 DEF Elements
    <3> QED
      BY <3>6, <3>7
  <2>4. Elements(a) = In(n - 1)
    BY <1>4
  <2>5. In(n) = In(n - 1) \cup Elements(b)
    <3>1. \A i \in 1 .. n : i \in 1 .. n - 1 \/ i = n
      OBVIOUS
    <3>2. \A i \in 1 .. n - 1 : i \in 1 .. n
      OBVIOUS
    <3>3. n \in 1 .. n
      OBVIOUS
    <3> QED
      BY <3>1, <3>2, <3>3
  <2> HIDE DEF In, a, b
  <2> QED
    BY <2>1, <2>2, <2>3, <2>4, <2>5
<1>5. 0 .. Len(lists) \subseteq P
  <2> HIDE DEF P
  <2> QED
    BY <1>2, <1>3, <1>4, UptoInduction
<1>6. Elements(flat[Len(lists)]) = In(Len(lists)) /\ flat[Len(lists)] \in Seq(E)
  BY <1>2, <1>5
<1> QED
  BY <1>1, <1>6 DEF Flattens

\* A sequence over fewer elements is one over more, and a name is one over its letters.
LEMMA SeqWidens ==
  ASSUME NEW A, NEW B, A \subseteq B, NEW s \in Seq(A)
  PROVE  s \in Seq(B)
<1>1. Len(s) \in Nat /\ s \in [1 .. Len(s) -> A]
  BY LenProperties
<1>2. s \in [1 .. Len(s) -> B]
  BY <1>1
<1> QED
  BY <1>1, <1>2, SeqDef

LEMMA FourAreFinite ==
  ASSUME NEW a, NEW b, NEW c, NEW d
  PROVE  IsFiniteSet({a, b, c, d})
<1>1. IsFiniteSet({a}) /\ IsFiniteSet({b}) /\ IsFiniteSet({c}) /\ IsFiniteSet({d})
  BY FS_Singleton
<1>2. IsFiniteSet({a} \cup {b}) /\ IsFiniteSet({c} \cup {d})
  BY <1>1, FS_Union
<1>3. IsFiniteSet(({a} \cup {b}) \cup ({c} \cup {d}))
  BY <1>2, FS_Union
<1>4. ({a} \cup {b}) \cup ({c} \cup {d}) = {a, b, c, d}
  OBVIOUS
<1> QED
  BY <1>3, <1>4

-----------------------------------------------------------------------------
(* The acceptance rules.                                                     *)

\* The criteria of an answer are a list.
Listed(answer) ==
  Len(answer.criteria) \in Nat /\ DOMAIN answer.criteria = 1 .. Len(answer.criteria)

LEMMA Indices ==
  ASSUME NEW answer, Listed(answer),
         NEW i \in DOMAIN answer.criteria, NEW j \in DOMAIN answer.criteria
  PROVE  /\ i \in Nat /\ j \in Nat
         /\ i < j \/ j < i \/ i = j
         /\ i <= i
  BY DEF Listed

\* Without a duplicate, one item at most names a criterion.
LEMMA OneItem ==
  ASSUME NEW answer, Listed(answer), Duplicated(answer) = {},
         NEW i \in DOMAIN answer.criteria, NEW j \in DOMAIN answer.criteria,
         answer.criteria[i].id = answer.criteria[j].id
  PROVE  i = j
<1>1. \A k \in DOMAIN answer.criteria : \A l \in DOMAIN answer.criteria :
        answer.criteria[l].id = answer.criteria[k].id => ~(l < k)
  BY DEF Duplicated
<1> QED
  BY <1>1, Indices

\* Then what survives in the mapping is what the item says.
LEMMA ReportedIsTheItem ==
  ASSUME NEW answer, Listed(answer), Duplicated(answer) = {}, NEW i \in DOMAIN answer.criteria
  PROVE  Reported(answer, answer.criteria[i].id) = answer.criteria[i].status
<1> DEFINE c == answer.criteria[i].id
           LastOf(k) == /\ answer.criteria[k].id = c
                        /\ \A j \in DOMAIN answer.criteria : answer.criteria[j].id = c => j <= k
<1>1. LastOf(i)
  BY OneItem, Indices
<1>2. \A k \in DOMAIN answer.criteria : LastOf(k) => k = i
  BY OneItem
<1>3. LastReport(answer, c) = i
  <2> HIDE DEF LastOf
  <2>1. LastReport(answer, c) = CHOOSE k \in DOMAIN answer.criteria : LastOf(k)
    BY DEF LastReport, LastOf
  <2> QED
    BY <1>1, <1>2, <2>1
<1> QED
  BY <1>3 DEF Reported

\* Silence of review_decision and review_escalations is acceptance: only an
\* answer that satisfied every criterion left to the reviewer earns it.
LEMMA SilenceSatisfied ==
  ASSUME NEW answer, Listed(answer)
  PROVE  SilenceMeansSatisfied(answer)
<1> SUFFICES ASSUME ReviewReasons(answer) = {}, ReviewEscalations(answer) = {}
             PROVE  FullySatisfied(answer)
  BY DEF SilenceMeansSatisfied
<1>1. Duplicated(answer) = {}
  BY DEF ReviewReasons
<1>2. \A c \in Reviewed : \E i \in DOMAIN answer.criteria : answer.criteria[i].id = c
  BY DEF ReviewReasons, Ids
<1>3. answer.findings \cap Blocking = {}
  BY DEF ReviewReasons, BlockingFindings
<1>4. ASSUME NEW i \in DOMAIN answer.criteria
      PROVE  LET item == answer.criteria[i]
             IN  /\ item.id \in TaskCriteria
                 /\ item.id \in Reviewed => item.status = "satisfied"
                 /\ item.id \in Gated => item.status # "not_satisfied"
                 /\ \A j \in DOMAIN answer.criteria :
                      answer.criteria[j].id = item.id => j = i
  <2> DEFINE item == answer.criteria[i]
  <2>1. item.id \in Ids(answer) /\ Reported(answer, item.id) = item.status
    BY <1>1, ReportedIsTheItem DEF Ids
  <2>2. item.id \in TaskCriteria
    BY <2>1 DEF ReviewReasons
  <2>3. item.id \in Reviewed => item.status = "satisfied"
    <3> SUFFICES ASSUME item.id \in Reviewed PROVE item.status = "satisfied"
      OBVIOUS
    <3>1. Reported(answer, item.id) \in {"satisfied", "not_verifiable"}
      BY <2>1 DEF ReviewReasons
    <3>2. Reported(answer, item.id) # "not_verifiable"
      BY <2>1 DEF ReviewEscalations
    <3> QED
      BY <2>1, <3>1, <3>2
  <2>4. item.id \in Gated => item.status # "not_satisfied"
    BY <2>1 DEF ReviewEscalations
  <2>5. \A j \in DOMAIN answer.criteria : answer.criteria[j].id = item.id => j = i
    BY <1>1, OneItem
  <2> QED
    BY <2>2, <2>3, <2>4, <2>5
<1> QED
  BY <1>2, <1>3, <1>4 DEF FullySatisfied

\* The converse: review_decision and review_escalations find nothing to say of
\* an answer that satisfied everything.
LEMMA SatisfiedSilent ==
  ASSUME NEW answer, Listed(answer)
  PROVE  SatisfiedMeansSilence(answer)
<1> SUFFICES ASSUME FullySatisfied(answer)
             PROVE  ReviewReasons(answer) = {} /\ ReviewEscalations(answer) = {}
  BY DEF SatisfiedMeansSilence
<1>1. Duplicated(answer) = {}
  <2>1. \A i \in DOMAIN answer.criteria : \A j \in DOMAIN answer.criteria :
          answer.criteria[j].id = answer.criteria[i].id => j = i
    BY DEF FullySatisfied
  <2>2. \A i \in DOMAIN answer.criteria : ~(i < i)
    BY DEF Listed
  <2> QED
    BY <2>1, <2>2 DEF Duplicated
<1>2. Reviewed \subseteq Ids(answer) /\ Ids(answer) \subseteq TaskCriteria
  BY DEF FullySatisfied, Ids
<1>3. ASSUME NEW c \in Ids(answer)
      PROVE  /\ c \in Reviewed => Reported(answer, c) = "satisfied"
             /\ c \in Gated => Reported(answer, c) # "not_satisfied"
  <2>1. PICK i \in DOMAIN answer.criteria : answer.criteria[i].id = c
    BY DEF Ids
  <2>2. Reported(answer, c) = answer.criteria[i].status
    BY <1>1, <2>1, ReportedIsTheItem
  <2> QED
    BY <2>1, <2>2 DEF FullySatisfied
<1>4. BlockingFindings(answer) = {}
  BY DEF FullySatisfied, BlockingFindings
<1> QED
  BY <1>1, <1>2, <1>3, <1>4 DEF ReviewReasons, ReviewEscalations
=============================================================================
