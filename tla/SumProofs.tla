------------------------------- MODULE SumProofs -------------------------------
(***************************************************************************)
(* What sums over finite sets are: the facts about SumFunctionOnSet that    *)
(* the proofs about counters per transition and per value need.             *)
(***************************************************************************)
EXTENDS Functions, FiniteSetTheorems, WellFoundedInduction, TLAPS

-----------------------------------------------------------------------------
(* Induction, for a set of numbers: the least number that is missing has a  *)
(* predecessor that is not.                                                 *)
LEMMA NatSetInduction ==
  ASSUME NEW P, 0 \in P, \A n \in Nat : n \in P => n + 1 \in P
  PROVE  \A n \in Nat : n \in P
<1> SUFFICES ASSUME NEW k \in Nat, k \notin P PROVE FALSE
  OBVIOUS
<1> DEFINE missing == {n \in Nat : n \notin P}
           less    == OpToRel(<, Nat)
<1>1. PICK n \in missing : \A m \in missing : << m, n >> \notin less
  <2>1. missing \subseteq Nat /\ missing # {}
    OBVIOUS
  <2>2. IsWellFoundedOn(less, Nat)
    BY NatLessThanWellFounded
  <2> HIDE DEF missing, less
  <2> QED
    BY <2>1, <2>2, WFMin
<1>2. n # 0 /\ n - 1 \in Nat
  OBVIOUS
<1>3. << n - 1, n >> \in less
  BY <1>2 DEF OpToRel
<1>4. n - 1 \in P
  BY <1>1, <1>2, <1>3
<1>5. (n - 1) + 1 \in P
  BY <1>2, <1>4
<1> QED
  BY <1>5, (n - 1) + 1 = n

Pick(s) == CHOOSE x \in s : TRUE

(* One element that was picked, and a smaller set. *)
LEMMA PickRemoves ==
  ASSUME NEW S, IsFiniteSet(S), NEW s \in SUBSET S, s # {}
  PROVE  /\ Pick(s) \in s
         /\ s \ {Pick(s)} \in SUBSET S
         /\ Cardinality(s) \in Nat /\ Cardinality(s \ {Pick(s)}) \in Nat
         /\ Cardinality(s) = Cardinality(s \ {Pick(s)}) + 1
<1>1. Pick(s) \in s
  BY DEF Pick
<1>2. IsFiniteSet(s) /\ Cardinality(s) \in Nat
  BY FS_Subset, FS_CardinalityType
<1>3. /\ IsFiniteSet(s \ {Pick(s)})
      /\ Cardinality(s \ {Pick(s)}) = Cardinality(s) - 1
  BY <1>1, <1>2, FS_RemoveElement
<1>4. Cardinality(s \ {Pick(s)}) \in Nat
  BY <1>3, FS_CardinalityType
<1> QED
  BY <1>1, <1>2, <1>3, <1>4

(* Induction, for a set of subsets of a finite set. *)
LEMMA SubsetInduction ==
  ASSUME NEW S, IsFiniteSet(S), NEW P, {} \in P,
         \A s \in SUBSET S : s # {} /\ s \ {Pick(s)} \in P => s \in P
  PROVE  \A s \in SUBSET S : s \in P
<1> DEFINE Q == {n \in Nat : \A s \in SUBSET S : Cardinality(s) = n => s \in P}
<1>1. 0 \in Q
  BY FS_Subset, FS_EmptySet
<1>2. ASSUME NEW n \in Nat, n \in Q PROVE n + 1 \in Q
  <2> SUFFICES ASSUME NEW s \in SUBSET S, Cardinality(s) = n + 1 PROVE s \in P
    OBVIOUS
  <2>1. s # {}
    BY FS_EmptySet
  <2>2. Cardinality(s \ {Pick(s)}) = n /\ s \ {Pick(s)} \in SUBSET S
    BY <2>1, PickRemoves
  <2> QED
    BY <1>2, <2>1, <2>2
<1> HIDE DEF Q
<1>3. \A n \in Nat : n \in Q
  BY <1>1, <1>2, NatSetInduction
<1>4. \A s \in SUBSET S : Cardinality(s) \in Nat
  BY FS_Subset, FS_CardinalityType
<1> QED
  BY <1>3, <1>4 DEF Q

-----------------------------------------------------------------------------
(* sum maps every subset of S to the sum of f over it. *)
Sums(sum, f, S) ==
  sum = [s \in SUBSET S |-> IF s = {} THEN 0 ELSE f[Pick(s)] + sum[s \ {Pick(s)}]]

(* There is such a function: there is one for the small subsets, and one for *)
(* subsets with one more element.                                           *)
LEMMA SumsExist ==
  ASSUME NEW S, IsFiniteSet(S), NEW f \in [S -> Int]
  PROVE  \E sum \in [SUBSET S -> Int] : Sums(sum, f, S)
<1> DEFINE Small(n) == {s \in SUBSET S : Cardinality(s) <= n}
           After(sum, s) == IF s = {} THEN 0 ELSE f[Pick(s)] + sum[s \ {Pick(s)}]
           Q == {n \in Nat : \E sum \in [Small(n) -> Int] :
                               \A s \in Small(n) : sum[s] = After(sum, s)}
<1>1. 0 \in Q
  <2>1. \A s \in Small(0) : s = {}
    <3> TAKE s \in Small(0)
    <3>1. IsFiniteSet(s) /\ Cardinality(s) \in Nat /\ Cardinality(s) <= 0
      BY FS_Subset, FS_CardinalityType
    <3> QED
      BY <3>1, FS_EmptySet
  <2>2. [s \in Small(0) |-> 0] \in [Small(0) -> Int]
    OBVIOUS
  <2>3. \A s \in Small(0) : [r \in Small(0) |-> 0][s] = After([r \in Small(0) |-> 0], s)
    BY <2>1
  <2> QED
    BY <2>2, <2>3
<1>2. ASSUME NEW n \in Nat, n \in Q PROVE n + 1 \in Q
  <2>1. PICK sum \in [Small(n) -> Int] : \A s \in Small(n) : sum[s] = After(sum, s)
    BY <1>2
  <2> DEFINE more == [s \in Small(n + 1) |-> After(sum, s)]
  <2>2. \A s \in Small(n + 1) : s # {} => s \ {Pick(s)} \in Small(n) /\ Pick(s) \in S
    <3> TAKE s \in Small(n + 1)
    <3> HAVE s # {}
    <3> QED
      BY PickRemoves
  <2>3. more \in [Small(n + 1) -> Int]
    BY <2>2
  <2>4. \A s \in Small(n) : s \in Small(n + 1) /\ more[s] = sum[s]
    <3> TAKE s \in Small(n)
    <3>1. Cardinality(s) \in Nat
      BY FS_Subset, FS_CardinalityType
    <3> QED
      BY <2>1, <3>1
  <2>5. \A s \in Small(n + 1) : more[s] = After(more, s)
    BY <2>2, <2>4
  <2> HIDE DEF more
  <2>6. \E g \in [Small(n + 1) -> Int] : \A s \in Small(n + 1) : g[s] = After(g, s)
    BY <2>3, <2>5, Zenon
  <2>7. n + 1 \in Nat
    OBVIOUS
  <2> QED
    BY <2>6, <2>7, Zenon
<1> HIDE DEF Q
<1>3. Cardinality(S) \in Nat /\ Cardinality(S) \in Q
  BY <1>1, <1>2, NatSetInduction, FS_CardinalityType
<1>4. Small(Cardinality(S)) = SUBSET S
  BY FS_Subset
<1>5. PICK sum \in [SUBSET S -> Int] : \A s \in SUBSET S : sum[s] = After(sum, s)
  BY <1>3, <1>4 DEF Q
<1>6. sum = [s \in SUBSET S |-> After(sum, s)]
  BY <1>5
<1> QED
  BY <1>6 DEF Sums

(* SumFunctionOnSet(f, S) adds up f over S. *)
LEMMA SumIsSums ==
  ASSUME NEW S, IsFiniteSet(S), NEW f \in [S -> Int]
  PROVE  \E sum \in [SUBSET S -> Int] :
           Sums(sum, f, S) /\ SumFunctionOnSet(f, S) = sum[S]
<1> DEFINE sum == CHOOSE sum : Sums(sum, f, S)
<1>1. PICK g \in [SUBSET S -> Int] : Sums(g, f, S)
  BY SumsExist
<1>2. Sums(sum, f, S)
  BY <1>1
<1>3. SumFunctionOnSet(f, S) = sum[S]
  BY DEF SumFunctionOnSet, FoldFunctionOnSet, MapThenFoldSet, Sums, Pick
<1>4. sum \in [SUBSET S -> Int]
  <2>1. sum = [s \in SUBSET S |-> sum[s]]
    BY <1>2 DEF Sums
  <2> HIDE DEF sum
  <2>2. sum[{}] \in Int
    BY <1>2 DEF Sums
  <2>3. ASSUME NEW s \in SUBSET S, s # {}, sum[s \ {Pick(s)}] \in Int
        PROVE  sum[s] \in Int
    <3>1. Pick(s) \in S
      BY <2>3, PickRemoves
    <3>2. sum[s] = f[Pick(s)] + sum[s \ {Pick(s)}]
      BY <1>2, <2>3 DEF Sums
    <3> QED
      BY <2>3, <3>1, <3>2
  <2>4. \A s \in SUBSET S : s \in {r \in SUBSET S : sum[r] \in Int}
    <3> DEFINE P == {r \in SUBSET S : sum[r] \in Int}
    <3>1. {} \in P /\ \A s \in SUBSET S : s # {} /\ s \ {Pick(s)} \in P => s \in P
      BY <2>2, <2>3
    <3> HIDE DEF P
    <3>2. \A s \in SUBSET S : s \in P
      BY <3>1, SubsetInduction
    <3> QED
      BY <3>2 DEF P
  <2> QED
    BY <2>1, <2>4
<1> QED
  BY <1>2, <1>3, <1>4

(* What adds up, entry by entry, adds up in the sums. *)
LEMMA SumAdds ==
  ASSUME NEW S, IsFiniteSet(S), NEW f \in [S -> Int], NEW g \in [S -> Int],
         NEW h \in [S -> Int], \A x \in S : h[x] = f[x] + g[x]
  PROVE  SumFunctionOnSet(h, S) = SumFunctionOnSet(f, S) + SumFunctionOnSet(g, S)
<1>1. PICK F \in [SUBSET S -> Int] : Sums(F, f, S) /\ SumFunctionOnSet(f, S) = F[S]
  BY SumIsSums
<1>2. PICK G \in [SUBSET S -> Int] : Sums(G, g, S) /\ SumFunctionOnSet(g, S) = G[S]
  BY SumIsSums
<1>3. PICK H \in [SUBSET S -> Int] : Sums(H, h, S) /\ SumFunctionOnSet(h, S) = H[S]
  BY SumIsSums
<1> DEFINE P == {s \in SUBSET S : H[s] = F[s] + G[s]}
<1>4. {} \in P
  BY <1>1, <1>2, <1>3 DEF Sums
<1>5. ASSUME NEW s \in SUBSET S, s # {}, s \ {Pick(s)} \in P PROVE s \in P
  <2> DEFINE x == Pick(s)
             r == s \ {Pick(s)}
  <2>1. x \in S /\ r \in SUBSET S /\ H[r] = F[r] + G[r]
    BY <1>5, PickRemoves
  <2>2. F[s] = f[x] + F[r] /\ G[s] = g[x] + G[r] /\ H[s] = h[x] + H[r]
    BY <1>1, <1>2, <1>3, <1>5 DEF Sums
  <2>3. h[x] = f[x] + g[x] /\ f[x] \in Int /\ g[x] \in Int /\ F[r] \in Int /\ G[r] \in Int
    BY <2>1
  <2> QED
    BY <2>1, <2>2, <2>3
<1> HIDE DEF P
<1>6. \A s \in SUBSET S : s \in P
  BY <1>4, <1>5, SubsetInduction, Zenon
<1> QED
  BY <1>1, <1>2, <1>3, <1>6 DEF P

(* The sum of a map that is zero but for one entry is that entry. *)
LEMMA SumOne ==
  ASSUME NEW S, IsFiniteSet(S), NEW x, NEW n \in Int
  PROVE  SumFunctionOnSet([y \in S |-> IF y = x THEN n ELSE 0], S)
           = IF x \in S THEN n ELSE 0
<1> DEFINE f == [y \in S |-> IF y = x THEN n ELSE 0]
<1>0. f \in [S -> Int]
  OBVIOUS
<1>1. PICK F \in [SUBSET S -> Int] : Sums(F, f, S) /\ SumFunctionOnSet(f, S) = F[S]
  BY <1>0, SumIsSums
<1> DEFINE P == {s \in SUBSET S : F[s] = IF x \in s THEN n ELSE 0}
<1>2. {} \in P
  BY <1>1 DEF Sums
<1>3. ASSUME NEW s \in SUBSET S, s # {}, s \ {Pick(s)} \in P PROVE s \in P
  <2>1. Pick(s) \in s /\ s \ {Pick(s)} \in SUBSET S
    BY <1>3, PickRemoves
  <2>2. F[s] = f[Pick(s)] + F[s \ {Pick(s)}]
    BY <1>1, <1>3 DEF Sums
  <2>3. f[Pick(s)] = IF Pick(s) = x THEN n ELSE 0
    BY <2>1
  <2>4. F[s \ {Pick(s)}] = IF x \in s /\ x # Pick(s) THEN n ELSE 0
    BY <1>3
  <2> QED
    BY <2>1, <2>2, <2>3, <2>4
<1> HIDE DEF P, f
<1>4. S \in P
  BY <1>2, <1>3, SubsetInduction
<1> QED
  BY <1>1, <1>4 DEF P, f

(* A sum of integers is an integer; of natural numbers, a natural number.   *)
LEMMA SumType ==
  ASSUME NEW S, IsFiniteSet(S), NEW f \in [S -> Int]
  PROVE  /\ SumFunctionOnSet(f, S) \in Int
         /\ (\A x \in S : f[x] >= 0) => SumFunctionOnSet(f, S) >= 0
<1>1. PICK F \in [SUBSET S -> Int] : Sums(F, f, S) /\ SumFunctionOnSet(f, S) = F[S]
  BY SumIsSums
<1>2. ASSUME \A x \in S : f[x] >= 0 PROVE F[S] >= 0
  <2> DEFINE P == {s \in SUBSET S : F[s] >= 0}
  <2>1. {} \in P
    BY <1>1 DEF Sums
  <2>2. ASSUME NEW s \in SUBSET S, s # {}, s \ {Pick(s)} \in P PROVE s \in P
    <3>1. Pick(s) \in S /\ s \ {Pick(s)} \in SUBSET S
      BY <2>2, PickRemoves
    <3>2. F[s] = f[Pick(s)] + F[s \ {Pick(s)}]
      BY <1>1, <2>2 DEF Sums
    <3>3. f[Pick(s)] >= 0 /\ F[s \ {Pick(s)}] >= 0
          /\ f[Pick(s)] \in Int /\ F[s \ {Pick(s)}] \in Int
      BY <1>2, <2>2, <3>1
    <3> QED
      BY <3>2, <3>3
  <2> HIDE DEF P
  <2>3. S \in P
    BY <2>1, <2>2, SubsetInduction
  <2> QED
    BY <2>3 DEF P
<1> QED
  BY <1>1, <1>2

(* The sum of zeros is zero. *)
LEMMA SumZero ==
  ASSUME NEW S, IsFiniteSet(S), NEW f \in [S -> Int], \A x \in S : f[x] = 0
  PROVE  SumFunctionOnSet(f, S) = 0
<1>1. SumFunctionOnSet(f, S) = SumFunctionOnSet(f, S) + SumFunctionOnSet(f, S)
  BY SumAdds
<1> QED
  BY <1>1, SumType

(* A change of one entry changes the sum by as much. *)
LEMMA SumChange ==
  ASSUME NEW S, IsFiniteSet(S), NEW f \in [S -> Int], NEW h \in [S -> Int],
         NEW x \in S, \A y \in S : y # x => h[y] = f[y]
  PROVE  SumFunctionOnSet(h, S) = SumFunctionOnSet(f, S) + (h[x] - f[x])
<1> DEFINE g == [y \in S |-> IF y = x THEN h[x] - f[x] ELSE 0]
<1>1. f[x] \in Int /\ h[x] - f[x] \in Int
  OBVIOUS
<1>2. g \in [S -> Int] /\ \A y \in S : h[y] = f[y] + g[y]
  BY <1>1
<1>3. SumFunctionOnSet(g, S) = h[x] - f[x]
  BY <1>1, SumOne
<1> HIDE DEF g
<1>4. SumFunctionOnSet(h, S) = SumFunctionOnSet(f, S) + SumFunctionOnSet(g, S)
  BY <1>2, SumAdds
<1> QED
  BY <1>3, <1>4

(* No entry of a sum of natural numbers is more than the sum. *)
LEMMA SumBounds ==
  ASSUME NEW S, IsFiniteSet(S), NEW f \in [S -> Int], \A x \in S : f[x] >= 0,
         NEW x \in S
  PROVE  f[x] <= SumFunctionOnSet(f, S)
<1> DEFINE g == [f EXCEPT ![x] = 0]
<1>1. /\ g \in [S -> Int] /\ \A y \in S : g[y] >= 0
      /\ g[x] = 0 /\ \A y \in S : y # x => g[y] = f[y]
  OBVIOUS
<1> HIDE DEF g
<1>2. SumFunctionOnSet(g, S) = SumFunctionOnSet(f, S) + (g[x] - f[x])
  BY <1>1, SumChange
<1>3. SumFunctionOnSet(g, S) >= 0 /\ SumFunctionOnSet(f, S) \in Int
  BY <1>1, SumType
<1>4. f[x] \in Int /\ SumFunctionOnSet(g, S) = SumFunctionOnSet(f, S) + (0 - f[x])
  BY <1>1, <1>2
<1>5. SumFunctionOnSet(g, S) \in Int
  BY <1>1, SumType
<1> QED
  BY <1>3, <1>4, <1>5
================================================================================
