------------------------------ MODULE SumLemmas -----------------------------
(***************************************************************************)
(* Sums of a quantity f over a finite set and over a sequence, as the      *)
(* community modules compute them.  An instance of this module gives its   *)
(* theorems for the quantity of a model; `context' is what the quantity    *)
(* depends on besides its argument.                                        *)
(***************************************************************************)
EXTENDS Integers, Sequences, SequencesExt, FiniteSets, FiniteSetsExt,
        QueueLemmas, FiniteSetTheorems

CONSTANT f(_, _)

Plus(context, n, x) == n + f(context, x)
Adding == INSTANCE FoldLemmas WITH op <- Plus

SeqSum(context, s) == FoldLeft(LAMBDA n, x : n + f(context, x), 0, s)
SetSum(context, S) == MapThenSumSet(LAMBDA x : f(context, x), S)

-----------------------------------------------------------------------------
(* Sums over a sequence: the partial sums determine them.                  *)

LEMMA SeqSumSteps ==
  ASSUME NEW c, NEW S, NEW s \in Seq(S)
  PROVE  \E F : /\ F[0] = 0
                /\ \A k \in 1 .. Len(s) : F[k] = F[k - 1] + f(c, s[k])
                /\ SeqSum(c, s) = F[Len(s)]
<1>1. SeqSum(c, s) = Adding!Folded(c, 0, s)
  BY DEF SeqSum, Adding!Folded, FoldLeft, MapThenFoldSet,
         Adding!MapThenFoldSet, Max, Adding!Greatest, Plus
<1>2. PICK F : Adding!Folding(F, c, 0, s)
  BY Adding!FoldSteps
<1> QED BY <1>1, <1>2 DEF Plus, Adding!Folding

LEMMA SeqSumIs ==
  ASSUME NEW c, NEW S, NEW s \in Seq(S), NEW G,
         G[0] = 0, \A k \in 1 .. Len(s) : G[k] = G[k - 1] + f(c, s[k])
  PROVE  SeqSum(c, s) = G[Len(s)]
<1>1. PICK F : /\ F[0] = 0
               /\ \A k \in 1 .. Len(s) : F[k] = F[k - 1] + f(c, s[k])
               /\ SeqSum(c, s) = F[Len(s)]
  BY SeqSumSteps
<1>2. Len(s) \in Nat
  OBVIOUS
<1> DEFINE T == {k \in Nat : k <= Len(s) => F[k] = G[k]}
<1>3. 0 \in T
  BY <1>1
<1>4. ASSUME NEW k \in T PROVE k + 1 \in T
  <2>1. SUFFICES ASSUME k + 1 <= Len(s) PROVE F[k + 1] = G[k + 1]
    OBVIOUS
  <2>2. k + 1 \in 1 .. Len(s) /\ (k + 1) - 1 = k /\ F[k] = G[k]
    BY <1>2, <2>1
  <2>3. F[k + 1] = F[k] + f(c, s[k + 1]) /\ G[k + 1] = G[k] + f(c, s[k + 1])
    BY <1>1, <2>2
  <2> QED BY <2>2, <2>3
<1>5. T = Nat
  <2>1. T \in SUBSET Nat
    OBVIOUS
  <2> HIDE DEF T
  <2> QED BY <1>3, <1>4, <2>1, Adding!NatSetInduction
<1>6. Len(s) \in T
  BY <1>2, <1>5
<1> QED BY <1>1, <1>6

(* The partial sums of natural numbers.                                    *)
PartialSums(F, c, s) ==
  /\ F[0] = 0
  /\ \A k \in 1 .. Len(s) : F[k] = F[k - 1] + f(c, s[k])
  /\ \A k \in 0 .. Len(s) : F[k] \in Nat
  /\ SeqSum(c, s) = F[Len(s)]

LEMMA SeqSumNat ==
  ASSUME NEW c, NEW S, NEW s \in Seq(S), \A x \in S : f(c, x) \in Nat
  PROVE  \E F : PartialSums(F, c, s)
<1>1. PICK F : /\ F[0] = 0
               /\ \A k \in 1 .. Len(s) : F[k] = F[k - 1] + f(c, s[k])
               /\ SeqSum(c, s) = F[Len(s)]
  BY SeqSumSteps
<1>2. Len(s) \in Nat /\ \A k \in 1 .. Len(s) : s[k] \in S
  BY LenProperties, ElementOfSeq
<1> DEFINE T == {k \in Nat : k <= Len(s) => F[k] \in Nat}
<1>3. 0 \in T
  BY <1>1
<1>4. ASSUME NEW k \in T PROVE k + 1 \in T
  <2>1. SUFFICES ASSUME k + 1 <= Len(s) PROVE F[k + 1] \in Nat
    OBVIOUS
  <2>2. k + 1 \in 1 .. Len(s) /\ (k + 1) - 1 = k /\ F[k] \in Nat
    BY <1>2, <2>1
  <2>3. F[k + 1] = F[k] + f(c, s[k + 1]) /\ f(c, s[k + 1]) \in Nat
    BY <1>1, <1>2, <2>2
  <2> QED BY <2>2, <2>3
<1>5. T = Nat
  <2>1. T \in SUBSET Nat
    OBVIOUS
  <2> HIDE DEF T
  <2> QED BY <1>3, <1>4, <2>1, Adding!NatSetInduction
<1>6. \A k \in 0 .. Len(s) : F[k] \in Nat
  BY <1>2, <1>5
<1> QED BY <1>1, <1>6 DEF PartialSums

LEMMA SeqSumType ==
  ASSUME NEW c, NEW S, NEW s \in Seq(S), \A x \in S : f(c, x) \in Nat
  PROVE  SeqSum(c, s) \in Nat
<1>1. Len(s) \in 0 .. Len(s)
  BY LenProperties
<1> QED BY <1>1, SeqSumNat DEF PartialSums

LEMMA SeqSumEmpty ==
  ASSUME NEW c
  PROVE  SeqSum(c, <<>>) = 0
<1>1. <<>> \in Seq(Nat) /\ Len(<<>>) = 0
  OBVIOUS
<1>2. \E F : F[0] = 0 /\ SeqSum(c, <<>>) = F[Len(<<>>)]
  BY <1>1, SeqSumSteps
<1> QED BY <1>1, <1>2

LEMMA SeqSumAppend ==
  ASSUME NEW c, NEW S, NEW s \in Seq(S), NEW x \in S, \A y \in S : f(c, y) \in Nat
  PROVE  SeqSum(c, Append(s, x)) = SeqSum(c, s) + f(c, x)
<1> DEFINE t == Append(s, x)
           n == Len(s)
<1>1. /\ n \in Nat /\ t \in Seq(S) /\ Len(t) = n + 1
      /\ \A k \in 1 .. n + 1 : t[k] = IF k <= n THEN s[k] ELSE x
  BY AppendHeadTail
<1>2. PICK F : PartialSums(F, c, s)
  BY SeqSumNat
<1>3. /\ F[0] = 0 /\ \A j \in 1 .. n : F[j] = F[j - 1] + f(c, s[j])
      /\ SeqSum(c, s) = F[n]
  BY <1>2 DEF PartialSums
<1> DEFINE G == [k \in 0 .. n + 1 |-> IF k <= n THEN F[k] ELSE F[n] + f(c, x)]
<1> HIDE DEF t, n
<1>4. \A k \in 0 .. n + 1 : G[k] = IF k <= n THEN F[k] ELSE F[n] + f(c, x)
  OBVIOUS
<1> HIDE DEF G
<1>5. G[0] = 0 /\ G[n + 1] = SeqSum(c, s) + f(c, x)
  BY <1>1, <1>3, <1>4
<1>6. ASSUME NEW k \in 1 .. n + 1 PROVE G[k] = G[k - 1] + f(c, t[k])
  <2>1. k \in 0 .. n + 1 /\ k - 1 \in 0 .. n + 1 /\ k - 1 <= n
    BY <1>1
  <2>2. CASE k <= n
    <3>1. k \in 1 .. n /\ t[k] = s[k]
      BY <1>1, <2>2
    <3> QED BY <1>3, <1>4, <2>1, <2>2, <3>1
  <2>3. CASE k = n + 1
    <3>1. t[k] = x /\ k - 1 = n /\ ~(k <= n)
      BY <1>1, <2>3
    <3> QED BY <1>4, <2>1, <3>1
  <2> QED BY <1>1, <2>2, <2>3
<1>7. SeqSum(c, t) = G[n + 1]
  <2>1. t \in Seq(S) /\ Len(t) = n + 1
    BY <1>1
  <2>2. G[0] = 0
    BY <1>5
  <2>3. \A k \in 1 .. Len(t) : G[k] = G[k - 1] + f(c, t[k])
    BY <1>6, <2>1
  <2>4. SeqSum(c, t) = G[Len(t)]
    BY <2>1, <2>2, <2>3, SeqSumIs
  <2> QED BY <2>1, <2>4
<1> QED BY <1>5, <1>7 DEF t

LEMMA SeqSumRemoveAt ==
  ASSUME NEW c, NEW S, NEW s \in Seq(S), NEW k \in 1 .. Len(s),
         \A y \in S : f(c, y) \in Nat
  PROVE  /\ SeqSum(c, RemoveAt(s, k)) = SeqSum(c, s) - f(c, s[k])
         /\ SeqSum(c, s) >= f(c, s[k])
<1> DEFINE t == RemoveAt(s, k)
           n == Len(s)
<1>1. /\ n \in Nat /\ t \in Seq(S) /\ Len(t) = n - 1
      /\ \A j \in 1 .. n - 1 : t[j] = IF j < k THEN s[j] ELSE s[j + 1]
      /\ \A j \in 1 .. n : f(c, s[j]) \in Nat
  BY RemoveAtProperties, AppendHeadTail
<1>2. PICK F : PartialSums(F, c, s)
  BY SeqSumNat
<1>3. /\ F[0] = 0 /\ \A j \in 1 .. n : F[j] = F[j - 1] + f(c, s[j])
      /\ \A j \in 0 .. n : F[j] \in Nat
      /\ SeqSum(c, s) = F[n]
  BY <1>2 DEF PartialSums
<1> DEFINE G == [j \in 0 .. n - 1 |-> IF j < k THEN F[j] ELSE F[j + 1] - f(c, s[k])]
<1>4. k \in 1 .. n
  OBVIOUS
<1> HIDE DEF t, n
<1>0. \A j \in 0 .. n - 1 : G[j] = IF j < k THEN F[j] ELSE F[j + 1] - f(c, s[k])
  OBVIOUS
<1> HIDE DEF G
<1>5. G[0] = 0
  <2>1. 0 \in 0 .. n - 1 /\ 0 < k
    BY <1>1, <1>4
  <2> QED BY <1>0, <1>3, <2>1
<1>6. ASSUME NEW j \in 1 .. n - 1 PROVE G[j] = G[j - 1] + f(c, t[j])
  <2>5. n \in Nat
    BY <1>1
  <2>0. /\ j \in 0 .. n - 1 /\ j - 1 \in 0 .. n - 1 /\ j \in 1 .. n /\ j + 1 \in 1 .. n
        /\ (j + 1) - 1 = j /\ (j - 1) + 1 = j /\ j \in 0 .. n /\ j - 1 \in 0 .. n
    BY <2>5
  <2>1. CASE j < k
    <3>1. t[j] = s[j] /\ j - 1 < k
      BY <1>1, <1>4, <2>1
    <3> QED BY <1>0, <1>3, <2>0, <2>1, <3>1
  <2>2. CASE j = k
    <3>1. t[j] = s[j + 1] /\ j - 1 < k /\ ~(j < k)
      BY <1>1, <1>4, <2>2
    <3>2. G[j] = F[j + 1] - f(c, s[k]) /\ G[j - 1] = F[j - 1]
      BY <1>0, <2>0, <3>1
    <3>3. F[j + 1] = F[j] + f(c, s[j + 1]) /\ F[j] = F[j - 1] + f(c, s[k])
      BY <1>3, <2>0, <2>2
    <3>4. F[j - 1] \in Nat /\ f(c, s[k]) \in Nat /\ f(c, s[j + 1]) \in Nat
      BY <1>1, <1>3, <1>4, <2>0
    <3> QED BY <3>1, <3>2, <3>3, <3>4
  <2>3. CASE j > k
    <3>1. t[j] = s[j + 1] /\ ~(j - 1 < k) /\ ~(j < k)
      BY <1>1, <1>4, <2>3
    <3>2. G[j] = F[j + 1] - f(c, s[k]) /\ G[j - 1] = F[j] - f(c, s[k])
      BY <1>0, <2>0, <3>1
    <3>3. F[j + 1] = F[j] + f(c, s[j + 1])
      BY <1>3, <2>0
    <3>4. F[j] \in Nat /\ f(c, s[k]) \in Nat /\ f(c, s[j + 1]) \in Nat
      BY <1>1, <1>3, <1>4, <2>0
    <3> QED BY <3>1, <3>2, <3>3, <3>4
  <2> QED BY <1>1, <1>4, <2>1, <2>2, <2>3
<1>7. G[n - 1] = F[n] - f(c, s[k])
  <2>0. n - 1 \in 0 .. n - 1 /\ (n - 1) + 1 = n /\ n \in 1 .. n
    BY <1>1, <1>4
  <2>1. CASE k = n
    <3>1. n - 1 < k
      BY <1>1, <2>1
    <3>2. G[n - 1] = F[n - 1]
      BY <1>0, <2>0, <3>1
    <3>3. F[n] = F[n - 1] + f(c, s[n]) /\ F[n - 1] \in Nat /\ f(c, s[n]) \in Nat
      <4>1. n - 1 \in 0 .. n
        BY <1>1, <2>0
      <4> QED BY <1>1, <1>3, <2>0, <4>1
    <3> QED BY <2>1, <3>2, <3>3
  <2>2. CASE k < n
    <3>1. ~(n - 1 < k)
      BY <1>1, <1>4, <2>2
    <3> QED BY <1>0, <2>0, <3>1
  <2> QED BY <1>1, <1>4, <2>1, <2>2
<1>8. SeqSum(c, t) = F[n] - f(c, s[k])
  <2>1. t \in Seq(S) /\ Len(t) = n - 1
    BY <1>1
  <2>2. G[0] = 0
    BY <1>5
  <2>3. \A j \in 1 .. Len(t) : G[j] = G[j - 1] + f(c, t[j])
    BY <1>6, <2>1
  <2>4. SeqSum(c, t) = G[Len(t)]
    BY <2>1, <2>2, <2>3, SeqSumIs
  <2> QED BY <1>7, <2>1, <2>4
<1>9. SeqSum(c, t) \in Nat
  BY <1>1, SeqSumType
<1>10. F[n] \in Nat /\ f(c, s[k]) \in Nat
  BY <1>1, <1>3, <1>4
<1> QED BY <1>3, <1>8, <1>9, <1>10 DEF t

LEMMA SeqSumUpdate ==
  ASSUME NEW c, NEW S, NEW s \in Seq(S), NEW k \in 1 .. Len(s), NEW x \in S,
         \A y \in S : f(c, y) \in Nat
  PROVE  SeqSum(c, [s EXCEPT ![k] = x]) = SeqSum(c, s) - f(c, s[k]) + f(c, x)
<1> DEFINE t == [s EXCEPT ![k] = x]
           n == Len(s)
<1>1. /\ n \in Nat /\ t \in Seq(S) /\ Len(t) = n
      /\ \A j \in 1 .. n : t[j] = IF j = k THEN x ELSE s[j]
      /\ \A j \in 1 .. n : f(c, s[j]) \in Nat
      /\ f(c, x) \in Nat
  BY ExceptSeq, AppendHeadTail
<1>2. PICK F : PartialSums(F, c, s)
  BY SeqSumNat
<1>3. /\ F[0] = 0 /\ \A j \in 1 .. n : F[j] = F[j - 1] + f(c, s[j])
      /\ \A j \in 0 .. n : F[j] \in Nat
      /\ SeqSum(c, s) = F[n]
  BY <1>2 DEF PartialSums
<1> DEFINE G == [j \in 0 .. n |-> IF j < k THEN F[j] ELSE F[j] - f(c, s[k]) + f(c, x)]
<1>4. k \in 1 .. n
  OBVIOUS
<1> HIDE DEF t, n
<1>0. \A j \in 0 .. n : G[j] = IF j < k THEN F[j] ELSE F[j] - f(c, s[k]) + f(c, x)
  OBVIOUS
<1> HIDE DEF G
<1>5. G[0] = 0
  <2>1. 0 \in 0 .. n /\ 0 < k
    BY <1>1, <1>4
  <2> QED BY <1>0, <1>3, <2>1
<1>6. ASSUME NEW j \in 1 .. n PROVE G[j] = G[j - 1] + f(c, t[j])
  <2>5. n \in Nat
    BY <1>1
  <2>6. j \in 0 .. n /\ j - 1 \in 0 .. n
    BY <2>5
  <2>0. j \in 0 .. n /\ j - 1 \in 0 .. n /\ F[j] = F[j - 1] + f(c, s[j])
    BY <1>3, <2>6
  <2>4. /\ F[j - 1] \in Nat /\ f(c, s[j]) \in Nat
        /\ f(c, s[k]) \in Nat /\ f(c, x) \in Nat
    BY <1>1, <1>3, <1>4, <2>0
  <2>1. CASE j < k
    <3>1. t[j] = s[j] /\ j - 1 < k
      BY <1>1, <1>4, <2>1
    <3> QED BY <1>0, <2>0, <2>1, <3>1
  <2>2. CASE j = k
    <3>1. t[j] = x /\ j - 1 < k /\ ~(j < k)
      BY <1>1, <1>4, <2>2
    <3>2. G[j] = F[j] - f(c, s[k]) + f(c, x) /\ G[j - 1] = F[j - 1]
      BY <1>0, <2>0, <3>1
    <3> QED BY <2>0, <2>2, <2>4, <3>1, <3>2
  <2>3. CASE j > k
    <3>1. t[j] = s[j] /\ ~(j - 1 < k) /\ ~(j < k)
      BY <1>1, <1>4, <2>3
    <3>2. /\ G[j] = F[j] - f(c, s[k]) + f(c, x)
          /\ G[j - 1] = F[j - 1] - f(c, s[k]) + f(c, x)
      BY <1>0, <2>0, <3>1
    <3> QED BY <2>0, <2>4, <3>1, <3>2
  <2> QED BY <1>1, <1>4, <2>1, <2>2, <2>3
<1>7. G[n] = F[n] - f(c, s[k]) + f(c, x)
  <2>1. n \in 0 .. n /\ ~(n < k)
    BY <1>1, <1>4
  <2> QED BY <1>0, <2>1
<1>8. SeqSum(c, t) = G[n]
  <2>1. t \in Seq(S) /\ Len(t) = n
    BY <1>1
  <2>2. G[0] = 0
    BY <1>5
  <2>3. \A j \in 1 .. Len(t) : G[j] = G[j - 1] + f(c, t[j])
    BY <1>6, <2>1
  <2>4. SeqSum(c, t) = G[Len(t)]
    BY <2>1, <2>2, <2>3, SeqSumIs
  <2> QED BY <2>1, <2>4
<1> QED BY <1>3, <1>7, <1>8 DEF t

-----------------------------------------------------------------------------
(* Sums over a finite set.  Summing(F, c, S) is what the fold computes for *)
(* the subsets of S: the element it takes out first is chosen.             *)

Pick(U) == CHOOSE x \in U : TRUE
Summing(F, c, S) ==
  /\ F[{}] = 0
  /\ \A U \in SUBSET S : U # {} => F[U] = f(c, Pick(U)) + F[U \ {Pick(U)}]

LEMMA PickMember ==
  ASSUME NEW U, U # {}
  PROVE  Pick(U) \in U
BY DEF Pick

(* Induction over the subsets of a finite set, said of a set of subsets.   *)
LEMMA SubsetInduction ==
  ASSUME NEW S, IsFiniteSet(S), NEW T \in SUBSET SUBSET S, {} \in T,
         \A U \in SUBSET S : U # {} /\ (\A x \in U : U \ {x} \in T) => U \in T
  PROVE  T = SUBSET S
<1> DEFINE M == {n \in Nat : \A U \in SUBSET S : Cardinality(U) = n => U \in T}
<1>1. \A U \in SUBSET S : IsFiniteSet(U) /\ Cardinality(U) \in Nat
  BY FS_Subset, FS_CardinalityType
<1>2. 0 \in M
  BY <1>1, FS_EmptySet
<1>3. ASSUME NEW n \in M PROVE n + 1 \in M
  <2>1. SUFFICES ASSUME NEW U \in SUBSET S, Cardinality(U) = n + 1 PROVE U \in T
    OBVIOUS
  <2>2. U # {}
    BY <2>1, FS_EmptySet
  <2>3. ASSUME NEW x \in U PROVE U \ {x} \in T
    <3>1. Cardinality(U \ {x}) = (n + 1) - 1
      BY <1>1, <2>1, FS_RemoveElement
    <3>2. (n + 1) - 1 = n
      OBVIOUS
    <3> QED BY <3>1, <3>2
  <2> QED BY <2>2, <2>3
<1>4. M = Nat
  <2>1. M \in SUBSET Nat
    OBVIOUS
  <2> HIDE DEF M
  <2> QED BY <1>2, <1>3, <2>1, Adding!NatSetInduction
<1> QED BY <1>1, <1>4

LEMMA SetSumSteps ==
  ASSUME NEW c, NEW S, IsFiniteSet(S)
  PROVE  \E F : Summing(F, c, S) /\ SetSum(c, S) = F[S]
<1> DEFINE Small(n) == {U \in SUBSET S : Cardinality(U) <= n}
           Body(g, U) == IF U = {} THEN 0 ELSE f(c, Pick(U)) + g[U \ {Pick(U)}]
           Iter(g, D) == g = [U \in D |-> Body(g, U)]
           M == {n \in Nat : \E g : Iter(g, Small(n))}
<1>1. \A U \in SUBSET S : IsFiniteSet(U) /\ Cardinality(U) \in Nat
  BY FS_Subset, FS_CardinalityType
<1>2. 0 \in M
  <2> DEFINE g == [U \in Small(0) |-> 0]
  <2>1. \A U \in Small(0) : U = {}
    BY <1>1, FS_EmptySet
  <2>2. Iter(g, Small(0))
    BY <2>1
  <2> QED BY <2>2
<1>3. ASSUME NEW n \in M PROVE n + 1 \in M
  <2>1. PICK g : Iter(g, Small(n))
    OBVIOUS
  <2> DEFINE h == [U \in Small(n + 1) |-> Body(g, U)]
  <2>2. ASSUME NEW U \in Small(n + 1), U # {}
        PROVE  U \ {Pick(U)} \in Small(n)
    <3>1. Pick(U) \in U
      BY <2>2, PickMember
    <3>2. Cardinality(U \ {Pick(U)}) = Cardinality(U) - 1
      BY <1>1, <3>1, FS_RemoveElement
    <3>3. U \ {Pick(U)} \in SUBSET S /\ Cardinality(U) \in Nat /\ Cardinality(U) <= n + 1
      BY <1>1
    <3> QED BY <3>2, <3>3
  <2>3. ASSUME NEW U \in Small(n) PROVE U \in Small(n + 1) /\ h[U] = g[U]
    <3>1. U \in Small(n + 1)
      BY <1>1
    <3>2. g[U] = Body(g, U)
      BY <2>1
    <3> QED BY <3>1, <3>2
  <2>4. ASSUME NEW U \in Small(n + 1) PROVE Body(g, U) = Body(h, U)
    BY <2>2, <2>3
  <2>5. Iter(h, Small(n + 1))
    <3>1. h = [U \in Small(n + 1) |-> Body(g, U)]
      OBVIOUS
    <3> DEFINE D == Small(n + 1)
    <3>0. D = Small(n + 1)
      OBVIOUS
    <3> HIDE DEF h, D
    <3>2. \A U \in D : Body(g, U) = Body(h, U)
      BY <2>4 DEF D
    <3>3. h = [U \in D |-> Body(g, U)]
      BY <3>1 DEF D
    <3>4. h = [U \in D |-> Body(h, U)]
      <4> HIDE DEF Body
      <4> QED BY <3>2, <3>3, Zenon
    <3>5. Iter(h, D)
      BY <3>4
    <3> HIDE DEF Iter, Small
    <3> QED BY <3>0, <3>5
  <2> HIDE DEF Iter, Small, h
  <2> QED BY <2>5
<1>4. M = Nat
  <2>1. M \in SUBSET Nat
    OBVIOUS
  <2> HIDE DEF M
  <2> QED BY <1>2, <1>3, <2>1, Adding!NatSetInduction
<1>5. Small(Cardinality(S)) = SUBSET S /\ Cardinality(S) \in Nat
  BY <1>1, FS_Subset, FS_CardinalityType
<1> DEFINE iter == CHOOSE g : Iter(g, SUBSET S)
<1>6. Iter(iter, SUBSET S)
  <2> DEFINE n == Cardinality(S)
  <2>1. n \in M /\ Small(n) = SUBSET S
    BY <1>4, <1>5
  <2>2. \E g : Iter(g, Small(n))
    <3> HIDE DEF Iter, Small, n
    <3> QED BY <2>1
  <2>3. \E g : Iter(g, SUBSET S)
    <3> HIDE DEF Iter, Small, n, M
    <3> QED BY <2>1, <2>2
  <2> QED BY <2>3
<1>7. SetSum(c, S) = iter[S]
  BY DEF SetSum, MapThenSumSet, MapThenFoldSet, Pick
<1> HIDE DEF iter
<1>8. Summing(iter, c, S)
  BY <1>6 DEF Summing
<1> QED BY <1>7, <1>8

LEMMA SummingUnique ==
  ASSUME NEW c, NEW S, IsFiniteSet(S), NEW F, NEW G,
         Summing(F, c, S), Summing(G, c, S)
  PROVE  F[S] = G[S]
<1> DEFINE T == {U \in SUBSET S : F[U] = G[U]}
<1>1. {} \in T
  BY DEF Summing
<1>2. ASSUME NEW U \in SUBSET S, U # {}, \A x \in U : U \ {x} \in T
      PROVE  U \in T
  <2>1. Pick(U) \in U
    BY <1>2, PickMember
  <2>2. F[U \ {Pick(U)}] = G[U \ {Pick(U)}]
    BY <1>2, <2>1
  <2> QED BY <1>2, <2>2 DEF Summing
<1>3. T \in SUBSET SUBSET S
  OBVIOUS
<1>4. T = SUBSET S
  <2> HIDE DEF T
  <2> QED BY <1>1, <1>2, <1>3, SubsetInduction
<1> QED BY <1>4

LEMMA SetSumEmpty ==
  ASSUME NEW c
  PROVE  SetSum(c, {}) = 0
BY SetSumSteps, FS_EmptySet DEF Summing

LEMMA SetSumPick ==
  ASSUME NEW c, NEW S, IsFiniteSet(S), S # {}
  PROVE  SetSum(c, S) = f(c, Pick(S)) + SetSum(c, S \ {Pick(S)})
<1> DEFINE U == S \ {Pick(S)}
<1>1. U \in SUBSET S /\ IsFiniteSet(U)
  BY FS_Subset
<1>2. PICK F : Summing(F, c, S) /\ SetSum(c, S) = F[S]
  BY SetSumSteps
<1>3. PICK G : Summing(G, c, U) /\ SetSum(c, U) = G[U]
  BY <1>1, SetSumSteps
<1>4. Summing(F, c, U)
  <2> HIDE DEF U
  <2> QED BY <1>1, <1>2 DEF Summing
<1>5. F[U] = G[U]
  <2> HIDE DEF U
  <2> QED BY <1>1, <1>3, <1>4, SummingUnique
<1> QED BY <1>2, <1>3, <1>5 DEF Summing

LEMMA SetSumType ==
  ASSUME NEW c, NEW S, IsFiniteSet(S), \A x \in S : f(c, x) \in Nat
  PROVE  SetSum(c, S) \in Nat
<1> DEFINE T == {U \in SUBSET S : SetSum(c, U) \in Nat}
<1>1. {} \in T
  BY SetSumEmpty
<1>2. ASSUME NEW U \in SUBSET S, U # {}, \A x \in U : U \ {x} \in T
      PROVE  U \in T
  <2>1. Pick(U) \in U /\ IsFiniteSet(U)
    BY <1>2, PickMember, FS_Subset
  <2>2. SetSum(c, U \ {Pick(U)}) \in Nat /\ f(c, Pick(U)) \in Nat
    BY <1>2, <2>1
  <2> QED BY <1>2, <2>1, <2>2, SetSumPick
<1>3. T \in SUBSET SUBSET S
  OBVIOUS
<1>4. T = SUBSET S
  <2> HIDE DEF T
  <2> QED BY <1>1, <1>2, <1>3, SubsetInduction
<1> QED BY <1>4

LEMMA SetSumInt ==
  ASSUME NEW c, NEW S, IsFiniteSet(S), \A x \in S : f(c, x) \in Int
  PROVE  SetSum(c, S) \in Int
<1> DEFINE T == {U \in SUBSET S : SetSum(c, U) \in Int}
<1>1. {} \in T
  BY SetSumEmpty
<1>2. ASSUME NEW U \in SUBSET S, U # {}, \A x \in U : U \ {x} \in T
      PROVE  U \in T
  <2>1. Pick(U) \in U /\ IsFiniteSet(U)
    BY <1>2, PickMember, FS_Subset
  <2>2. SetSum(c, U \ {Pick(U)}) \in Int /\ f(c, Pick(U)) \in Int
    BY <1>2, <2>1
  <2> QED BY <1>2, <2>1, <2>2, SetSumPick
<1>3. T \in SUBSET SUBSET S
  OBVIOUS
<1>4. T = SUBSET S
  <2> HIDE DEF T
  <2> QED BY <1>1, <1>2, <1>3, SubsetInduction
<1> QED BY <1>4

(* Whatever element is taken out first.                                    *)
LEMMA SetSumRemove ==
  ASSUME NEW c, NEW S, IsFiniteSet(S), \A x \in S : f(c, x) \in Int, NEW e \in S
  PROVE  SetSum(c, S) = f(c, e) + SetSum(c, S \ {e})
<1> DEFINE T == {U \in SUBSET S :
                   \A x \in U : SetSum(c, U) = f(c, x) + SetSum(c, U \ {x})}
<1>1. {} \in T
  OBVIOUS
<1>2. ASSUME NEW U \in SUBSET S, U # {}, \A x \in U : U \ {x} \in T
      PROVE  U \in T
  <2>1. SUFFICES ASSUME NEW x \in U
                 PROVE  SetSum(c, U) = f(c, x) + SetSum(c, U \ {x})
    OBVIOUS
  <2> DEFINE y == Pick(U)
             W == (U \ {x}) \ {y}
  <2>2. y \in U /\ IsFiniteSet(U)
    BY PickMember, FS_Subset
  <2>3. SetSum(c, U) = f(c, y) + SetSum(c, U \ {y})
    BY <1>2, <2>2, SetSumPick
  <2>4. CASE x = y
    BY <2>3, <2>4
  <2>5. CASE x # y
    <3>1. x \in U \ {y} /\ y \in U \ {x} /\ (U \ {y}) \ {x} = W
      BY <2>2, <2>5
    <3>2. SetSum(c, U \ {y}) = f(c, x) + SetSum(c, W)
      <4>1. U \ {y} \in T
        BY <1>2, <2>2
      <4> QED BY <3>1, <4>1
    <3>3. SetSum(c, U \ {x}) = f(c, y) + SetSum(c, W)
      <4>1. U \ {x} \in T
        BY <1>2
      <4> QED BY <3>1, <4>1
    <3>4. f(c, x) \in Int /\ f(c, y) \in Int
      BY <2>2
    <3>5. SetSum(c, W) \in Int
      <4>1. W \in SUBSET S /\ IsFiniteSet(W)
        BY FS_Subset
      <4>2. \A z \in W : f(c, z) \in Int
        BY <4>1
      <4> HIDE DEF W
      <4> QED BY <4>1, <4>2, SetSumInt
    <3> HIDE DEF W, y
    <3> QED BY <2>3, <3>2, <3>3, <3>4, <3>5
  <2> QED BY <2>4, <2>5
<1>3. T \in SUBSET SUBSET S
  OBVIOUS
<1>4. T = SUBSET S
  <2> HIDE DEF T
  <2> QED BY <1>1, <1>2, <1>3, SubsetInduction
<1> QED BY <1>4

LEMMA SetSumAdd ==
  ASSUME NEW c, NEW S, IsFiniteSet(S), NEW e, e \notin S,
         \A x \in S \cup {e} : f(c, x) \in Nat
  PROVE  SetSum(c, S \cup {e}) = SetSum(c, S) + f(c, e)
<1> DEFINE U == S \cup {e}
<1>1. IsFiniteSet(U) /\ e \in U /\ U \ {e} = S
  BY FS_AddElement
<1>2. SetSum(c, U) = f(c, e) + SetSum(c, S)
  <2>1. \A x \in U : f(c, x) \in Nat
    OBVIOUS
  <2> HIDE DEF U
  <2> QED BY <1>1, <2>1, SetSumRemove
<1>3. SetSum(c, S) \in Nat /\ f(c, e) \in Nat
  BY SetSumType
<1> QED BY <1>2, <1>3

(* The sum depends only on the quantities of the elements.                 *)
LEMMA SetSumSame ==
  ASSUME NEW c, NEW d, NEW S, IsFiniteSet(S), \A x \in S : f(c, x) = f(d, x)
  PROVE  SetSum(c, S) = SetSum(d, S)
<1> DEFINE T == {U \in SUBSET S : SetSum(c, U) = SetSum(d, U)}
<1>1. {} \in T
  BY SetSumEmpty
<1>2. ASSUME NEW U \in SUBSET S, U # {}, \A x \in U : U \ {x} \in T
      PROVE  U \in T
  <2>1. Pick(U) \in U /\ IsFiniteSet(U)
    BY <1>2, PickMember, FS_Subset
  <2>2. SetSum(c, U \ {Pick(U)}) = SetSum(d, U \ {Pick(U)})
    BY <1>2, <2>1
  <2> QED BY <1>2, <2>1, <2>2, SetSumPick
<1>3. T \in SUBSET SUBSET S
  OBVIOUS
<1>4. T = SUBSET S
  <2> HIDE DEF T
  <2> QED BY <1>1, <1>2, <1>3, SubsetInduction
<1> QED BY <1>4

(* One term that changes: the sum changes by as much.                      *)
LEMMA SetSumShift ==
  ASSUME NEW c, NEW d, NEW S, IsFiniteSet(S), NEW e \in S,
         \A x \in S : f(c, x) \in Int /\ f(d, x) \in Int,
         \A x \in S : x # e => f(d, x) = f(c, x)
  PROVE  /\ SetSum(c, S) \in Int
         /\ SetSum(d, S) = SetSum(c, S) + (f(d, e) - f(c, e))
<1> DEFINE U == S \ {e}
<1>1. IsFiniteSet(U) /\ \A x \in U : f(c, x) \in Int /\ f(d, x) = f(c, x)
  BY FS_Subset
<1>2. SetSum(c, S) = f(c, e) + SetSum(c, U) /\ SetSum(d, S) = f(d, e) + SetSum(d, U)
  BY SetSumRemove
<1> HIDE DEF U
<1>3. SetSum(d, U) = SetSum(c, U) /\ SetSum(c, U) \in Int
  BY <1>1, SetSumSame, SetSumInt
<1>4. f(c, e) \in Int /\ f(d, e) \in Int
  OBVIOUS
<1> QED BY <1>2, <1>3, <1>4

(* Nothing adds up to nothing.                                             *)
LEMMA SetSumZero ==
  ASSUME NEW c, NEW S, IsFiniteSet(S), \A x \in S : f(c, x) = 0
  PROVE  SetSum(c, S) = 0
<1> DEFINE T == {U \in SUBSET S : SetSum(c, U) = 0}
<1>1. {} \in T
  BY SetSumEmpty
<1>2. ASSUME NEW U \in SUBSET S, U # {}, \A x \in U : U \ {x} \in T
      PROVE  U \in T
  <2>1. Pick(U) \in U /\ IsFiniteSet(U)
    BY <1>2, PickMember, FS_Subset
  <2>2. SetSum(c, U \ {Pick(U)}) = 0
    BY <1>2, <2>1
  <2> QED BY <1>2, <2>1, <2>2, SetSumPick
<1>3. T \in SUBSET SUBSET S
  OBVIOUS
<1>4. T = SUBSET S
  <2> HIDE DEF T
  <2> QED BY <1>1, <1>2, <1>3, SubsetInduction
<1> QED BY <1>4

(* The sum over two disjoint sets.                                         *)
LEMMA SetSumUnion ==
  ASSUME NEW c, NEW A, NEW B, IsFiniteSet(A), IsFiniteSet(B), A \cap B = {},
         \A x \in A \cup B : f(c, x) \in Nat
  PROVE  SetSum(c, A \cup B) = SetSum(c, A) + SetSum(c, B)
<1> DEFINE T == {U \in SUBSET B : SetSum(c, A \cup U) = SetSum(c, A) + SetSum(c, U)}
<1>1. SetSum(c, A) \in Nat
  BY SetSumType
<1>2. {} \in T
  <2>1. A \cup {} = A /\ SetSum(c, {}) = 0
    BY SetSumEmpty
  <2> QED BY <1>1, <2>1
<1>3. ASSUME NEW U \in SUBSET B, U # {}, \A x \in U : U \ {x} \in T
      PROVE  U \in T
  <2>1. PICK x \in U : TRUE
    BY <1>3
  <2> DEFINE V == U \ {x}
  <2>2. /\ SetSum(c, A \cup V) = SetSum(c, A) + SetSum(c, V)
        /\ V \in SUBSET B /\ x \notin V /\ x \notin A \cup V
        /\ V \cup {x} = U /\ (A \cup V) \cup {x} = A \cup U
    BY <1>3
  <2>3. IsFiniteSet(V) /\ IsFiniteSet(A \cup V)
    BY <2>2, FS_Subset, FS_Union
  <2>4. /\ \A y \in V \cup {x} : f(c, y) \in Nat
        /\ \A y \in (A \cup V) \cup {x} : f(c, y) \in Nat
        /\ f(c, x) \in Nat
    BY <2>2
  <2> HIDE DEF V
  <2>5. SetSum(c, V \cup {x}) = SetSum(c, V) + f(c, x)
    BY <2>2, <2>3, <2>4, SetSumAdd
  <2>6. SetSum(c, (A \cup V) \cup {x}) = SetSum(c, A \cup V) + f(c, x)
    BY <2>2, <2>3, <2>4, SetSumAdd
  <2>7. SetSum(c, V) \in Nat
    BY <2>3, <2>4, SetSumType
  <2>8. SetSum(c, A \cup U) = SetSum(c, A) + SetSum(c, U)
    <3>1. SetSum(c, A \cup U) = (SetSum(c, A) + SetSum(c, V)) + f(c, x)
      BY <2>2, <2>6
    <3>2. SetSum(c, U) = SetSum(c, V) + f(c, x)
      BY <2>2, <2>5
    <3>3. f(c, x) \in Nat
      BY <2>4
    <3> QED BY <1>1, <2>7, <3>1, <3>2, <3>3
  <2> QED BY <2>8
<1>4. T = SUBSET B
  <2>1. T \in SUBSET SUBSET B
    OBVIOUS
  <2> HIDE DEF T
  <2> QED BY <1>2, <1>3, <2>1, SubsetInduction
<1> QED BY <1>4

(* The sum over a sequence without repetitions is that of its elements.    *)
LEMMA SeqSumIsSetSum ==
  ASSUME NEW c, NEW S, NEW s \in Seq(S), IsInjective(s),
         \A x \in S : f(c, x) \in Nat
  PROVE  SeqSum(c, s) = SetSum(c, ToSet(s)) /\ IsFiniteSet(ToSet(s))
<1> DEFINE n == Len(s)
           Prefix(k) == {s[j] : j \in 1 .. k}
           G == [k \in 0 .. n |-> SetSum(c, Prefix(k))]
           T == {k \in Nat : k <= n => IsFiniteSet(Prefix(k))}
<1>1. n \in Nat /\ \A j \in 1 .. n : s[j] \in S
  BY LenProperties, ElementOfSeq
<1>2. Prefix(0) = {} /\ Prefix(n) = ToSet(s)
  BY LenProperties DEF ToSet
<1>3. ASSUME NEW k \in 1 .. n
      PROVE  /\ Prefix(k) = Prefix(k - 1) \cup {s[k]} /\ s[k] \notin Prefix(k - 1)
             /\ k - 1 \in 0 .. n /\ k \in 0 .. n
  <2>1. k - 1 \in 0 .. n /\ k \in 0 .. n /\ 1 .. k = (1 .. k - 1) \cup {k}
    BY <1>1
  <2>2. \A j \in 1 .. k - 1 : j \in 1 .. n /\ j # k
    BY <1>1
  <2>3. \A j \in 1 .. k - 1 : s[j] # s[k]
    BY <2>2, LenProperties DEF IsInjective
  <2> QED BY <2>1, <2>3
<1> HIDE DEF Prefix, n
<1>4. T = Nat
  <2>1. 0 \in T
    BY <1>2, FS_EmptySet
  <2>2. ASSUME NEW k \in T PROVE k + 1 \in T
    <3>1. SUFFICES ASSUME k + 1 <= n PROVE IsFiniteSet(Prefix(k + 1))
      OBVIOUS
    <3>2. k + 1 \in 1 .. n /\ (k + 1) - 1 = k /\ IsFiniteSet(Prefix(k))
      BY <1>1, <3>1
    <3>3. Prefix(k + 1) = Prefix(k) \cup {s[k + 1]}
      BY <1>3, <3>2
    <3>4. IsFiniteSet(Prefix(k) \cup {s[k + 1]})
      BY <3>2, FS_AddElement
    <3> QED BY <3>3, <3>4
  <2>3. T \in SUBSET Nat
    OBVIOUS
  <2> HIDE DEF T
  <2> QED BY <2>1, <2>2, <2>3, Adding!NatSetInduction
<1>5. \A k \in 0 .. n : IsFiniteSet(Prefix(k))
  BY <1>1, <1>4
<1>6. \A k \in 0 .. n : \A x \in Prefix(k) : f(c, x) \in Nat
  BY <1>1 DEF Prefix
<1>7. \A k \in 0 .. n : G[k] = SetSum(c, Prefix(k))
  OBVIOUS
<1> HIDE DEF G
<1>8. G[0] = 0
  <2>1. 0 \in 0 .. n
    BY <1>1
  <2> QED BY <1>2, <1>7, <2>1, SetSumEmpty
<1>9. ASSUME NEW k \in 1 .. n PROVE G[k] = G[k - 1] + f(c, s[k])
  <2> DEFINE U == Prefix(k - 1)
  <2>1. /\ Prefix(k) = U \cup {s[k]} /\ s[k] \notin U /\ IsFiniteSet(U)
        /\ k \in 0 .. n /\ k - 1 \in 0 .. n
    BY <1>3, <1>5
  <2>2. \A x \in U \cup {s[k]} : f(c, x) \in Nat
    BY <1>6, <2>1
  <2>3. G[k] = SetSum(c, U \cup {s[k]}) /\ G[k - 1] = SetSum(c, U)
    BY <1>7, <2>1
  <2> HIDE DEF U
  <2> QED BY <2>1, <2>2, <2>3, SetSumAdd
<1>10. SeqSum(c, s) = G[n]
  BY <1>8, <1>9, SeqSumIs DEF n
<1>11. n \in 0 .. n
  BY <1>1
<1> QED BY <1>2, <1>5, <1>7, <1>10, <1>11
=============================================================================
