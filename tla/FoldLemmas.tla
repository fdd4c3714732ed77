----------------------------- MODULE FoldLemmas -----------------------------
(***************************************************************************)
(* What FoldLeft computes, for any operator: F[k] is what the fold has     *)
(* after k elements.  An instance of this module gives its theorem for one *)
(* operator of a model; `context' is what that operator reads besides its  *)
(* two arguments.                                                          *)
(***************************************************************************)
EXTENDS Naturals, Sequences, Folds, TLAPS, WellFoundedInduction

CONSTANT op(_, _, _)

(* Induction over the naturals, said of a set.                             *)
LEMMA NatSetInduction ==
  ASSUME NEW T \in SUBSET Nat, 0 \in T, \A n \in T : n + 1 \in T
  PROVE  T = Nat
<1> DEFINE R == OpToRel(<, Nat)
           U == Nat \ T
<1> SUFFICES ASSUME U # {} PROVE FALSE
  OBVIOUS
<1>1. IsWellFoundedOn(R, Nat)
  BY NatLessThanWellFounded
<1>2. U \subseteq Nat
  OBVIOUS
<1> HIDE DEF U
<1>3. PICK x \in U : \A y \in U : <<y, x>> \notin R
  BY <1>1, <1>2, WFMin
<1>4. x \in Nat /\ x \notin T /\ x # 0
  BY <1>3 DEF U
<1>5. PICK y \in Nat : y + 1 = x /\ y < x
  <2>1. x - 1 \in Nat /\ (x - 1) + 1 = x /\ x - 1 < x
    BY <1>4
  <2> QED BY <2>1
<1>6. <<y, x>> \in R
  BY <1>4, <1>5 DEF OpToRel
<1>7. y \in T
  BY <1>3, <1>6 DEF U
<1>8. y + 1 \in T
  BY <1>7
<1> QED BY <1>4, <1>5, <1>8

(* Max of FiniteSetsExt.                                                   *)
Greatest(s) == CHOOSE x \in s : \A y \in s : x >= y

LEMMA MaxOfNaturals ==
  ASSUME NEW k \in Nat, NEW s \in SUBSET (1 .. k + 1), k + 1 \in s
  PROVE  Greatest(s) = k + 1
<1>1. \A x \in s : x \in Nat /\ x <= k + 1
  OBVIOUS
<1>2. k + 1 \in s /\ \A y \in s : k + 1 >= y
  BY <1>1
<1>3. \A x \in s : (\A y \in s : x >= y) => x = k + 1
  BY <1>1, <1>2
<1>4. Greatest(s) \in s /\ \A y \in s : Greatest(s) >= y
  BY <1>2 DEF Greatest
<1> QED BY <1>3, <1>4

(* A set of positions that does not stop before k + 1 ends there, and what *)
(* comes before are positions up to k.                                     *)
LEMMA MaxOfPositions ==
  ASSUME NEW k \in Nat, NEW s \in SUBSET (1 .. k + 1), s \notin SUBSET (1 .. k)
  PROVE  Greatest(s) = k + 1 /\ s # {} /\ s \ {Greatest(s)} \in SUBSET (1 .. k)
<1>1. k + 1 \in s
  OBVIOUS
<1>2. Greatest(s) = k + 1
  BY <1>1, MaxOfNaturals
<1> QED BY <1>1, <1>2

-----------------------------------------------------------------------------
(* FoldLeft of SequencesExt, for op.                                       *)
Folded(context, base, seq) ==
  MapThenFoldSet(LAMBDA x, acc : op(context, acc, x), base, LAMBDA k : seq[k],
                 LAMBDA s : Greatest(s), DOMAIN seq)

(* F[k] is what the fold has after k elements.                             *)
Folding(F, context, base, seq) ==
  /\ F[0] = base
  /\ \A k \in 1 .. Len(seq) : F[k] = op(context, F[k - 1], seq[k])
  /\ Folded(context, base, seq) = F[Len(seq)]

THEOREM FoldSteps ==
  ASSUME NEW context, NEW base, NEW S, NEW seq \in Seq(S)
  PROVE  \E F : Folding(F, context, base, seq)
<1> DEFINE n == Len(seq)
           Value(g, s) == IF s = {} THEN base
                          ELSE op(context, g[s \ {Greatest(s)}], seq[Greatest(s)])
           Iter(g, k) == g = [s \in SUBSET (1 .. k) |-> Value(g, s)]
<1>1. n \in Nat /\ DOMAIN seq = 1 .. n
  OBVIOUS
<1> HIDE DEF n
<1>2. \A k \in Nat : \E g : Iter(g, k)
  <2> DEFINE T == {k \in Nat : \E g : Iter(g, k)}
  <2>1. 0 \in T
    <3> DEFINE g == [s \in {{}} |-> base]
    <3>1. SUBSET (1 .. 0) = {{}}
      OBVIOUS
    <3>2. Iter(g, 0)
      BY <3>1
    <3> QED BY <3>2
  <2>2. ASSUME NEW k \in T PROVE k + 1 \in T
    <3>1. k \in Nat /\ \E g : Iter(g, k)
      OBVIOUS
    <3>2. PICK g : Iter(g, k)
      BY <3>1
    <3> DEFINE h == [s \in SUBSET (1 .. k + 1) |->
                       IF s \in SUBSET (1 .. k) THEN g[s]
                       ELSE op(context, g[s \ {Greatest(s)}], seq[Greatest(s)])]
    <3>3. ASSUME NEW s \in SUBSET (1 .. k + 1) PROVE h[s] = Value(h, s)
      <4>1. CASE s \in SUBSET (1 .. k)
        <5>1. h[s] = g[s] /\ g[s] = Value(g, s)
          BY <3>2, <4>1
        <5>2. s \ {Greatest(s)} \in SUBSET (1 .. k) /\ s \ {Greatest(s)} \in SUBSET (1 .. k + 1)
          BY <4>1
        <5>3. h[s \ {Greatest(s)}] = g[s \ {Greatest(s)}]
          BY <5>2
        <5> QED BY <5>1, <5>3
      <4>2. CASE s \notin SUBSET (1 .. k)
        <5>1. Greatest(s) = k + 1 /\ s # {} /\ s \ {Greatest(s)} \in SUBSET (1 .. k)
          BY <3>1, <4>2, MaxOfPositions
        <5>2. s \ {Greatest(s)} \in SUBSET (1 .. k + 1)
          OBVIOUS
        <5>3. h[s \ {Greatest(s)}] = g[s \ {Greatest(s)}]
          BY <5>1, <5>2
        <5> QED BY <4>2, <5>1, <5>3
      <4> QED BY <4>1, <4>2
    <3>4. Iter(h, k + 1)
      <4>1. h = [s \in SUBSET (1 .. k + 1) |-> h[s]]
        OBVIOUS
      <4> HIDE DEF h, Value
      <4>2. [s \in SUBSET (1 .. k + 1) |-> h[s]] = [s \in SUBSET (1 .. k + 1) |-> Value(h, s)]
        BY <3>3
      <4> QED BY <4>1, <4>2
    <3> HIDE DEF h, Iter
    <3>5. \E f : Iter(f, k + 1)
      BY <3>4
    <3>6. k + 1 \in Nat
      BY <3>1
    <3> QED BY <3>5, <3>6
  <2> HIDE DEF T
  <2>3. T \in SUBSET Nat
    BY DEF T
  <2>4. T = Nat
    BY <2>1, <2>2, <2>3, NatSetInduction
  <2> QED BY <2>4 DEF T
<1> DEFINE iter == CHOOSE g : Iter(g, n)
           F == [k \in 0 .. n |-> iter[1 .. k]]
<1>3. Iter(iter, n)
  BY <1>1, <1>2
<1>4. Folded(context, base, seq) = iter[1 .. n]
  BY <1>1 DEF Folded, MapThenFoldSet
<1> HIDE DEF iter
<1>5. F[0] = base
  <2>1. 1 .. 0 = {} /\ {} \in SUBSET (1 .. n)
    OBVIOUS
  <2> QED BY <1>1, <1>3, <2>1
<1>6. ASSUME NEW k \in 1 .. n PROVE F[k] = op(context, F[k - 1], seq[k])
  <2>1. k \in 0 .. n /\ k - 1 \in 0 .. n /\ k - 1 \in Nat /\ k \in Nat
    BY <1>1
  <2>2. 1 .. k \in SUBSET (1 .. n) /\ 1 .. k # {}
    BY <1>1
  <2>3. Greatest(1 .. k) = k
    <3>1. 1 .. k \in SUBSET (1 .. (k - 1) + 1) /\ (k - 1) + 1 \in 1 .. k /\ (k - 1) + 1 = k
      BY <2>1
    <3> QED BY <2>1, <3>1, MaxOfNaturals
  <2>4. (1 .. k) \ {k} = 1 .. k - 1
    BY <2>1
  <2>5. iter[1 .. k] = op(context, iter[1 .. k - 1], seq[k])
    BY <1>3, <2>2, <2>3, <2>4
  <2> QED BY <2>1, <2>5
<1>7. Folded(context, base, seq) = F[n]
  BY <1>1, <1>4
<1> HIDE DEF F
<1> QED BY <1>5, <1>6, <1>7 DEF n, Folding
=============================================================================
