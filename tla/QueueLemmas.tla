----------------------------- MODULE QueueLemmas -----------------------------
(***************************************************************************)
(* What the operations of a queue do to its elements: the push and the pop *)
(* of the commons library, and the removal from the middle of a list.      *)
(***************************************************************************)
EXTENDS Naturals, Sequences, SequencesExt, TLAPS, SequenceTheorems

-----------------------------------------------------------------------------
(* What RemoveAt returns: the sequence without its k-th element.           *)
LEMMA RemoveAtProperties ==
  ASSUME NEW S, NEW s \in Seq(S), NEW k \in 1 .. Len(s)
  PROVE  /\ RemoveAt(s, k) \in Seq(S)
         /\ Len(RemoveAt(s, k)) = Len(s) - 1
         /\ \A j \in 1 .. Len(s) - 1 :
              RemoveAt(s, k)[j] = IF j < k THEN s[j] ELSE s[j + 1]
<1> DEFINE front == SubSeq(s, 1, k - 1)
           back == SubSeq(s, k + 1, Len(s))
<1>1. Len(s) \in Nat /\ k \in Nat /\ \A j \in 1 .. Len(s) : s[j] \in S
  BY LenProperties, ElementOfSeq
<1>2. /\ front \in Seq(S) /\ Len(front) = k - 1
      /\ \A j \in 1 .. k - 1 : front[j] = s[j]
  <2>1. \A j \in 1 .. k - 1 : s[j] \in S
    BY <1>1
  <2> QED BY <1>1, <2>1, SubSeqProperties, SMTT(30)
<1>3. /\ back \in Seq(S) /\ Len(back) = Len(s) - k
      /\ \A j \in 1 .. Len(s) - k : back[j] = s[k + j]
  <2>1. \A j \in k + 1 .. Len(s) : s[j] \in S
    BY <1>1
  <2>2. /\ back \in Seq(S)
        /\ Len(back) = IF k + 1 <= Len(s) THEN Len(s) - (k + 1) + 1 ELSE 0
        /\ \A j \in 1 .. Len(s) - (k + 1) + 1 : back[j] = s[k + 1 + j - 1]
    BY <1>1, <2>1, SubSeqProperties, SMTT(30)
  <2> HIDE DEF back
  <2> QED BY <1>1, <2>2
<1>4. /\ front \o back \in Seq(S)
      /\ Len(front \o back) = Len(front) + Len(back)
      /\ \A j \in 1 .. Len(front) + Len(back) :
           (front \o back)[j] = IF j <= Len(front) THEN front[j] ELSE back[j - Len(front)]
  <2> HIDE DEF front, back
  <2> QED BY <1>2, <1>3, ConcatProperties
<1>5. RemoveAt(s, k) = front \o back
  BY DEF RemoveAt
<1> HIDE DEF front, back
<1>6. ASSUME NEW j \in 1 .. Len(s) - 1
      PROVE  (front \o back)[j] = IF j < k THEN s[j] ELSE s[j + 1]
  <2>1. CASE j < k
    BY <1>1, <1>2, <1>3, <1>4, <2>1
  <2>2. CASE ~(j < k)
    <3>1. (front \o back)[j] = back[j - (k - 1)]
      BY <1>1, <1>2, <1>3, <1>4, <2>2
    <3>2. j - (k - 1) \in 1 .. Len(s) - k /\ k + (j - (k - 1)) = j + 1
      BY <1>1, <2>2
    <3> QED BY <1>1, <1>3, <2>2, <3>1, <3>2
  <2> QED BY <2>1, <2>2
<1>7. Len(front \o back) = Len(s) - 1
  BY <1>1, <1>2, <1>3, <1>4
<1> QED BY <1>4, <1>5, <1>6, <1>7

(* The elements of a sequence with one more, and of one with its head gone.*)
LEMMA AppendHeadTail ==
  ASSUME NEW S, NEW s \in Seq(S)
  PROVE  /\ Len(s) \in Nat
         /\ \A k \in 1 .. Len(s) : s[k] \in S
         /\ \A e \in S : /\ Append(s, e) \in Seq(S)
                         /\ Len(Append(s, e)) = Len(s) + 1
                         /\ \A k \in 1 .. Len(s) + 1 :
                              Append(s, e)[k] = IF k <= Len(s) THEN s[k] ELSE e
         /\ s # <<>> => /\ Len(s) > 0
                        /\ Head(s) \in S /\ Head(s) = s[1]
                        /\ Tail(s) \in Seq(S)
                        /\ Len(Tail(s)) = Len(s) - 1
                        /\ \A k \in 1 .. Len(s) - 1 : Tail(s)[k] = s[k + 1]
<1>1. Len(s) \in Nat /\ \A k \in 1 .. Len(s) : s[k] \in S
  BY LenProperties, ElementOfSeq
<1>2. ASSUME NEW e \in S
      PROVE  /\ Append(s, e) \in Seq(S)
             /\ Len(Append(s, e)) = Len(s) + 1
             /\ \A k \in 1 .. Len(s) + 1 :
                  Append(s, e)[k] = IF k <= Len(s) THEN s[k] ELSE e
  BY <1>1, AppendProperties, SMTT(30)
<1>3. ASSUME s # <<>>
      PROVE  /\ Len(s) > 0
             /\ Head(s) \in S /\ Head(s) = s[1]
             /\ Tail(s) \in Seq(S)
             /\ Len(Tail(s)) = Len(s) - 1
             /\ \A k \in 1 .. Len(s) - 1 : Tail(s)[k] = s[k + 1]
  BY <1>1, <1>3, EmptySeq, HeadTailProperties, SMTT(30)
<1> QED BY <1>1, <1>2, <1>3

-----------------------------------------------------------------------------
(* Who is in a queue after an operation, for a queue that holds nobody     *)
(* twice: the one that was pushed came in, the one taken out is out.       *)
LEMMA AppendMembers ==
  ASSUME NEW S, NEW s \in Seq(S), NEW e \in S
  PROVE  /\ \A x : Contains(Append(s, e), x) <=> Contains(s, x) \/ x = e
         /\ IsInjective(s) /\ ~Contains(s, e) => IsInjective(Append(s, e))
<1> DEFINE t == Append(s, e)
<1>1. /\ Len(s) \in Nat /\ Len(t) = Len(s) + 1
      /\ t \in Seq(S)
      /\ \A k \in 1 .. Len(s) + 1 : t[k] = IF k <= Len(s) THEN s[k] ELSE e
  BY AppendHeadTail
<1>2. DOMAIN s = 1 .. Len(s) /\ DOMAIN t = 1 .. Len(t)
  BY <1>1, LenProperties
<1> HIDE DEF t
<1>3. ASSUME NEW x PROVE Contains(t, x) <=> Contains(s, x) \/ x = e
  <2>1. ASSUME Contains(t, x) PROVE Contains(s, x) \/ x = e
    BY <1>1, <2>1 DEF Contains
  <2>2. ASSUME NEW k \in 1 .. Len(s), s[k] = x PROVE Contains(t, x)
    <3>1. k \in 1 .. Len(t) /\ t[k] = x
      BY <1>1, <2>2
    <3> QED BY <3>1 DEF Contains
  <2>3. ASSUME x = e PROVE Contains(t, x)
    <3>1. Len(s) + 1 \in 1 .. Len(t) /\ t[Len(s) + 1] = x
      BY <1>1, <2>3
    <3> QED BY <3>1 DEF Contains
  <2> QED BY <2>1, <2>2, <2>3 DEF Contains
<1>4. ASSUME IsInjective(s), ~Contains(s, e),
             NEW k \in 1 .. Len(t), NEW l \in 1 .. Len(t), t[k] = t[l]
      PROVE  k = l
  <2>1. CASE k <= Len(s) /\ l <= Len(s)
    BY <1>1, <1>2, <1>4, <2>1 DEF IsInjective
  <2>2. CASE k = Len(s) + 1 \/ l = Len(s) + 1
    BY <1>1, <1>4, <2>2 DEF Contains
  <2> QED BY <1>1, <2>1, <2>2
<1>5. IsInjective(s) /\ ~Contains(s, e) => IsInjective(t)
  BY <1>2, <1>4 DEF IsInjective
<1> QED BY <1>3, <1>5 DEF t

LEMMA RemoveMembers ==
  ASSUME NEW S, NEW s \in Seq(S), NEW k \in 1 .. Len(s), IsInjective(s)
  PROVE  /\ \A x : Contains(RemoveAt(s, k), x) <=> Contains(s, x) /\ x # s[k]
         /\ IsInjective(RemoveAt(s, k))
<1> DEFINE t == RemoveAt(s, k)
<1>1. /\ Len(s) \in Nat /\ Len(t) = Len(s) - 1
      /\ t \in Seq(S)
      /\ \A j \in 1 .. Len(s) - 1 : t[j] = IF j < k THEN s[j] ELSE s[j + 1]
  BY RemoveAtProperties, LenProperties
<1>2. DOMAIN s = 1 .. Len(s) /\ DOMAIN t = 1 .. Len(t)
  BY <1>1, LenProperties
<1> HIDE DEF t
<1>3. \A j, l \in 1 .. Len(s) : s[j] = s[l] => j = l
  BY <1>2 DEF IsInjective
<1>4. ASSUME NEW j \in 1 .. Len(t)
      PROVE  \E l \in 1 .. Len(s) : l # k /\ t[j] = s[l] /\ l = IF j < k THEN j ELSE j + 1
  <2>1. CASE j < k
    BY <1>1, <2>1
  <2>2. CASE ~(j < k)
    <3>1. j + 1 \in 1 .. Len(s) /\ j + 1 # k /\ t[j] = s[j + 1]
      BY <1>1, <2>2
    <3> QED BY <2>2, <3>1
  <2> QED BY <2>1, <2>2
<1>5. ASSUME NEW l \in 1 .. Len(s), l # k
      PROVE  \E j \in 1 .. Len(t) : t[j] = s[l]
  <2>1. CASE l < k
    BY <1>1, <2>1
  <2>2. CASE ~(l < k)
    <3>1. l - 1 \in 1 .. Len(t) /\ ~(l - 1 < k) /\ l - 1 + 1 = l
      BY <1>1, <1>5, <2>2
    <3>2. t[l - 1] = s[l]
      BY <1>1, <3>1
    <3> QED BY <3>1, <3>2
  <2> QED BY <2>1, <2>2
<1>6. ASSUME NEW x PROVE Contains(t, x) <=> Contains(s, x) /\ x # s[k]
  <2>1. ASSUME NEW j \in 1 .. Len(t), t[j] = x PROVE Contains(s, x) /\ x # s[k]
    <3>1. PICK l \in 1 .. Len(s) : l # k /\ t[j] = s[l]
      BY <1>4
    <3>2. s[l] # s[k]
      BY <1>3, <3>1
    <3> QED BY <2>1, <3>1, <3>2 DEF Contains
  <2>2. ASSUME NEW l \in 1 .. Len(s), s[l] = x, x # s[k] PROVE Contains(t, x)
    BY <1>5, <2>2 DEF Contains
  <2> QED BY <2>1, <2>2 DEF Contains
<1>7. ASSUME NEW i \in 1 .. Len(t), NEW j \in 1 .. Len(t), t[i] = t[j]
      PROVE  i = j
  <2>1. PICK l \in 1 .. Len(s) : t[i] = s[l] /\ l = IF i < k THEN i ELSE i + 1
    BY <1>4
  <2>2. PICK m \in 1 .. Len(s) : t[j] = s[m] /\ m = IF j < k THEN j ELSE j + 1
    BY <1>4
  <2>3. l = m
    BY <1>3, <1>7, <2>1, <2>2
  <2> QED BY <1>1, <2>1, <2>2, <2>3
<1>8. IsInjective(t)
  BY <1>2, <1>7 DEF IsInjective
<1> QED BY <1>6, <1>8 DEF t

LEMMA TailMembers ==
  ASSUME NEW S, NEW s \in Seq(S), s # <<>>, IsInjective(s)
  PROVE  /\ \A x : Contains(Tail(s), x) <=> Contains(s, x) /\ x # Head(s)
         /\ IsInjective(Tail(s))
<1> DEFINE t == Tail(s)
<1>1. /\ Len(s) \in Nat /\ Len(s) > 0 /\ Len(t) = Len(s) - 1 /\ Head(s) = s[1]
      /\ \A j \in 1 .. Len(s) - 1 : t[j] = s[j + 1]
  BY AppendHeadTail
<1>2. \A j, l \in 1 .. Len(s) : s[j] = s[l] => j = l
  BY LenProperties DEF IsInjective
<1> HIDE DEF t
<1>3. ASSUME NEW x, NEW j \in 1 .. Len(t), t[j] = x
      PROVE  Contains(s, x) /\ x # Head(s)
  <2>1. j + 1 \in 1 .. Len(s) /\ 1 \in 1 .. Len(s) /\ j + 1 # 1 /\ s[j + 1] = x
    BY <1>1, <1>3
  <2> QED BY <1>1, <1>2, <2>1 DEF Contains
<1>4. ASSUME NEW x, NEW j \in 1 .. Len(s), s[j] = x, x # Head(s)
      PROVE  Contains(t, x)
  <2>1. j - 1 \in 1 .. Len(t) /\ j - 1 + 1 = j
    BY <1>1, <1>4
  <2>2. t[j - 1] = x
    BY <1>1, <1>4, <2>1
  <2> QED BY <2>1, <2>2 DEF Contains
<1>5. IsInjective(t)
  <2>1. DOMAIN t = 1 .. Len(t)
    BY <1>1, AppendHeadTail, LenProperties DEF t
  <2>2. \A j \in 1 .. Len(t) : j + 1 \in 1 .. Len(s)
    BY <1>1
  <2>3. \A j, k \in 1 .. Len(t) : t[j] = t[k] => j + 1 = k + 1
    BY <1>1, <1>2, <2>2
  <2>4. \A j, k \in 1 .. Len(t) : j + 1 = k + 1 => j = k
    BY <1>1
  <2> QED BY <2>1, <2>3, <2>4 DEF IsInjective
<1> QED BY <1>3, <1>4, <1>5 DEF Contains, t

(* Who is in a queue is one of those the queue is of.                      *)
LEMMA MembersOf ==
  ASSUME NEW S, NEW s \in Seq(S)
  PROVE  /\ \A x : Contains(s, x) => x \in S
         /\ s # <<>> => Contains(s, Head(s)) /\ Head(s) \in S
<1>1. \A k \in 1 .. Len(s) : s[k] \in S
  BY ElementOfSeq
<1>2. s # <<>> => Head(s) = s[1] /\ 1 \in 1 .. Len(s) /\ Head(s) \in S
  BY AppendHeadTail
<1> QED BY <1>1, <1>2 DEF Contains

(* Two queues one after the other.                                         *)
LEMMA ConcatMembers ==
  ASSUME NEW S, NEW s \in Seq(S), NEW t \in Seq(S)
  PROVE  /\ s \o t \in Seq(S) /\ Len(s \o t) = Len(s) + Len(t)
         /\ \A x : Contains(s \o t, x) <=> Contains(s, x) \/ Contains(t, x)
         /\ IsInjective(s) /\ IsInjective(t) /\ (\A x : ~(Contains(s, x) /\ Contains(t, x))) =>
              IsInjective(s \o t)
<1> DEFINE c == s \o t
           m == Len(s)
           n == Len(t)
<1>1. /\ m \in Nat /\ n \in Nat /\ c \in Seq(S) /\ Len(c) = m + n
      /\ \A k \in 1 .. m + n : c[k] = IF k <= m THEN s[k] ELSE t[k - m]
  BY ConcatProperties, LenProperties
<1> HIDE DEF c
<1>2. DOMAIN c = 1 .. m + n /\ DOMAIN s = 1 .. m /\ DOMAIN t = 1 .. n
  BY <1>1, LenProperties
<1> HIDE DEF m, n
<1>3. \A k \in 1 .. m : k \in 1 .. m + n /\ c[k] = s[k]
  BY <1>1
<1>4. \A k \in 1 .. n : m + k \in 1 .. m + n /\ c[m + k] = t[k]
  BY <1>1
<1>5. \A k \in 1 .. m + n :
        \/ k \in 1 .. m /\ c[k] = s[k]
        \/ k - m \in 1 .. n /\ c[k] = t[k - m]
  <2> SUFFICES ASSUME NEW k \in 1 .. m + n
               PROVE  \/ k \in 1 .. m /\ c[k] = s[k]
                      \/ k - m \in 1 .. n /\ c[k] = t[k - m]
    OBVIOUS
  <2>1. CASE k <= m
    BY <1>1, <1>3, <2>1
  <2>2. CASE k > m
    <3>1. k - m \in 1 .. n /\ m + (k - m) = k
      BY <1>1, <2>2
    <3> QED BY <1>4, <3>1
  <2> QED BY <1>1, <2>1, <2>2
<1>6. \A x : Contains(c, x) <=> Contains(s, x) \/ Contains(t, x)
  <2>1. Len(s) = m /\ Len(t) = n
    BY DEF m, n
  <2> SUFFICES ASSUME NEW x PROVE (\E k \in 1 .. m + n : c[k] = x) <=>
                     (\E k \in 1 .. m : s[k] = x) \/ (\E k \in 1 .. n : t[k] = x)
    BY <1>1, <2>1 DEF Contains
  <2> QED BY <1>3, <1>4, <1>5
<1>7. ASSUME IsInjective(s), IsInjective(t), \A x : ~(Contains(s, x) /\ Contains(t, x))
      PROVE  IsInjective(c)
  <2>1. /\ \A j, k \in 1 .. m : s[j] = s[k] => j = k
        /\ \A j, k \in 1 .. n : t[j] = t[k] => j = k
    BY <1>2, <1>7 DEF IsInjective
  <2>2. \A j \in 1 .. m, k \in 1 .. n : s[j] # t[k]
    BY <1>7 DEF Contains, m, n
  <2>3. ASSUME NEW j \in 1 .. m + n, NEW k \in 1 .. m + n, c[j] = c[k] PROVE j = k
    <3>1. CASE j \in 1 .. m /\ c[j] = s[j]
      <4>1. CASE k \in 1 .. m /\ c[k] = s[k]
        BY <2>1, <2>3, <3>1, <4>1
      <4>2. CASE k - m \in 1 .. n /\ c[k] = t[k - m]
        BY <2>2, <2>3, <3>1, <4>2
      <4> QED BY <1>5, <4>1, <4>2
    <3>2. CASE j - m \in 1 .. n /\ c[j] = t[j - m]
      <4>1. CASE k \in 1 .. m /\ c[k] = s[k]
        BY <2>2, <2>3, <3>2, <4>1
      <4>2. CASE k - m \in 1 .. n /\ c[k] = t[k - m]
        <5>1. j - m = k - m
          BY <2>1, <2>3, <3>2, <4>2
        <5> QED BY <1>1, <5>1
      <4> QED BY <1>5, <4>1, <4>2
    <3> QED BY <1>5, <3>1, <3>2
  <2> QED BY <1>2, <2>3 DEF IsInjective
<1> QED BY <1>1, <1>6, <1>7 DEF c, m, n

-----------------------------------------------------------------------------
(* Sequences: what they hold.                                              *)

(* A sequence is one of what it holds.                                     *)
LEMMA HeldBy ==
  ASSUME NEW S, NEW s \in Seq(S)
  PROVE  /\ s \in Seq(ToSet(s)) /\ ToSet(s) \subseteq S
         /\ \A x : x \in ToSet(s) <=> \E k \in 1 .. Len(s) : s[k] = x
         /\ s # <<>> => Head(s) \in ToSet(s)
<1>1. DOMAIN s = 1 .. Len(s) /\ Len(s) \in Nat /\ s = [k \in 1 .. Len(s) |-> s[k]]
  BY LenProperties
<1>2. \A x : x \in ToSet(s) <=> \E k \in 1 .. Len(s) : s[k] = x
  BY <1>1 DEF ToSet
<1>3. \A k \in 1 .. Len(s) : s[k] \in S /\ s[k] \in ToSet(s)
  BY <1>2
<1>4. ToSet(s) \subseteq S
  BY <1>2, <1>3
<1>5. s # <<>> => Head(s) = s[1] /\ 1 \in 1 .. Len(s)
  BY AppendHeadTail
<1>6. s \in Seq(ToSet(s))
  <2> DEFINE n == Len(s)
  <2>1. n \in Nat /\ s = [k \in 1 .. n |-> s[k]] /\ \A k \in 1 .. n : s[k] \in ToSet(s)
    BY <1>1, <1>3
  <2> HIDE DEF n
  <2> QED BY <2>1, IsASeq
<1> QED BY <1>2, <1>3, <1>4, <1>5, <1>6

(* One more.                                                               *)
LEMMA HeldAfterAppend ==
  ASSUME NEW S, NEW s \in Seq(S), NEW e
  PROVE  /\ Append(s, e) \in Seq(ToSet(Append(s, e)))
         /\ ToSet(Append(s, e)) = ToSet(s) \cup {e}
         /\ IsInjective(s) /\ e \notin ToSet(s) => IsInjective(Append(s, e))
<1> DEFINE T == S \cup {e}
           t == Append(s, e)
<1>1. s \in Seq(T) /\ e \in T
  BY SeqMonotonic
<1> HIDE DEF T
<1>2. t \in Seq(T)
  BY <1>1
<1>3. \A x : Contains(t, x) <=> Contains(s, x) \/ x = e
  BY <1>1, AppendMembers
<1>4. IsInjective(s) /\ ~Contains(s, e) => IsInjective(t)
  BY <1>1, AppendMembers
<1>5. \A x : (x \in ToSet(s) <=> Contains(s, x)) /\ (x \in ToSet(t) <=> Contains(t, x))
  BY <1>1, <1>2, HeldBy DEF Contains
<1>6. t \in Seq(ToSet(t))
  BY <1>2, HeldBy
<1> QED BY <1>3, <1>4, <1>5, <1>6

(* One less.                                                               *)
LEMMA HeldAfterTail ==
  ASSUME NEW S, NEW s \in Seq(S), s # <<>>, IsInjective(s)
  PROVE  /\ Tail(s) \in Seq(S) /\ Tail(s) \in Seq(ToSet(Tail(s)))
         /\ ToSet(Tail(s)) = ToSet(s) \ {Head(s)}
         /\ Head(s) \in ToSet(s) /\ Head(s) \in S
         /\ IsInjective(Tail(s))
<1> DEFINE t == Tail(s)
<1>1. /\ t \in Seq(S) /\ Len(t) = Len(s) - 1 /\ Len(s) \in Nat /\ Len(s) > 0
      /\ \A j \in 1 .. Len(s) - 1 : t[j] = s[j + 1]
  BY AppendHeadTail
<1>2. \A x : Contains(t, x) <=> Contains(s, x) /\ x # Head(s)
  BY TailMembers
<1>3. \A x : (x \in ToSet(s) <=> Contains(s, x)) /\ (x \in ToSet(t) <=> Contains(t, x))
  BY <1>1, HeldBy DEF Contains
<1>4. t \in Seq(ToSet(t))
  BY <1>1, HeldBy
<1>5. Head(s) \in ToSet(s) /\ ToSet(s) \subseteq S
  BY HeldBy
<1>6. IsInjective(t)
  BY TailMembers
<1> HIDE DEF t
<1> QED BY <1>1, <1>2, <1>3, <1>4, <1>5, <1>6 DEF t
=============================================================================
