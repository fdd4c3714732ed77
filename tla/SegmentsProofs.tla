---------------------------- MODULE SegmentsProofs --------------------------
(***************************************************************************)
(* Theorems about the segments in their three places, for any processes,   *)
(* ids, sizes, accesses, capacity and manners of using ids: the CPU and    *)
(* memory agree on what a careful process may access, and nothing that     *)
(* memory has is lost from the tables of the kernel.                       *)
(***************************************************************************)
EXTENDS SegmentsInvariant, QueueLemmas, TLAPS, SequenceTheorems

-----------------------------------------------------------------------------
(* Subsequences.                                                           *)

(* A sequence is a subsequence of itself.                                  *)
LEMMA SubsequenceOfItself ==
  ASSUME NEW S, NEW s \in Seq(S)
  PROVE  IsSubsequence(s, s)
<1> DEFINE map == [k \in DOMAIN s |-> k]
<1>1. map \in [DOMAIN s -> DOMAIN s] /\ \A k \in DOMAIN s : map[k] = k
  OBVIOUS
<1> HIDE DEF map
<1> QED BY <1>1 DEF IsSubsequence

(* The same element at the end of both.                                    *)
LEMMA SubsequenceAppend ==
  ASSUME NEW S, NEW s \in Seq(S), NEW t \in Seq(S), NEW e \in S, IsSubsequence(s, t)
  PROVE  IsSubsequence(Append(s, e), Append(t, e))
<1> DEFINE ss == Append(s, e)
           tt == Append(t, e)
           m == Len(s)
           n == Len(t)
<1>1. /\ m \in Nat /\ Len(ss) = m + 1 /\ ss \in Seq(S)
      /\ \A k \in 1 .. m + 1 : ss[k] = IF k <= m THEN s[k] ELSE e
  BY AppendHeadTail
<1>2. /\ n \in Nat /\ Len(tt) = n + 1 /\ tt \in Seq(S)
      /\ \A k \in 1 .. n + 1 : tt[k] = IF k <= n THEN t[k] ELSE e
  BY AppendHeadTail
<1>3. /\ DOMAIN s = 1 .. m /\ DOMAIN t = 1 .. n
      /\ DOMAIN ss = 1 .. m + 1 /\ DOMAIN tt = 1 .. n + 1
  BY <1>1, <1>2, LenProperties
<1>4. PICK map \in [1 .. m -> 1 .. n] :
        /\ \A j, k \in 1 .. m : j < k => map[j] < map[k]
        /\ \A j \in 1 .. m : s[j] = t[map[j]]
  BY <1>3 DEF IsSubsequence
<1> HIDE DEF ss, tt, m, n
<1> DEFINE more == [k \in 1 .. m + 1 |-> IF k <= m THEN map[k] ELSE n + 1]
<1>5. \A k \in 1 .. m + 1 : k <= m => k \in 1 .. m /\ map[k] \in 1 .. n
  BY <1>1
<1>6. \A k \in 1 .. m + 1 : more[k] = IF k <= m THEN map[k] ELSE n + 1
  OBVIOUS
<1>7. more \in [1 .. m + 1 -> 1 .. n + 1]
  BY <1>2, <1>5
<1> HIDE DEF more
<1>8. ASSUME NEW j \in 1 .. m + 1, NEW k \in 1 .. m + 1, j < k
      PROVE  more[j] < more[k]
  <2>1. j <= m /\ j \in 1 .. m
    BY <1>1, <1>8
  <2>2. CASE k <= m
    BY <1>4, <1>5, <1>6, <1>8, <2>1, <2>2
  <2>3. CASE ~(k <= m)
    <3>1. more[j] = map[j] /\ map[j] \in 1 .. n /\ more[k] = n + 1
      BY <1>5, <1>6, <2>1, <2>3
    <3> QED BY <1>2, <3>1
  <2> QED BY <2>2, <2>3
<1>9. ASSUME NEW j \in 1 .. m + 1
      PROVE  ss[j] = tt[more[j]]
  <2>1. CASE j <= m
    <3>1. map[j] \in 1 .. n /\ more[j] = map[j] /\ ss[j] = s[j] /\ s[j] = t[map[j]]
      BY <1>1, <1>4, <1>5, <1>6, <2>1
    <3>2. map[j] \in 1 .. n + 1 /\ map[j] <= n
      BY <1>2, <3>1
    <3> QED BY <1>2, <3>1, <3>2
  <2>2. CASE ~(j <= m)
    <3>1. more[j] = n + 1 /\ ss[j] = e /\ n + 1 \in 1 .. n + 1 /\ ~(n + 1 <= n)
      BY <1>1, <1>2, <1>6, <2>2
    <3> QED BY <1>2, <3>1
  <2> QED BY <2>1, <2>2
<1>10. IsSubsequence(ss, tt)
  BY <1>3, <1>7, <1>8, <1>9 DEF IsSubsequence
<1> QED BY <1>10 DEF ss, tt

(* One element less on the left.                                           *)
LEMMA SubsequenceRemove ==
  ASSUME NEW S, NEW s \in Seq(S), NEW t \in Seq(S), NEW k \in 1 .. Len(s),
         IsSubsequence(s, t)
  PROVE  IsSubsequence(RemoveAt(s, k), t)
<1> DEFINE ss == RemoveAt(s, k)
           m == Len(s)
           n == Len(t)
<1>1. /\ m \in Nat /\ Len(ss) = m - 1 /\ ss \in Seq(S)
      /\ \A j \in 1 .. m - 1 : ss[j] = IF j < k THEN s[j] ELSE s[j + 1]
  BY RemoveAtProperties, LenProperties
<1>2. DOMAIN s = 1 .. m /\ DOMAIN t = 1 .. n /\ DOMAIN ss = 1 .. m - 1
  BY <1>1, LenProperties
<1>3. PICK map \in [1 .. m -> 1 .. n] :
        /\ \A i, j \in 1 .. m : i < j => map[i] < map[j]
        /\ \A j \in 1 .. m : s[j] = t[map[j]]
  BY <1>2 DEF IsSubsequence
<1>4. k \in 1 .. m /\ n \in Nat
  BY LenProperties
<1> HIDE DEF ss, m, n
<1> DEFINE skip(j) == IF j < k THEN j ELSE j + 1
           less == [j \in 1 .. m - 1 |-> map[skip(j)]]
<1>5. \A j \in 1 .. m - 1 : skip(j) \in 1 .. m
  BY <1>1, <1>4
<1>6. \A i, j \in 1 .. m - 1 : i < j => skip(i) < skip(j)
  BY <1>1, <1>4
<1>7. \A j \in 1 .. m - 1 : ss[j] = s[skip(j)]
  BY <1>1
<1> HIDE DEF skip
<1>8. less \in [1 .. m - 1 -> 1 .. n] /\ \A j \in 1 .. m - 1 : less[j] = map[skip(j)]
  BY <1>5
<1> HIDE DEF less
<1>9. \A i, j \in 1 .. m - 1 : i < j => less[i] < less[j]
  BY <1>3, <1>5, <1>6, <1>8
<1>10. \A j \in 1 .. m - 1 : ss[j] = t[less[j]]
  BY <1>3, <1>5, <1>7, <1>8
<1>11. IsSubsequence(ss, t)
  BY <1>2, <1>8, <1>9, <1>10 DEF IsSubsequence
<1> QED BY <1>11 DEF ss

(* What is in the left one is in the right one, once if it is there once.  *)
LEMMA SubsequenceIds ==
  ASSUME NEW S, NEW s \in Seq(S), NEW t \in Seq(S), IsSubsequence(s, t)
  PROVE  /\ \A j \in 1 .. Len(s) : \E i \in 1 .. Len(t) : t[i] = s[j]
         /\ IdsOnce(t) => IdsOnce(s)
<1>1. Len(s) \in Nat /\ Len(t) \in Nat /\ DOMAIN s = 1 .. Len(s) /\ DOMAIN t = 1 .. Len(t)
  BY LenProperties
<1>2. PICK map \in [1 .. Len(s) -> 1 .. Len(t)] :
        /\ \A j, k \in 1 .. Len(s) : j < k => map[j] < map[k]
        /\ \A j \in 1 .. Len(s) : s[j] = t[map[j]]
  BY <1>1 DEF IsSubsequence
<1>3. ASSUME NEW j \in 1 .. Len(s) PROVE \E i \in 1 .. Len(t) : t[i] = s[j]
  BY <1>2
<1>4. ASSUME IdsOnce(t), NEW j \in 1 .. Len(s), NEW k \in 1 .. Len(s),
             s[j].s_id = s[k].s_id
      PROVE  j = k
  <2>1. map[j] \in 1 .. Len(t) /\ map[k] \in 1 .. Len(t) /\ t[map[j]].s_id = t[map[k]].s_id
    BY <1>2, <1>4
  <2>2. map[j] = map[k]
    BY <1>4, <2>1 DEF IdsOnce
  <2>3. j \in Nat /\ k \in Nat /\ map[j] \in Nat /\ map[k] \in Nat
    BY <1>1, <2>1
  <2>4. ~(j < k) /\ ~(k < j)
    BY <1>2, <2>2, <2>3
  <2> QED BY <2>3, <2>4
<1>5. IdsOnce(t) => IdsOnce(s)
  BY <1>4 DEF IdsOnce
<1> QED BY <1>3, <1>5

(* Of a table that has each id once, BySid is the segment with that id.    *)
LEMMA TheSegment ==
  ASSUME NEW S, NEW s \in Seq(S), IdsOnce(s), NEW k \in 1 .. Len(s)
  PROVE  BySid(s, s[k].s_id) = s[k]
<1> DEFINE I == {i \in 1 .. Len(s) : s[i].s_id = s[k].s_id}
<1>1. I = {k}
  BY DEF IdsOnce
<1>2. Min({k}) = k
  BY LenProperties DEF Min
<1>3. SelectInSeq(s, LAMBDA sg : sg.s_id = s[k].s_id) = IF I # {} THEN Min(I) ELSE 0
  BY DEF SelectInSeq
<1> HIDE DEF I
<1>4. SelectInSeq(s, LAMBDA sg : sg.s_id = s[k].s_id) = k
  BY <1>1, <1>2, <1>3
<1> QED BY <1>4 DEF BySid

(* The CPU's copy and memory agree on a segment that memory has.           *)
LEMMA SameSegment ==
  ASSUME NEW S, NEW s \in Seq(S), NEW t \in Seq(S), IsSubsequence(s, t), IdsOnce(t),
         NEW id, HasId(s, id)
  PROVE  HasId(t, id) /\ BySid(s, id) = BySid(t, id)
<1>1. PICK j \in 1 .. Len(s) : s[j].s_id = id
  BY LenProperties DEF HasId
<1>2. PICK i \in 1 .. Len(t) : t[i] = s[j]
  BY SubsequenceIds
<1>3. IdsOnce(s)
  BY SubsequenceIds
<1>4. BySid(s, id) = s[j]
  BY <1>1, <1>3, TheSegment
<1>5. BySid(t, id) = t[i]
  BY <1>1, <1>2, TheSegment
<1>6. HasId(t, id)
  BY <1>1, <1>2, LenProperties DEF HasId
<1> QED BY <1>2, <1>4, <1>5, <1>6

(* One segment more, with a new id.                                        *)
LEMMA IdsOnceAppend ==
  ASSUME NEW S, NEW s \in Seq(S), NEW e \in S, IdsOnce(s), ~HasId(s, e.s_id)
  PROVE  IdsOnce(Append(s, e))
<1> DEFINE t == Append(s, e)
<1>1. /\ Len(s) \in Nat /\ Len(t) = Len(s) + 1 /\ t \in Seq(S)
      /\ \A k \in 1 .. Len(s) + 1 : t[k] = IF k <= Len(s) THEN s[k] ELSE e
  BY AppendHeadTail
<1>2. \A k \in 1 .. Len(s) : s[k].s_id # e.s_id
  BY LenProperties DEF HasId
<1> HIDE DEF t
<1>3. ASSUME NEW j \in 1 .. Len(t), NEW k \in 1 .. Len(t), t[j].s_id = t[k].s_id
      PROVE  j = k
  <2>1. CASE j <= Len(s) /\ k <= Len(s)
    <3>1. j \in 1 .. Len(s) /\ k \in 1 .. Len(s) /\ t[j] = s[j] /\ t[k] = s[k]
      BY <1>1, <2>1
    <3> QED BY <1>3, <3>1 DEF IdsOnce
  <2>2. CASE j <= Len(s) /\ ~(k <= Len(s))
    BY <1>1, <1>2, <1>3, <2>2
  <2>3. CASE ~(j <= Len(s)) /\ k <= Len(s)
    BY <1>1, <1>2, <1>3, <2>3
  <2>4. CASE ~(j <= Len(s)) /\ ~(k <= Len(s))
    BY <1>1, <2>4
  <2> QED BY <2>1, <2>2, <2>3, <2>4
<1>4. IdsOnce(t)
  BY <1>3 DEF IdsOnce
<1> QED BY <1>4 DEF t

-----------------------------------------------------------------------------
(* The table of memory is that of SegmentStore after the segment 0.        *)
LEMMA WithZeroAppend ==
  ASSUME NEW S, NEW z \in S, NEW x \in Seq(S), NEW e \in S
  PROVE  <<z>> \o Append(x, e) = Append(<<z>> \o x, e)
<1>1. <<e>> \in Seq(S) /\ <<z>> \in Seq(S)
  OBVIOUS
<1>2. <<z>> \o x \in Seq(S)
  BY <1>1, ConcatProperties
<1>3. Append(x, e) = x \o <<e>> /\ Append(<<z>> \o x, e) = (<<z>> \o x) \o <<e>>
  BY <1>2, AppendIsConcat
<1>4. <<z>> \o (x \o <<e>>) = (<<z>> \o x) \o <<e>>
  BY <1>1, ConcatAssociative
<1> QED BY <1>3, <1>4

(* The table with the segment 0 in front, element by element.              *)
LEMMA WithZero ==
  ASSUME NEW S, NEW z \in S, NEW x \in Seq(S)
  PROVE  /\ <<z>> \o x \in Seq(S) /\ Len(<<z>> \o x) = 1 + Len(x)
         /\ \A i \in 1 .. 1 + Len(x) : (<<z>> \o x)[i] = IF i = 1 THEN z ELSE x[i - 1]
         /\ x = <<>> => <<z>> \o x = <<z>>
<1>1. <<z>> \in Seq(S) /\ Len(<<z>>) = 1 /\ <<z>>[1] = z
  OBVIOUS
<1>2. /\ <<z>> \o x \in Seq(S) /\ Len(x) \in Nat /\ Len(<<z>> \o x) = 1 + Len(x)
      /\ \A i \in 1 .. 1 + Len(x) : (<<z>> \o x)[i] = IF i <= 1 THEN <<z>>[i] ELSE x[i - 1]
  BY <1>1, ConcatProperties, LenProperties
<1>3. x = <<>> => <<z>> \o x = <<z>>
  BY <1>1, ConcatEmptySeq
<1> QED BY <1>1, <1>2, <1>3

(* A segment removed from the table is removed one place further on.       *)
LEMMA WithZeroRemove ==
  ASSUME NEW S, NEW z \in S, NEW x \in Seq(S), NEW k \in 1 .. Len(x)
  PROVE  /\ k + 1 \in 1 .. Len(<<z>> \o x)
         /\ <<z>> \o RemoveAt(x, k) = RemoveAt(<<z>> \o x, k + 1)
<1> DEFINE zx == <<z>> \o x
           y == RemoveAt(x, k)
           l == <<z>> \o y
           r == RemoveAt(zx, k + 1)
           n == Len(x)
<1>1. <<z>> \in Seq(S) /\ Len(<<z>>) = 1 /\ <<z>>[1] = z
  OBVIOUS
<1>2. /\ zx \in Seq(S) /\ Len(x) \in Nat /\ Len(zx) = 1 + Len(x)
       /\ \A i \in 1 .. 1 + Len(x) : zx[i] = IF i <= 1 THEN <<z>>[i] ELSE x[i - 1]
  BY <1>1, ConcatProperties, LenProperties
<1>3. k + 1 \in 1 .. Len(zx) /\ k \in Nat
  BY <1>2
<1>4. /\ y \in Seq(S) /\ Len(y) = n - 1
      /\ \A j \in 1 .. n - 1 : y[j] = IF j < k THEN x[j] ELSE x[j + 1]
  BY RemoveAtProperties
<1>5. /\ r \in Seq(S) /\ Len(r) = Len(zx) - 1
      /\ \A j \in 1 .. Len(zx) - 1 : r[j] = IF j < k + 1 THEN zx[j] ELSE zx[j + 1]
  BY <1>2, <1>3, RemoveAtProperties
<1> HIDE DEF y
<1>6. /\ l \in Seq(S) /\ Len(l) = 1 + Len(y)
      /\ \A i \in 1 .. 1 + Len(y) : l[i] = IF i <= 1 THEN <<z>>[i] ELSE y[i - 1]
  BY <1>1, <1>4, ConcatProperties
<1>7. n \in Nat /\ n >= 1
  BY <1>2
<1> HIDE DEF l, r, n, zx
<1>8. Len(l) = n /\ Len(r) = n /\ Len(zx) = n + 1
  BY <1>2, <1>4, <1>5, <1>6, <1>7 DEF n
<1>9. ASSUME NEW i \in 1 .. n PROVE l[i] = r[i]
  <2>1. CASE i = 1
    <3>1. l[1] = <<z>>[1]
      BY <1>6, <1>4, <1>7
    <3>2. r[1] = zx[1]
      BY <1>5, <1>7, <1>8
    <3>3. zx[1] = <<z>>[1]
      BY <1>2
    <3> QED BY <2>1, <3>1, <3>2, <3>3
  <2>2. CASE i # 1 /\ i < k + 1
    <3>1. i - 1 \in 1 .. n - 1 /\ i - 1 < k /\ ~(i <= 1) /\ i \in 1 .. n + 1
      BY <1>7, <2>2
    <3>2. l[i] = y[i - 1] /\ y[i - 1] = x[i - 1]
      BY <1>4, <1>6, <1>7, <3>1
    <3>3. r[i] = zx[i]
      BY <1>5, <1>8, <1>7, <2>2
    <3>4. zx[i] = x[i - 1]
      BY <1>2, <3>1 DEF n
    <3> QED BY <3>2, <3>3, <3>4
  <2>3. CASE i # 1 /\ ~(i < k + 1)
    <3>1. i - 1 \in 1 .. n - 1 /\ ~(i - 1 < k) /\ ~(i <= 1) /\ i + 1 \in 1 .. n + 1
          /\ ~(i + 1 <= 1) /\ i - 1 + 1 = i /\ i + 1 - 1 = i
      BY <1>3, <1>7, <2>3
    <3>2. l[i] = y[i - 1] /\ y[i - 1] = x[i]
      BY <1>4, <1>6, <1>7, <3>1
    <3>3. r[i] = zx[i + 1]
      BY <1>5, <1>8, <1>7, <2>3
    <3>4. zx[i + 1] = x[i]
      BY <1>2, <3>1 DEF n
    <3> QED BY <3>2, <3>3, <3>4
  <2> QED BY <2>1, <2>2, <2>3
<1>10. l = r
  BY <1>5, <1>6, <1>8, <1>9, SeqEqual
<1> QED BY <1>3, <1>10 DEF l, r, y, zx

-----------------------------------------------------------------------------
(* What a thread does on the socket.                                       *)
LEMMA AskStep ==
  ASSUME asked \in Seq(Messages), IsInjective(asked), NEW r \in Messages,
         r \notin ToSet(asked), asked' = Append(asked, r)
  PROVE  /\ asked' \in Seq(Messages) /\ IsInjective(asked')
         /\ ToSet(asked') = ToSet(asked) \cup {r}
BY HeldAfterAppend, AppendHeadTail

(* A thread takes the first answer.                                        *)
LEMMA ReceiveStep ==
  ASSUME answers \in Seq(ToSet(answers)), IsInjective(answers), NEW a, Receive(a)
  PROVE  /\ answers' \in Seq(ToSet(answers')) /\ IsInjective(answers')
         /\ ToSet(answers') = ToSet(answers) \ {a} /\ a \in ToSet(answers)
BY HeldAfterTail DEF Receive

(* Memory takes the first request and answers.                             *)
LEMMA ReplyStep ==
  ASSUME asked \in Seq(Messages), IsInjective(asked), asked # <<>>,
         answers \in Seq(ToSet(answers)), IsInjective(answers),
         NEW type, NEW content, Reply(type, content),
         [type |-> type, content |-> content] \notin ToSet(answers)
  PROVE  /\ asked' \in Seq(Messages) /\ IsInjective(asked')
         /\ Head(asked) \in ToSet(asked) /\ Head(asked) \in Messages
         /\ ToSet(asked') = ToSet(asked) \ {Head(asked)}
         /\ answers' \in Seq(ToSet(answers')) /\ IsInjective(answers')
         /\ ToSet(answers') = ToSet(answers) \cup {[type |-> type, content |-> content]}
<1>1. /\ asked' \in Seq(Messages) /\ IsInjective(asked')
      /\ Head(asked) \in ToSet(asked) /\ Head(asked) \in Messages
      /\ ToSet(asked') = ToSet(asked) \ {Head(asked)}
  BY HeldAfterTail DEF Reply
<1>2. /\ answers' \in Seq(ToSet(answers')) /\ IsInjective(answers')
      /\ ToSet(answers') = ToSet(answers) \cup {[type |-> type, content |-> content]}
  BY HeldAfterAppend DEF Reply
<1> QED BY <1>1, <1>2

-----------------------------------------------------------------------------
(* From here on the conditions on the constants and the abbreviations of   *)
(* Segments are used without being cited.                                  *)
USE NullAssumption, IdsAssumption, SizesAssumption, MannersAssumption
USE DEF Up, Goto, Become, Back, kernelVars, plannerVars, socketVars, memoryVars,
        HasPcb, Creating, Lives, Careful

-----------------------------------------------------------------------------
(* The main loop has nothing on the socket but in these places.            *)
LEMMA SocketStays ==
  ASSUME Socket, main \notin {"create", "compact", "again", "delete"},
         UNCHANGED <<asked, answers, planner, planning, ending, open>>
  PROVE  Socket'
<1>1. /\ \A r : ~MainAsks(r) /\ (PlannerAsks(r)' <=> PlannerAsks(r))
      /\ \A a : ~MainHears(a) /\ (PlannerHears(a)' <=> PlannerHears(a))
  BY DEF MainAsks, PlannerAsks, MainHears, PlannerHears
<1> QED BY <1>1 DEF Socket, ByPlanner, ToPlanner

(* The main loop lets the CPU's process go.                                *)
LEMMA BackStep ==
  ASSUME SegmentsInv, Up, main = "cpu", UNCHANGED <<system, manner, segments_table, snapshot>>,
         UNCHANGED <<plannerVars, socketVars, memoryVars>>,
         NEW next \in {"pick", "plan"}, Back(next),
         NEW s, s \in {"READY", "BLOCK", "EXIT_PROCESS"}, Become(pcb, s),
         s = "EXIT_PROCESS" => next = "plan",
         transfers \subseteq transfers',
         \A t \in transfers' : t \in transfers \/ 
           /\ t.pcb = pcb /\ s = "BLOCK"
           /\ Careful => MemoryAllows(t.pcb, t.s_id, t.offset, t.size),
         \A t, u \in transfers' : t \notin transfers /\ u \notin transfers => t = u
  PROVE  SegmentsInv'
<1>1. Types'
  BY DEF SegmentsInv, Types, TypeOK
<1>2. Socket'
  BY SocketStays DEF SegmentsInv
<1>3. Threads'
  BY DEF SegmentsInv, Types, TypeOK, Threads
<1>4. Opened'
  BY DEF SegmentsInv, Types, TypeOK, Opened, Threads, Answered
<1>5. Owes'
  BY DEF SegmentsInv, Owes, Owing, Answered
<1>6. Mirrors'
  BY DEF SegmentsInv, Types, TypeOK, Mirrors, Threads, Expected, MemoryTable
<1>7. CarefulIds'
  BY DEF SegmentsInv, CarefulIds
<1>8. Transfers'
  BY DEF SegmentsInv, Types, TypeOK, Transfers, Threads, MemoryAllows, MemoryTable
<1> QED BY <1>1, <1>2, <1>3, <1>4, <1>5, <1>6, <1>7, <1>8 DEF SegmentsInv

(* A stutter, and the accesses of the CPU that are allowed.                *)
LEMMA NothingChanges ==
  ASSUME SegmentsInv, UNCHANGED vars
  PROVE  SegmentsInv'
<1>1. Types' <=> Types
  BY DEF vars, Types, TypeOK
<1>2. Socket => Socket'
  BY DEF vars, Socket, IsInjective, MainAsks, PlannerAsks, MainHears, PlannerHears, IsSnapshot,
         MemoryTable, ByPlanner, ToPlanner
<1>3. Threads /\ Opened /\ Owes => Threads' /\ Opened' /\ Owes'
  BY DEF vars, Threads, Opened, Owes, Owing, Answered
<1>4. Mirrors /\ CarefulIds /\ Transfers => Mirrors' /\ CarefulIds' /\ Transfers'
  BY DEF vars, Mirrors, IsSnapshot, MemoryTable, Expected, Answered, CarefulIds, Transfers,
         MemoryAllows
<1>5. system' = system
  BY DEF vars
<1> QED BY <1>1, <1>2, <1>3, <1>4, <1>5 DEF SegmentsInv

(* The module has ended: only the types are left to say.                   *)
LEMMA EndedStep ==
  ASSUME Types', ~Up'
  PROVE  SegmentsInv'
BY DEF SegmentsInv

(* What the CPU returns the process for.                                   *)
LEMMA YieldStep ==
  ASSUME SegmentsInv, Yield
  PROVE  SegmentsInv'
<1>1. /\ Up /\ main = "cpu" /\ UNCHANGED <<system, manner, segments_table, snapshot>>
      /\ UNCHANGED <<plannerVars, socketVars, memoryVars>> /\ UNCHANGED transfers
      /\ Back("pick") /\ Become(pcb, "READY")
  BY DEF Yield
<1> QED BY <1>1, BackStep

(* EXIT.                                                                   *)
LEMMA ExitStep ==
  ASSUME SegmentsInv, Exit
  PROVE  SegmentsInv'
<1>1. /\ Up /\ main = "cpu" /\ UNCHANGED <<system, manner, segments_table, snapshot>>
      /\ UNCHANGED <<plannerVars, socketVars, memoryVars>> /\ UNCHANGED transfers
      /\ Back("plan") /\ Become(pcb, "EXIT_PROCESS")
  BY DEF Exit
<1> QED BY <1>1, BackStep

(* An address outside every segment, for a careless process.               *)
LEMMA MmuFailsStep ==
  ASSUME SegmentsInv, NEW address, NEW size, MmuFails(address, size)
  PROVE  SegmentsInv'
<1>1. Types' /\ ~Up'
  BY DEF MmuFails, Instruction, SegmentsInv, Types, TypeOK
<1> QED BY <1>1, EndedStep

(* MOV_IN.                                                                 *)
LEMMA MovInStep ==
  ASSUME SegmentsInv, NEW address, NEW size, MovIn(address, size)
  PROVE  SegmentsInv'
<1>1. CASE MmuAllows(address, size)
  BY <1>1, NothingChanges DEF MovIn, vars
<1>2. CASE ~MmuAllows(address, size)
  <2>1. /\ Up /\ main = "cpu" /\ UNCHANGED <<system, manner, segments_table, snapshot>>
        /\ UNCHANGED <<plannerVars, socketVars, memoryVars>> /\ UNCHANGED transfers
        /\ Back("plan") /\ Become(pcb, "EXIT_PROCESS")
    BY <1>2 DEF MovIn, Instruction
  <2> QED BY <2>1, BackStep
<1> QED BY <1>1, <1>2

(* MOV_OUT.                                                                *)
LEMMA MovOutStep ==
  ASSUME SegmentsInv, NEW address, NEW size, NEW strlen, MovOut(address, size, strlen)
  PROVE  SegmentsInv'
<1> DEFINE ok == /\ MmuAllows(address, size)
                 /\ MemoryAllows(pcb, SidOf(address), OffsetOf(address), strlen)
<1>1. CASE ok
  BY <1>1, NothingChanges DEF MovOut, vars
<1>2. CASE ~ok
  <2>1. /\ Up /\ main = "cpu" /\ UNCHANGED <<system, manner, segments_table, snapshot>>
        /\ UNCHANGED <<plannerVars, socketVars, memoryVars>> /\ UNCHANGED transfers
        /\ Back("plan") /\ Become(pcb, "EXIT_PROCESS")
    BY <1>2 DEF MovOut, Instruction
  <2> QED BY <2>1, BackStep
<1> QED BY <1>1, <1>2

-----------------------------------------------------------------------------
(* The CPU and memory agree on what the process has in its hands.          *)
LEMMA CpuAgrees ==
  ASSUME SegmentsInv, Up, Careful, main = "cpu", NEW id, HasId(MemoryTable(pcb), id)
  PROVE  /\ pcb \in open /\ HasId(segments_table[pcb], id)
         /\ BySid(MemoryTable(pcb), id) = BySid(segments_table[pcb], id)
<1> DEFINE S == [s_id : SegmentIds \cup {0}, size : Nat]
<1>1. /\ pcb \in Procs /\ state[pcb] = "EXEC" /\ pcb \in open
      /\ table[pcb] \in Seq(S) /\ segments_table[pcb] \in Seq(S) /\ Zero \in S
  BY DEF SegmentsInv, Types, TypeOK, Tables, Threads, Opened, Mirrors, Zero
<1>2. IsSubsequence(MemoryTable(pcb), segments_table[pcb]) /\ IdsOnce(segments_table[pcb])
  BY <1>1 DEF SegmentsInv, Mirrors, Expected, CarefulIds
<1> HIDE DEF S
<1>3. MemoryTable(pcb) \in Seq(S)
  BY <1>1, WithZero DEF MemoryTable
<1> QED BY <1>1, <1>2, <1>3, SameSegment

(* F_READ and F_WRITE: what the mmu let through, memory allows.            *)
LEMMA FReadWriteStep ==
  ASSUME SegmentsInv, NEW address \in Addresses, NEW size, FReadWrite(address, size)
  PROVE  SegmentsInv'
<1> DEFINE t == [pcb |-> pcb, s_id |-> SidOf(address), offset |-> OffsetOf(address), size |-> size]
<1>1. /\ Up /\ main = "cpu" /\ UNCHANGED <<system, manner, segments_table, snapshot>>
      /\ UNCHANGED <<plannerVars, socketVars, memoryVars>>
      /\ Back("pick") /\ Become(pcb, "BLOCK") /\ transfers' = transfers \cup {t}
  BY DEF FReadWrite, Instruction, TransferBlocks
<1>2. Careful => MemoryAllows(pcb, SidOf(address), OffsetOf(address), size)
  BY CpuAgrees DEF FReadWrite, Instruction, MayAddress, MmuAllows, MemoryAllows
<1>3. /\ t.pcb = pcb
      /\ Careful => MemoryAllows(t.pcb, t.s_id, t.offset, t.size)
  BY <1>2
<1> HIDE DEF t
<1> QED BY <1>1, <1>3, BackStep

(* The file system goes to memory: only a BLOCKed process changes.         *)
LEMMA TransferStep ==
  ASSUME SegmentsInv, NEW t, Transfer(t)
  PROVE  SegmentsInv'
<1>1. /\ Up /\ t \in transfers /\ transfers' = transfers \ {t}
      /\ UNCHANGED <<system, manner, request, main, pcb, active_pcbs, segments_table, snapshot>>
      /\ UNCHANGED <<plannerVars, socketVars, memoryVars>>
      /\ Become(t.pcb, "READY") \/ UNCHANGED state
  BY DEF Transfer
<1>2. t.pcb \in Procs /\ state[t.pcb] = "BLOCK" /\ \A u \in transfers' : u.pcb # t.pcb
  BY <1>1 DEF SegmentsInv, Transfers
<1>3. /\ \A p \in Procs : p # t.pcb => state'[p] = state[p]
      /\ state'[t.pcb] \in {"READY", "BLOCK"} /\ DOMAIN state' = Procs
      /\ state' \in [Procs -> {"none", "NEW", "READY", "EXEC", "BLOCK", "EXIT_PROCESS", "freed"}]
  BY <1>1, <1>2 DEF SegmentsInv, Types, TypeOK
<1>4. Types'
  BY <1>1, <1>3 DEF SegmentsInv, Types, TypeOK
<1>5. Socket'
  BY <1>1 DEF SegmentsInv, Socket, IsInjective, MainAsks, PlannerAsks, MainHears, PlannerHears,
              IsSnapshot, MemoryTable, ByPlanner, ToPlanner
<1>6. Threads'
  BY <1>1, <1>2, <1>3, <1>4 DEF SegmentsInv, Types, TypeOK, Threads
<1>7. Opened' /\ Owes' /\ CarefulIds'
  BY <1>1, <1>2, <1>3 DEF SegmentsInv, Opened, Answered, Owes, Owing, CarefulIds
<1>8. Mirrors'
  BY <1>1, <1>2, <1>3 DEF SegmentsInv, Mirrors, IsSnapshot, MemoryTable, Expected, Answered
<1>9. Transfers'
  BY <1>1, <1>2, <1>3 DEF SegmentsInv, Transfers, MemoryAllows, MemoryTable
<1> QED BY <1>4, <1>5, <1>6, <1>7, <1>8, <1>9 DEF SegmentsInv

-----------------------------------------------------------------------------
(* The planner.                                                            *)

(* A console thread comes with a new process: none is on the way.          *)
LEMMA ArriveStep ==
  ASSUME SegmentsInv, NEW p \in Procs, Arrive(p)
  PROVE  SegmentsInv'
<1>1. Types'
  BY DEF Arrive, SegmentsInv, Types, TypeOK, Threads
<1>2. Socket'
  <2>1. /\ \A r : MainAsks(r)' <=> MainAsks(r)
        /\ \A a : MainHears(a)' <=> MainHears(a)
    BY DEF Arrive, MainAsks, MainHears, IsSnapshot, MemoryTable
  <2>2. planning \notin {"init", "end"}
    BY DEF Arrive, SegmentsInv, Threads
  <2>3. /\ \A r : ~PlannerAsks(r)
        /\ \A a : ~PlannerHears(a)
    BY <2>2 DEF PlannerAsks, PlannerHears
  <2>4. planning' # "end" /\ planning # "end" /\ asked' = asked /\ answers' = answers
    BY <2>2 DEF Arrive
  <2> QED BY <2>1, <2>3, <2>4 DEF Arrive, SegmentsInv, Socket, ByPlanner, ToPlanner
<1>3. Threads'
  BY DEF Arrive, SegmentsInv, Types, TypeOK, Threads
<1>4. Opened'
  <2>1. ~Answered("SEGMENTS_TABLE") /\ ~Answered("SEGMENTS_TABLE")'
    BY DEF Arrive, SegmentsInv, Answered, Socket, MainHears, PlannerHears, Threads
  <2> QED BY <2>1 DEF Arrive, SegmentsInv, Types, TypeOK, Opened
<1>5. Owes' /\ CarefulIds'
  BY DEF Arrive, SegmentsInv, Owes, Owing, CarefulIds, Answered
<1>6. Mirrors'
  BY DEF Arrive, SegmentsInv, Types, TypeOK, Mirrors, IsSnapshot, MemoryTable, Expected, Answered
<1>7. Transfers'
  BY DEF Arrive, SegmentsInv, Types, TypeOK, Transfers, MemoryAllows, MemoryTable
<1> QED BY <1>1, <1>2, <1>3, <1>4, <1>5, <1>6, <1>7 DEF SegmentsInv

(* The main loop looks for finished processes.                             *)
LEMMA MainPlansStep ==
  ASSUME SegmentsInv, MainPlans
  PROVE  SegmentsInv'
<1>1. Types'
  BY DEF MainPlans, SegmentsInv, Types, TypeOK, Threads
<1>2. Socket'
  <2>1. /\ \A r : ~MainAsks(r) /\ ~MainAsks(r)'
        /\ \A a : ~MainHears(a) /\ ~MainHears(a)'
    BY DEF MainPlans, MainAsks, MainHears
  <2>2. planning \notin {"init", "end"}
    BY DEF MainPlans, SegmentsInv, Threads
  <2>3. /\ \A r : ~PlannerAsks(r)
        /\ \A a : ~PlannerHears(a)
    BY <2>2 DEF PlannerAsks, PlannerHears
  <2>4. planning' # "end" /\ planning # "end" /\ asked' = asked /\ answers' = answers
    BY <2>2 DEF MainPlans
  <2> QED BY <2>1, <2>3, <2>4 DEF SegmentsInv, MainPlans, Socket
<1>3. Threads'
  BY DEF MainPlans, SegmentsInv, Types, TypeOK, Threads
<1>4. Opened' /\ Owes' /\ CarefulIds'
  BY DEF MainPlans, SegmentsInv, Opened, Owes, Owing, CarefulIds, Answered
<1>6. Mirrors' /\ Transfers'
  BY DEF MainPlans, SegmentsInv, Types, TypeOK, Mirrors, IsSnapshot, MemoryTable, Expected,
         Answered, Transfers, MemoryAllows
<1> QED BY <1>1, <1>2, <1>3, <1>4, <1>6 DEF SegmentsInv

(* The planner asks memory to end a process: no other request is there.    *)
LEMMA LookEndedStep ==
  ASSUME SegmentsInv, NEW p \in Procs, LookEnded(p)
  PROVE  SegmentsInv'
<1> DEFINE r0 == [op |-> "MEM_END_PROCCESS", pcb |-> p, s_id |-> 0, size |-> 0]
<1>1. /\ Up /\ planner # NULL /\ planning = "look" /\ state[p] = "EXIT_PROCESS" /\ p \in active_pcbs
      /\ active_pcbs' = active_pcbs \ {p} /\ ending' = p /\ planning' = "end"
      /\ asked' = Append(asked, r0) /\ r0 \in Messages
      /\ UNCHANGED <<system, manner, request, state, main, pcb, segments_table, snapshot, transfers,
                     planner, answers, memoryVars>>
  BY DEF LookEnded, Ended, Ask, Messages
<1>2. main \in {"plan", "planning"}
  BY <1>1 DEF SegmentsInv, Threads
<1>3. /\ ToSet(asked) = {} /\ ToSet(answers) = {}
  BY <1>1, <1>2 DEF SegmentsInv, Socket, MainAsks, MainHears, PlannerAsks, PlannerHears
<1>4. /\ asked' \in Seq(Messages) /\ IsInjective(asked') /\ ToSet(asked') = {r0}
  BY <1>1, <1>3, AskStep DEF SegmentsInv, Types, Socket
<1>5. r0.op = "MEM_END_PROCCESS" /\ r0.pcb = p
  OBVIOUS
<1> HIDE DEF r0
<1>6. Types'
  BY <1>1, <1>4 DEF SegmentsInv, Types, TypeOK
<1>7. Socket'
  <2>1. PlannerAsks(r0)'
    BY <1>1, <1>5 DEF PlannerAsks
  <2>2. ToSet(answers') = {} /\ IsInjective(answers')
    BY <1>1, <1>3 DEF SegmentsInv, Socket, IsInjective
  <2> QED BY <1>4, <2>1, <2>2 DEF Socket
<1>8. Threads'
  BY <1>1, <1>2 DEF SegmentsInv, Types, TypeOK, Threads
<1>9. Opened' /\ Owes' /\ CarefulIds'
  BY <1>1, <1>2 DEF SegmentsInv, Opened, Owes, Owing, CarefulIds, Answered
<1>10. Mirrors' /\ Transfers'
  BY <1>1 DEF SegmentsInv, Types, TypeOK, Mirrors, IsSnapshot, MemoryTable, Expected,
         Answered, Transfers, MemoryAllows
<1> QED BY <1>6, <1>7, <1>8, <1>9, <1>10 DEF SegmentsInv

(* The planner ends, or asks memory for the table of its process.          *)
LEMMA NoneEndedStep ==
  ASSUME SegmentsInv, NoneEnded
  PROVE  SegmentsInv'
<1>1. CASE planner = "main"
  <2>1. /\ Up /\ planning = "look" /\ Ended = {} /\ planner' = NULL /\ main' = "pick"
        /\ UNCHANGED <<planning, asked, system, manner, request, state, pcb, active_pcbs,
                       segments_table, snapshot, transfers, ending, answers, memoryVars>>
    BY <1>1 DEF NoneEnded
  <2>2. main = "planning" /\ ending = NULL
    BY <1>1, <2>1 DEF SegmentsInv, Types, TypeOK, Threads
  <2>3. /\ \A r : ~MainAsks(r) /\ ~PlannerAsks(r)
        /\ \A a : ~MainHears(a) /\ ~PlannerHears(a)
    BY <2>1, <2>2 DEF MainAsks, MainHears, PlannerAsks, PlannerHears
  <2>4. Types'
    BY <2>1, <2>2 DEF SegmentsInv, Types, TypeOK
  <2>5. Socket'
    BY <2>1, <2>3 DEF SegmentsInv, Socket
  <2>6. Threads'
    <3>1. \A p \in Procs : state[p] # "EXIT_PROCESS"
      BY <2>1, <2>2 DEF SegmentsInv, Types, TypeOK, Threads, Ended
    <3> QED BY <1>1, <2>1, <2>2, <3>1 DEF SegmentsInv, Types, TypeOK, Threads
  <2>7. Opened' /\ Owes' /\ CarefulIds'
    BY <2>1, <2>2 DEF SegmentsInv, Opened, Owes, Owing, CarefulIds, Answered
  <2>8. Mirrors' /\ Transfers'
    BY <2>1, <2>2 DEF SegmentsInv, Types, TypeOK, Mirrors, IsSnapshot, MemoryTable, Expected,
           Answered, Transfers, MemoryAllows
  <2> QED BY <2>4, <2>5, <2>6, <2>7, <2>8 DEF SegmentsInv
<1>2. CASE planner # "main"
  <2>0. PICK r0 : r0 = [op |-> "MEM_INIT_PROCESS", pcb |-> planner, s_id |-> 0, size |-> 0]
    OBVIOUS
  <2>1. /\ Up /\ planning = "look" /\ planner \in Procs /\ planning' = "init"
        /\ asked' = Append(asked, r0)
        /\ UNCHANGED <<planner, main, system, manner, request, state, pcb, active_pcbs,
                       segments_table, snapshot, transfers, ending, answers, memoryVars>>
    BY <1>2, <2>0 DEF NoneEnded, SegmentsInv, Types, TypeOK, Ask
  <2>2. r0 \in Messages /\ r0.op = "MEM_INIT_PROCESS" /\ r0.pcb = planner
    BY <2>0, <2>1 DEF Messages
  <2>3. /\ \A r : ~PlannerAsks(r) /\ (MainAsks(r) <=> MainAsks(r)')
        /\ \A a : ~PlannerHears(a) /\ (MainHears(a) <=> MainHears(a)')
    BY <2>1 DEF MainAsks, MainHears, PlannerAsks, PlannerHears, IsSnapshot, MemoryTable
  <2>4. \A r : MainAsks(r) => ~ByPlanner(r)
    BY DEF MainAsks, ByPlanner
  <2>5. \A a : MainHears(a) => ~ToPlanner(a) /\ ~ToPlanner(a)'
    BY <2>1 DEF MainHears, ToPlanner
  <2>6. PlannerAsks(r0)' /\ ByPlanner(r0)
    BY <2>1, <2>2 DEF PlannerAsks, ByPlanner
  <2>7. r0 \notin ToSet(asked)
    BY <2>1, <2>3, <2>4, <2>6 DEF SegmentsInv, Socket
  <2>8. /\ asked' \in Seq(Messages) /\ IsInjective(asked') /\ ToSet(asked') = ToSet(asked) \cup {r0}
    BY <2>1, <2>2, <2>7, AskStep DEF SegmentsInv, Types, Socket
  <2>9. Types'
    BY <2>1, <2>8 DEF SegmentsInv, Types, TypeOK
  <2>10. Socket'
    <3>1. /\ \A r \in ToSet(asked) : MainAsks(r) /\ ~ByPlanner(r)
          /\ \A a \in ToSet(answers) : MainHears(a) /\ ~ToPlanner(a) /\ ~ToPlanner(a)'
          /\ \A r, s \in ToSet(asked) : r = s
          /\ \A a, b \in ToSet(answers) : a = b
          /\ IsInjective(answers) /\ answers' = answers
          /\ \A r \in ToSet(asked), a \in ToSet(answers) : FALSE
      BY <2>1, <2>3, <2>4, <2>5 DEF SegmentsInv, Socket
    <3>2. \A r \in ToSet(asked') : r = r0 \/ r \in ToSet(asked)
      BY <2>8
    <3> QED BY <2>3, <2>6, <2>8, <3>1, <3>2 DEF Socket, ByPlanner
  <2>11. Threads'
    BY <1>2, <2>1 DEF SegmentsInv, Types, TypeOK, Threads
  <2>12. Opened' /\ Owes' /\ CarefulIds'
    BY <2>1, <2>2, <2>8 DEF SegmentsInv, Opened, Owes, Owing, CarefulIds, Answered
  <2>13. Mirrors' /\ Transfers'
    BY <2>1 DEF SegmentsInv, Types, TypeOK, Mirrors, IsSnapshot, MemoryTable, Expected,
           Answered, Transfers, MemoryAllows
  <2> QED BY <2>9, <2>10, <2>11, <2>12, <2>13 DEF SegmentsInv
<1> QED BY <1>1, <1>2

(* A thread that takes an answer that is not its own ends the module or    *)
(* takes one that is.                                                      *)
LEMMA EndAnswerStep ==
  ASSUME SegmentsInv, EndAnswer
  PROVE  SegmentsInv'
<1>1. PICK a \in ToSet(answers) :
        /\ Receive(a)
        /\ IF a.type = "MESSAGE_OK"
             THEN /\ Become(ending, "freed")
                  /\ segments_table' = [segments_table EXCEPT ![ending] = <<>>]
                  /\ planning' = "look" /\ ending' = NULL
                  /\ UNCHANGED system
             ELSE /\ system' = "aborted"
                  /\ UNCHANGED <<state, segments_table, planning, ending>>
  BY DEF EndAnswer
<1>2. /\ Up /\ planning = "end"
      /\ UNCHANGED <<manner, request, main, pcb, active_pcbs, snapshot, transfers, planner, asked,
                     memoryVars>>
  BY DEF EndAnswer
<1>3. /\ answers' \in Seq(ToSet(answers')) /\ IsInjective(answers')
      /\ ToSet(answers') = ToSet(answers) \ {a}
  BY <1>1, <1>2, ReceiveStep DEF SegmentsInv, Types, Socket
<1>4. CASE a.type # "MESSAGE_OK"
  <2>1. Types' /\ ~Up'
    BY <1>1, <1>2, <1>3, <1>4 DEF SegmentsInv, Types, TypeOK
  <2> QED BY <2>1, EndedStep
<1>5. CASE a.type = "MESSAGE_OK"
  <2>1. /\ state' = [state EXCEPT ![ending] = "freed"]
        /\ segments_table' = [segments_table EXCEPT ![ending] = <<>>]
        /\ planning' = "look" /\ ending' = NULL /\ system' = system
    BY <1>1, <1>5
  <2>2. /\ ending \in Procs /\ planner # NULL /\ state[ending] = "EXIT_PROCESS"
        /\ main \in {"plan", "planning"} /\ ending \notin active_pcbs
    BY <1>2 DEF SegmentsInv, Types, TypeOK, Threads
  <2>3. /\ \A r : ~MainAsks(r) /\ ~MainAsks(r)'
        /\ \A b : ~MainHears(b) /\ ~MainHears(b)'
    BY <1>2, <2>2 DEF MainAsks, MainHears
  <2>4. ToSet(asked) = {} /\ ToSet(answers') = {}
    BY <1>1, <1>2, <1>3, <2>3 DEF SegmentsInv, Socket, PlannerAsks, ByPlanner, ToPlanner
  <2>5. ending \notin open
    BY <1>1, <1>2, <1>5, <2>3 DEF SegmentsInv, Socket, PlannerHears
  <2>6. Types'
    <3>1. <<>> \in Tables
      BY DEF Tables
    <3> QED BY <1>2, <1>3, <2>1, <2>2, <3>1 DEF SegmentsInv, Types, TypeOK
  <2>7. Socket'
    BY <1>2, <1>3, <2>4 DEF SegmentsInv, Socket, IsInjective
  <2>8. Threads'
    BY <1>2, <2>1, <2>2 DEF SegmentsInv, Types, TypeOK, Threads
  <2>9. Opened'
    <3>1. \A p \in Procs : state[p] = "NEW" => p \notin open /\ ~Answered("SEGMENTS_TABLE")'
      BY <1>2, <2>4 DEF SegmentsInv, Opened, Answered, Socket, MainHears, PlannerHears
    <3> QED BY <1>2, <2>1, <2>2, <2>5, <3>1 DEF SegmentsInv, Types, TypeOK, Opened
  <2>10. Owes' /\ CarefulIds'
    <3>1. \A type : ~Answered(type)'
      BY <2>4 DEF Answered
    <3> QED BY <1>2, <2>1, <2>2, <3>1, EmptySeq
            DEF SegmentsInv, Types, TypeOK, Owes, Owing, CarefulIds, IdsOnce
  <2>11. Mirrors'
    BY <1>2, <2>1, <2>2 DEF SegmentsInv, Types, TypeOK, Mirrors, IsSnapshot, MemoryTable, Expected
  <2>12. Transfers'
    BY <1>2, <2>1, <2>2 DEF SegmentsInv, Types, TypeOK, Transfers, MemoryAllows, MemoryTable
  <2> QED BY <2>6, <2>7, <2>8, <2>9, <2>10, <2>11, <2>12 DEF SegmentsInv
<1> QED BY <1>4, <1>5

(* The table of a new process is as memory has it: the segment 0 alone.    *)
LEMMA InitAnswerStep ==
  ASSUME SegmentsInv, InitAnswer
  PROVE  SegmentsInv'
<1>1. PICK a \in ToSet(answers) :
        /\ Receive(a)
        /\ IF a.type = "SEGMENTS_TABLE"
             THEN /\ Become(planner, "READY")
                  /\ segments_table' = [segments_table EXCEPT ![planner] = a.content]
                  /\ active_pcbs' = active_pcbs \cup {planner}
                  /\ planner' = NULL /\ planning' = "look"
                  /\ UNCHANGED system
             ELSE /\ system' = "aborted"
                  /\ UNCHANGED <<state, segments_table, active_pcbs, planner, planning>>
  BY DEF InitAnswer
<1>2. /\ Up /\ planning = "init"
      /\ UNCHANGED <<manner, request, main, pcb, snapshot, transfers, ending, asked, memoryVars>>
  BY DEF InitAnswer
<1>3. /\ answers' \in Seq(ToSet(answers')) /\ IsInjective(answers')
      /\ ToSet(answers') = ToSet(answers) \ {a}
  BY <1>1, <1>2, ReceiveStep DEF SegmentsInv, Types, Socket
<1>4. CASE a.type # "SEGMENTS_TABLE"
  <2>1. Types' /\ ~Up'
    BY <1>1, <1>2, <1>3, <1>4 DEF SegmentsInv, Types, TypeOK
  <2> QED BY <2>1, EndedStep
<1>5. CASE a.type = "SEGMENTS_TABLE"
  <2>0. PICK n : n = planner
    OBVIOUS
  <2>1. /\ n = planner /\ a.content = <<Zero>> /\ n \in Procs /\ state[n] = "NEW"
    BY <2>0, <1>1, <1>2, <1>5 DEF SegmentsInv, Socket, MainHears, PlannerHears, Threads
  <2>2. /\ state' = [state EXCEPT ![n] = "READY"]
        /\ segments_table' = [segments_table EXCEPT ![n] = <<Zero>>]
        /\ active_pcbs' = active_pcbs \cup {n}
        /\ planner' = NULL /\ planning' = "look" /\ system' = system
    BY <1>1, <1>5, <2>1
  <2>3. /\ n # "main" /\ ending = NULL
        /\ HasPcb => n # pcb
    BY <1>2, <2>1 DEF SegmentsInv, Types, TypeOK, Threads
  <2>4. n \in open /\ table[n] = <<>>
    BY <1>1, <1>2, <1>5, <2>1 DEF SegmentsInv, Opened, Answered
  <2>5. MemoryTable(n) = <<Zero>> /\ <<Zero>> \in Tables /\ <<Zero>> # NULL
        /\ IsSubsequence(<<Zero>>, <<Zero>>) /\ IdsOnce(<<Zero>>)
    <3>1. Zero \in [s_id : SegmentIds \cup {0}, size : Nat]
      BY DEF Zero
    <3>2. <<Zero>> \in Tables
      BY <3>1 DEF Tables
    <3>3. <<Zero>> \o <<>> = <<Zero>>
      BY <3>2, ConcatEmptySeq DEF Tables
    <3>4. <<Zero>> # NULL
      BY <3>2 DEF Tables
    <3>5. IdsOnce(<<Zero>>)
      BY DEF IdsOnce
    <3>6. IsSubsequence(<<Zero>>, <<Zero>>)
      BY <3>2, SubsequenceOfItself DEF Tables
    <3> QED BY <2>4, <3>2, <3>3, <3>4, <3>5, <3>6 DEF MemoryTable
  <2>6. Types'
    BY <1>2, <1>3, <2>1, <2>2, <2>3, <2>5 DEF SegmentsInv, Types, TypeOK
  <2>7. Socket'
    <3>1. \A r \in ToSet(asked) : ~ByPlanner(r)
      BY <1>1, <1>2, <1>5 DEF SegmentsInv, Socket, ToPlanner
    <3>2. \A b \in ToSet(answers') : b \in ToSet(answers) /\ ~ToPlanner(b)
      BY <1>1, <1>2, <1>3, <1>5 DEF SegmentsInv, Socket, ToPlanner
    <3>3. \A r : PlannerAsks(r) => ByPlanner(r)
      BY DEF PlannerAsks, ByPlanner
    <3>4. \A b : PlannerHears(b) => ToPlanner(b)
      BY <1>2 DEF PlannerHears, ToPlanner
    <3>5. \A b : ToPlanner(b)' <=> ToPlanner(b)
      BY <1>2, <2>2 DEF ToPlanner
    <3>6. /\ \A r : MainAsks(r)' <=> MainAsks(r)
          /\ \A b : MainHears(b)' <=> MainHears(b)
      BY <1>2 DEF MainAsks, MainHears, IsSnapshot, MemoryTable
    <3>7. asked' = asked
      BY <1>2
    <3> QED BY <1>2, <1>3, <3>1, <3>2, <3>3, <3>4, <3>5, <3>6, <3>7
            DEF SegmentsInv, Socket, ByPlanner
  <2>8. Threads'
    BY <1>2, <2>1, <2>2, <2>3 DEF SegmentsInv, Types, TypeOK, Threads
  <2>9. Opened'
    <3>1. \A p \in Procs : state'[p] # "NEW"
      BY <1>2, <2>1, <2>2 DEF SegmentsInv, Types, TypeOK, Threads
    <3> QED BY <1>2, <2>1, <2>2, <2>4, <3>1 DEF SegmentsInv, Types, TypeOK, Opened
  <2>10. Owes'
    BY <1>2, <1>3, <2>2 DEF SegmentsInv, Owes, Owing, Answered
  <2>11. CarefulIds'
    BY <1>2, <2>1, <2>2, <2>3, <2>5 DEF SegmentsInv, Types, TypeOK, CarefulIds
  <2>12. Mirrors'
    <3>1. \A p \in Procs : p # n => Expected(p)' = Expected(p)
      <4>1. main \in {"create", "again"} => (Answered("MESSAGE_OK")' <=> Answered("MESSAGE_OK"))
        BY <1>3, <1>5 DEF Answered
      <4> QED BY <1>2, <2>1, <2>2, <4>1 DEF SegmentsInv, Types, TypeOK, Expected
    <3>2. Expected(n)' = <<Zero>>
      BY <1>2, <2>1, <2>2, <2>3 DEF SegmentsInv, Types, TypeOK, Expected
    <3>3. /\ segments_table'[n] = <<Zero>>
          /\ \A p \in Procs : p # n => segments_table'[p] = segments_table[p]
                                             /\ state'[p] = state[p]
      BY <2>1, <2>2 DEF SegmentsInv, Types, TypeOK
    <3>4. IsSnapshot(snapshot)' <=> IsSnapshot(snapshot)
      BY <1>2 DEF IsSnapshot, MemoryTable
    <3>5. \A p : MemoryTable(p)' = MemoryTable(p)
      BY <1>2 DEF MemoryTable
    <3>6. /\ HasPcb' => segments_table'[pcb'] # NULL
          /\ main' = "refresh" => IsSnapshot(snapshot)'
      BY <1>2, <2>3, <3>3, <3>4 DEF SegmentsInv, Types, TypeOK, Mirrors
    <3>7. ASSUME NEW p \in Procs, Lives(p)'
          PROVE  IF segments_table'[p] = NULL THEN table'[p] = <<>>
                 ELSE IsSubsequence(MemoryTable(p)', Expected(p)')
      <4>1. CASE p = n
        <5>1. segments_table'[p] # NULL
          BY <2>5, <3>3, <4>1
        <5>2. MemoryTable(p)' = <<Zero>> /\ Expected(p)' = <<Zero>>
          BY <2>5, <3>2, <3>5, <4>1
        <5> QED BY <2>5, <5>1, <5>2
      <4>2. CASE p # n
        BY <1>2, <3>1, <3>3, <3>5, <3>7, <4>2 DEF SegmentsInv, Mirrors
      <4> QED BY <4>1, <4>2
    <3> QED BY <3>6, <3>7 DEF Mirrors
  <2>13. Transfers'
    BY <1>2, <2>1, <2>2 DEF SegmentsInv, Types, TypeOK, Transfers, MemoryAllows, MemoryTable
  <2> QED BY <2>6, <2>7, <2>8, <2>9, <2>10, <2>11, <2>12, <2>13 DEF SegmentsInv
<1> QED BY <1>4, <1>5

-----------------------------------------------------------------------------
(* The main loop.                                                          *)

(* A process is given to the CPU.                                          *)
LEMMA PickStep ==
  ASSUME SegmentsInv, NEW p \in Procs, Pick(p)
  PROVE  SegmentsInv'
<1>1. /\ Up /\ main = "pick" /\ p \in active_pcbs /\ state[p] = "READY"
      /\ pcb' = p /\ state' = [state EXCEPT ![p] = "EXEC"] /\ active_pcbs' = active_pcbs \ {p}
      /\ UNCHANGED <<manner, request, segments_table, snapshot, transfers, plannerVars, socketVars,
                     memoryVars>>
  BY DEF Pick
<1>2. CASE segments_table[p] = NULL
  <2>1. main' = main /\ system' = "null_table"
    BY <1>2 DEF Pick
  <2>2. Types' /\ ~Up'
    BY <1>1, <2>1 DEF SegmentsInv, Types, TypeOK
  <2> QED BY <2>2, EndedStep
<1>3. CASE segments_table[p] # NULL
  <2>1. main' = "cpu" /\ system' = system
    BY <1>3 DEF Pick
  <2>2. Types'
    BY <1>1, <2>1 DEF SegmentsInv, Types, TypeOK
  <2>3. Socket'
    BY <1>1, <2>1, SocketStays DEF SegmentsInv
  <2>4. Threads'
    BY <1>1, <2>1 DEF SegmentsInv, Types, TypeOK, Threads
  <2>5. Opened'
    BY <1>1, <2>1 DEF SegmentsInv, Types, TypeOK, Opened, Answered
  <2>6. Owes' /\ CarefulIds'
    BY <1>1, <2>1 DEF SegmentsInv, Owes, Owing, Answered, CarefulIds
  <2>7. Mirrors'
    BY <1>1, <1>3, <2>1 DEF SegmentsInv, Types, TypeOK, Mirrors, Expected, MemoryTable
  <2>8. Transfers'
    BY <1>1, <2>1 DEF SegmentsInv, Types, TypeOK, Transfers, MemoryAllows, MemoryTable
  <2> QED BY <2>2, <2>3, <2>4, <2>5, <2>6, <2>7, <2>8 DEF SegmentsInv
<1> QED BY <1>2, <1>3

(* The main loop asks memory, for the first time or again.                 *)
LEMMA MainAsksStep ==
  ASSUME SegmentsInv, Up, main \in {"cpu", "refresh"},
         NEW r \in Messages, asked' = Append(asked, r),
         main' \in {"create", "again", "delete"},
         MainAsks(r)',
         UNCHANGED <<planner, planning, ending, open, table, answers>>
  PROVE  asked' \in Seq(Messages) /\ Socket'
<1>1. /\ \A q : ~MainAsks(q) /\ (PlannerAsks(q) <=> PlannerAsks(q)')
      /\ \A a : ~MainHears(a) /\ (PlannerHears(a) <=> PlannerHears(a)')
  BY DEF MainAsks, MainHears, PlannerAsks, PlannerHears
<1>2. /\ \A q : PlannerAsks(q) => ByPlanner(q)
      /\ \A a : PlannerHears(a) => ToPlanner(a)
      /\ \A a : ToPlanner(a)' <=> ToPlanner(a)
      /\ ~ByPlanner(r)
  BY DEF PlannerAsks, ByPlanner, PlannerHears, ToPlanner, MainAsks
<1>3. /\ \A q \in ToSet(asked) : PlannerAsks(q) /\ ByPlanner(q)
      /\ \A a \in ToSet(answers) : PlannerHears(a) /\ ToPlanner(a)
      /\ \A q, s \in ToSet(asked) : q = s
      /\ \A a, b \in ToSet(answers) : a = b
      /\ \A q \in ToSet(asked), a \in ToSet(answers) : FALSE
      /\ IsInjective(asked) /\ IsInjective(answers) /\ asked \in Seq(Messages)
  BY <1>1, <1>2 DEF SegmentsInv, Types, Socket
<1>4. /\ asked' \in Seq(Messages) /\ IsInjective(asked')
      /\ ToSet(asked') = ToSet(asked) \cup {r}
  BY <1>2, <1>3, AskStep
<1>5. /\ \A q \in ToSet(asked') : q = r \/ q \in ToSet(asked)
      /\ answers' = answers
  BY <1>4
<1>6. Socket'
  BY <1>1, <1>2, <1>3, <1>4, <1>5 DEF Socket, ByPlanner
<1> QED BY <1>4, <1>6

(* CREATE_SEGMENT: what was asked is remembered.                           *)
LEMMA CreateStep ==
  ASSUME SegmentsInv, NEW s_id \in SegmentIds, NEW size \in Sizes, Create(s_id, size)
  PROVE  SegmentsInv'
<1>1. /\ Up /\ main = "cpu" /\ main' = "create"
      /\ Careful => ~HasId(segments_table[pcb], s_id)
      /\ request' = [s_id |-> s_id, size |-> size]
      /\ UNCHANGED <<system, manner, state, pcb, active_pcbs, segments_table, snapshot,
                     transfers, plannerVars, answers, memoryVars>>
  BY DEF Create
<1>2. PICK r : r = [op |-> "MEM_CREATE_SEGMENT", pcb |-> pcb, s_id |-> s_id, size |-> size]
  OBVIOUS
<1>3. asked' = Append(asked, r)
  BY <1>2 DEF Create, Ask
<1>4. r \in Messages
  BY <1>1, <1>2 DEF SegmentsInv, Types, TypeOK, Messages
<1>5. MainAsks(r)'
  BY <1>1, <1>2 DEF MainAsks
<1>6. Socket' /\ asked' \in Seq(Messages)
  BY <1>1, <1>3, <1>4, <1>5, MainAsksStep
<1>7. Types'
  BY <1>1, <1>6 DEF SegmentsInv, Types, TypeOK
<1>8. Threads'
  BY <1>1 DEF SegmentsInv, Types, TypeOK, Threads
<1>9. /\ ~Answered("MESSAGE_OK")
      /\ Answered("MESSAGE_OK")' <=> Answered("MESSAGE_OK")
      /\ Answered("OUT_OF_MEMORY")' <=> Answered("OUT_OF_MEMORY")
      /\ Answered("SEGMENTS_TABLE")' <=> Answered("SEGMENTS_TABLE")
      /\ Answered("COMPACT_REQUEST")' <=> Answered("COMPACT_REQUEST")
  <2>1. planning # "end"
    BY <1>1 DEF SegmentsInv, Types, TypeOK, Threads
  <2> QED BY <1>1, <2>1 DEF SegmentsInv, Socket, MainHears, PlannerHears, Answered
<1>10. Opened' /\ Owes' /\ CarefulIds'
  BY <1>1, <1>9 DEF SegmentsInv, Opened, Owes, Owing, CarefulIds
<1>11. Mirrors'
  BY <1>1, <1>9 DEF SegmentsInv, Mirrors, MemoryTable, Expected
<1>12. Transfers'
  BY <1>1 DEF SegmentsInv, Transfers, MemoryAllows, MemoryTable
<1> QED BY <1>1, <1>6, <1>7, <1>8, <1>10, <1>11, <1>12 DEF SegmentsInv

(* DELETE_SEGMENT.                                                         *)
LEMMA DeleteSegmentStep ==
  ASSUME SegmentsInv, NEW s_id \in SegmentIds, DeleteSegment(s_id)
  PROVE  SegmentsInv'
<1>1. /\ Up /\ main = "cpu" /\ main' = "delete"
      /\ UNCHANGED <<system, manner, request, state, pcb, active_pcbs, segments_table, snapshot,
                     transfers, plannerVars, answers, memoryVars>>
  BY DEF DeleteSegment
<1>2. PICK r : r = [op |-> "MEM_DELETE_SEGMENT", pcb |-> pcb, s_id |-> s_id, size |-> 0]
  OBVIOUS
<1>3. asked' = Append(asked, r)
  BY <1>2 DEF DeleteSegment, Ask
<1>4. r \in Messages
  BY <1>1, <1>2 DEF SegmentsInv, Types, TypeOK, Messages
<1>5. MainAsks(r)'
  BY <1>1, <1>2 DEF MainAsks
<1>6. Socket' /\ asked' \in Seq(Messages)
  BY <1>1, <1>3, <1>4, <1>5, MainAsksStep
<1>7. Types'
  BY <1>1, <1>6 DEF SegmentsInv, Types, TypeOK
<1>8. Threads'
  BY <1>1 DEF SegmentsInv, Types, TypeOK, Threads
<1>9. Opened' /\ Owes' /\ CarefulIds'
  BY <1>1 DEF SegmentsInv, Opened, Owes, Owing, CarefulIds, Answered
<1>10. Mirrors'
  BY <1>1 DEF SegmentsInv, Mirrors, MemoryTable, Expected
<1>11. Transfers'
  BY <1>1 DEF SegmentsInv, Transfers, MemoryAllows, MemoryTable
<1> QED BY <1>1, <1>6, <1>7, <1>8, <1>9, <1>10, <1>11 DEF SegmentsInv

(* The main loop takes the answer to its request: nothing else of its own  *)
(* is on the socket.                                                       *)
LEMMA MainTakes ==
  ASSUME SegmentsInv, Up, main \in {"create", "compact", "again", "delete"},
         NEW a, Receive(a), a.type # "SEGMENTS_TABLE"
  PROVE  /\ answers' \in Seq(ToSet(answers')) /\ IsInjective(answers')
         /\ ToSet(answers') = ToSet(answers) \ {a} /\ a \in ToSet(answers)
         /\ planning # "end" /\ MainHears(a)
         /\ \A q \in ToSet(asked) : PlannerAsks(q) /\ ByPlanner(q)
         /\ \A b \in ToSet(answers') : PlannerHears(b) /\ b.type = "SEGMENTS_TABLE"
<1>1. /\ answers' \in Seq(ToSet(answers')) /\ IsInjective(answers')
      /\ ToSet(answers') = ToSet(answers) \ {a} /\ a \in ToSet(answers)
  BY ReceiveStep DEF SegmentsInv, Types, Socket
<1>2. planning # "end"
  BY DEF SegmentsInv, Types, TypeOK, Threads
<1>3. ~ToPlanner(a) /\ MainHears(a)
  BY <1>1, <1>2 DEF SegmentsInv, Socket, ToPlanner, PlannerHears
<1>4. \A q \in ToSet(asked) : ByPlanner(q) /\ ~MainAsks(q)
  BY <1>1, <1>3 DEF SegmentsInv, Socket, MainAsks, ByPlanner
<1>5. \A b \in ToSet(answers') : ToPlanner(b) /\ b \in ToSet(answers)
  BY <1>1, <1>3 DEF SegmentsInv, Socket
<1>6. \A b \in ToSet(answers') : b.type = "SEGMENTS_TABLE" /\ ~MainHears(b)
  BY <1>2, <1>5 DEF ToPlanner, MainHears
<1> QED BY <1>1, <1>2, <1>3, <1>4, <1>5, <1>6 DEF SegmentsInv, Socket

(* Without a new request nothing of the main loop is on the socket.        *)
LEMMA MainGoesOn ==
  ASSUME SegmentsInv, Up, main \in {"create", "compact", "again", "delete"},
         NEW a, Receive(a), a.type # "SEGMENTS_TABLE",
         UNCHANGED <<planner, planning, ending, open, table, asked>>
  PROVE  Socket'
<1>1. /\ \A q : PlannerAsks(q) <=> PlannerAsks(q)'
      /\ \A b : PlannerHears(b) <=> PlannerHears(b)'
      /\ \A b : ToPlanner(b)' <=> ToPlanner(b)
      /\ asked' = asked
  BY DEF PlannerAsks, PlannerHears, ToPlanner
<1>2. \A b \in ToSet(answers') : b \in ToSet(answers)
  BY MainTakes
<1>3. /\ \A q \in ToSet(asked) : PlannerAsks(q)
      /\ \A b \in ToSet(answers') : PlannerHears(b)
      /\ IsInjective(answers')
  BY MainTakes
<1> QED BY <1>1, <1>2, <1>3 DEF SegmentsInv, Socket, ByPlanner, IsInjective

(* The answer of a console is taken for one to the main loop.              *)
LEMMA TakenStep ==
  ASSUME SegmentsInv, Up, NEW a, Receive(a), AnswerTaken(a),
         UNCHANGED <<manner, transfers, plannerVars, memoryVars>>
  PROVE  SegmentsInv'
<1>1. answers' \in Seq(ToSet(answers'))
  BY ReceiveStep DEF SegmentsInv, Types, Socket
<1>2. Types' /\ ~Up'
  BY <1>1 DEF AnswerTaken, SegmentsInv, Types, TypeOK
<1> QED BY <1>2, EndedStep

(* The request of the main loop was answered and its process goes.         *)
LEMMA AnsweredStep ==
  ASSUME SegmentsInv, Up, main \in {"create", "again", "delete"}, deferred = NULL,
         NEW a, Receive(a), a.type # "SEGMENTS_TABLE",
         UNCHANGED <<system, manner, snapshot, asked>>, UNCHANGED transfers,
         UNCHANGED <<plannerVars, memoryVars>>,
         NEW next \in {"pick", "plan"}, Back(next),
         NEW s \in {"READY", "EXIT_PROCESS"}, Become(pcb, s),
         s = "EXIT_PROCESS" <=> next = "plan",
         segments_table' \in [Procs -> Tables \cup {NULL}],
         \A p \in Procs : p # pcb => segments_table'[p] = segments_table[p],
         s = "READY" => /\ segments_table'[pcb] # NULL
                        /\ IsSubsequence(MemoryTable(pcb), segments_table'[pcb]),
         Careful /\ segments_table'[pcb] # NULL => IdsOnce(segments_table'[pcb])
  PROVE  SegmentsInv'
<1>0. PICK c : c = pcb
  OBVIOUS
<1>1. c \in Procs /\ state[c] = "EXEC" /\ state' = [state EXCEPT ![c] = s] /\ planning # "end"
  BY <1>0 DEF SegmentsInv, Types, TypeOK, Threads
<1>2. /\ answers' \in Seq(ToSet(answers'))
      /\ \A b \in ToSet(answers') : b.type = "SEGMENTS_TABLE"
      /\ ToSet(answers') = ToSet(answers) \ {a}
  BY MainTakes
<1>3. Types'
  <2>1. /\ state' \in [Procs -> {"none", "NEW", "READY", "EXEC", "BLOCK", "EXIT_PROCESS", "freed"}]
        /\ active_pcbs' \subseteq Procs
    BY <1>0, <1>1 DEF SegmentsInv, Types, TypeOK
  <2> QED BY <1>2, <2>1 DEF SegmentsInv, Types, TypeOK
<1>4. Socket'
  BY MainGoesOn
<1>5. Threads'
  BY <1>0, <1>1 DEF SegmentsInv, Types, TypeOK, Threads
<1>6. Opened'
  <2>1. Answered("SEGMENTS_TABLE")' <=> Answered("SEGMENTS_TABLE")
    BY <1>2 DEF Answered
  <2> QED BY <1>0, <1>1, <2>1 DEF SegmentsInv, Types, TypeOK, Opened
<1>7. Owes'
  BY <1>2 DEF Owes, Owing, Answered
<1>8. CarefulIds'
  BY <1>0 DEF SegmentsInv, CarefulIds
<1>9. Mirrors'
  <2>1. \A p \in Procs : Expected(p)' = segments_table'[p] /\ MemoryTable(p)' = MemoryTable(p)
    BY DEF Expected, MemoryTable
  <2>2. \A p \in Procs : p # c => Expected(p) = segments_table[p]
    BY <1>0 DEF Expected
  <2>3. ASSUME NEW p \in Procs, Lives(p)'
        PROVE  IF segments_table'[p] = NULL THEN table'[p] = <<>>
               ELSE IsSubsequence(MemoryTable(p)', Expected(p)')
    <3>1. CASE p = c
      <4>1. s = "READY"
        BY <1>1, <2>3, <3>1 DEF SegmentsInv, Types, TypeOK
      <4> QED BY <1>0, <2>1, <3>1, <4>1
    <3>2. CASE p # c
      <4>1. Lives(p)
        BY <1>1, <2>3, <3>2 DEF SegmentsInv, Types, TypeOK
      <4> QED BY <1>0, <2>1, <2>2, <3>2, <4>1 DEF SegmentsInv, Mirrors
    <3> QED BY <3>1, <3>2
  <2> QED BY <2>3 DEF Mirrors
<1>10. Transfers'
  BY <1>0, <1>1 DEF SegmentsInv, Types, TypeOK, Transfers, MemoryAllows, MemoryTable
<1> QED BY <1>3, <1>4, <1>5, <1>6, <1>7, <1>8, <1>9, <1>10 DEF SegmentsInv

(* The answer to CREATE_SEGMENT: the table gets what memory granted.       *)
LEMMA CreateAnswerStep ==
  ASSUME SegmentsInv, CreateAnswer
  PROVE  SegmentsInv'
<1>1. PICK a \in ToSet(answers) :
       /\ Receive(a)
       /\ \/ AnswerTaken(a)
          \/ /\ a.type = "COMPACT_REQUEST" /\ main = "create"
             /\ Goto("compact")
             /\ Ask("MEM_COMPACT_ALL", pcb, 0, 0)
             /\ UNCHANGED <<system, state, active_pcbs, pcb, request, segments_table>>
          \/ /\ a.type = "OUT_OF_MEMORY"
             /\ Become(pcb, "EXIT_PROCESS") /\ Back("plan")
             /\ UNCHANGED <<system, segments_table, asked>>
          \/ /\ a.type = "MESSAGE_OK"
             /\ segments_table' = Created(segments_table)
             /\ Become(pcb, "READY") /\ Back("pick")
             /\ UNCHANGED <<system, asked>>
  BY DEF CreateAnswer
<1>2. /\ Up /\ main \in {"create", "again"}
      /\ UNCHANGED <<manner, snapshot, transfers, plannerVars, memoryVars>>
  BY DEF CreateAnswer
<1>3. CASE AnswerTaken(a)
  BY <1>1, <1>2, <1>3, TakenStep
<1>4. CASE /\ a.type = "COMPACT_REQUEST" /\ main = "create"
           /\ Goto("compact")
           /\ Ask("MEM_COMPACT_ALL", pcb, 0, 0)
           /\ UNCHANGED <<system, state, active_pcbs, pcb, request, segments_table>>
  <2>1. /\ a.type # "SEGMENTS_TABLE" /\ main = "create" /\ main' = "compact"
        /\ UNCHANGED <<system, state, active_pcbs, pcb, request, segments_table>>
        /\ Receive(a)
    BY <1>1, <1>4
  <2>2. PICK r : r = [op |-> "MEM_COMPACT_ALL", pcb |-> pcb, s_id |-> 0, size |-> 0]
    OBVIOUS
  <2>3. /\ r \in Messages /\ MainAsks(r)' /\ ~ByPlanner(r)
    BY <1>2, <2>1, <2>2 DEF SegmentsInv, Types, TypeOK, Messages, MainAsks, ByPlanner
  <2>4. /\ answers' \in Seq(ToSet(answers')) /\ IsInjective(answers')
        /\ ToSet(answers') = ToSet(answers) \ {a} /\ a \in ToSet(answers)
        /\ planning # "end"
        /\ \A q \in ToSet(asked) : PlannerAsks(q) /\ ByPlanner(q)
        /\ \A b \in ToSet(answers') : PlannerHears(b) /\ b.type = "SEGMENTS_TABLE"
    BY <1>2, <2>1, MainTakes
  <2>5. /\ asked' \in Seq(Messages) /\ IsInjective(asked')
        /\ ToSet(asked') = ToSet(asked) \cup {r}
    <3>1. asked' = Append(asked, r)
      BY <1>4, <2>2 DEF Ask
    <3> QED BY <1>2, <2>3, <2>4, <3>1, AskStep DEF SegmentsInv, Types, Socket
  <2>6. Types'
    BY <1>2, <2>1, <2>4, <2>5 DEF SegmentsInv, Types, TypeOK
  <2>7. Socket'
    <3>1. \A b \in ToSet(answers) : b # a => ToPlanner(b)
      BY <2>4 DEF ToPlanner
    <3>2. ~ToPlanner(a)
      BY <2>1, <2>4 DEF ToPlanner
    <3>3. \A b \in ToSet(answers') : b \in ToSet(answers) /\ b # a
      BY <2>4
    <3>4. \A q \in ToSet(asked), b \in ToSet(answers') : FALSE
      BY <1>2, <2>4, <3>1, <3>3 DEF SegmentsInv, Socket
    <3>5. \A b, d \in ToSet(answers') : b = d
      BY <1>2, <3>1, <3>3 DEF SegmentsInv, Socket
    <3>6. \A q, s \in ToSet(asked) : q = s
      BY <1>2, <2>4 DEF SegmentsInv, Socket
    <3>7. \A q \in ToSet(asked') : q = r \/ q \in ToSet(asked)
      BY <2>5
    <3>8. /\ \A q : PlannerAsks(q)' <=> PlannerAsks(q)
          /\ \A b : PlannerHears(b)' <=> PlannerHears(b)
          /\ \A b : ToPlanner(b)' <=> ToPlanner(b)
      BY <1>2 DEF PlannerAsks, PlannerHears, ToPlanner
    <3> QED BY <2>3, <2>4, <2>5, <3>1, <3>3, <3>4, <3>5, <3>6, <3>7, <3>8 DEF Socket, ByPlanner
  <2>8. Threads'
    BY <1>2, <2>1 DEF SegmentsInv, Types, TypeOK, Threads
  <2>9. /\ ~Answered("MESSAGE_OK")' /\ ~Answered("OUT_OF_MEMORY")'
        /\ Answered("SEGMENTS_TABLE")' <=> Answered("SEGMENTS_TABLE")
    BY <2>1, <2>4 DEF Answered
  <2>10. ~Answered("MESSAGE_OK")
    <3>1. \A b \in ToSet(answers) : b = a \/ b \in ToSet(answers')
      BY <2>4
    <3> QED BY <1>4, <2>4, <3>1 DEF Answered
  <2>11. Opened' /\ Owes' /\ CarefulIds'
    <3>1. Answered("COMPACT_REQUEST")
      BY <1>4 DEF Answered
    <3> QED BY <1>2, <2>1, <2>9, <3>1 DEF SegmentsInv, Opened, Owes, Owing, CarefulIds
  <2>12. Mirrors'
    BY <1>2, <2>1, <2>10 DEF SegmentsInv, Mirrors, MemoryTable, Expected
  <2>13. Transfers'
    BY <1>2, <2>1 DEF SegmentsInv, Transfers, MemoryAllows, MemoryTable
  <2> QED BY <2>6, <2>7, <2>8, <2>11, <2>12, <2>13 DEF SegmentsInv
<1>5. CASE /\ a.type = "OUT_OF_MEMORY"
           /\ Become(pcb, "EXIT_PROCESS") /\ Back("plan")
           /\ UNCHANGED <<system, segments_table, asked>>
  <2>1. deferred = NULL
    BY <1>2, <1>5 DEF SegmentsInv, Owes, Owing, Answered
  <2>2. segments_table' \in [Procs -> Tables \cup {NULL}] /\ pcb \in Procs
    BY <1>2, <1>5 DEF SegmentsInv, Types, TypeOK
  <2>3. Careful /\ segments_table'[pcb] # NULL => IdsOnce(segments_table'[pcb])
    BY <1>2, <1>5, <2>2 DEF SegmentsInv, CarefulIds
  <2> QED BY <1>1, <1>2, <1>5, <2>1, <2>2, <2>3, AnsweredStep
<1>6. CASE /\ a.type = "MESSAGE_OK"
           /\ segments_table' = Created(segments_table)
           /\ Become(pcb, "READY") /\ Back("pick")
           /\ UNCHANGED <<system, asked>>
  <2> DEFINE S == [s_id : SegmentIds \cup {0}, size : Nat]
  <2>1. deferred = NULL /\ Answered("MESSAGE_OK")
    BY <1>2, <1>6 DEF SegmentsInv, Owes, Owing, Answered
  <2>2. /\ pcb \in Procs /\ state[pcb] = "EXEC" /\ request \in S
        /\ segments_table[pcb] # NULL /\ segments_table[pcb] \in Seq(S)
        /\ Careful => IdsOnce(segments_table[pcb]) /\ ~HasId(segments_table[pcb], request.s_id)
    BY <1>2 DEF SegmentsInv, Types, TypeOK, Threads, Mirrors, CarefulIds, Tables
  <2>3. IsSubsequence(MemoryTable(pcb), Append(segments_table[pcb], request))
    BY <1>2, <2>1, <2>2 DEF SegmentsInv, Mirrors, Expected
  <2>4. /\ segments_table'[pcb] = Append(segments_table[pcb], request)
        /\ \A p \in Procs : p # pcb => segments_table'[p] = segments_table[p]
        /\ DOMAIN segments_table' = Procs
        /\ segments_table' = [segments_table EXCEPT ![pcb] = Append(segments_table[pcb], request)]
    BY <1>2, <1>6, <2>2 DEF SegmentsInv, Types, TypeOK, Created
  <2>5. Append(segments_table[pcb], request) \in Seq(S)
    BY <2>2
  <2>6. /\ segments_table' \in [Procs -> Tables \cup {NULL}]
        /\ segments_table'[pcb] # NULL
    BY <1>2, <2>2, <2>4, <2>5 DEF SegmentsInv, Types, TypeOK, Tables
  <2>7. Careful => IdsOnce(segments_table'[pcb])
    <3> HIDE DEF S
    <3> QED BY <2>2, <2>4, IdsOnceAppend
  <2> QED BY <1>1, <1>2, <1>6, <2>1, <2>3, <2>4, <2>6, <2>7, AnsweredStep
<1> QED BY <1>1, <1>3, <1>4, <1>5, <1>6

(* The answer to DELETE_SEGMENT: the table keeps the segment.              *)
LEMMA DeleteAnswerStep ==
  ASSUME SegmentsInv, DeleteAnswer
  PROVE  SegmentsInv'
<1>1. PICK a \in ToSet(answers) :
       /\ Receive(a)
       /\ \/ AnswerTaken(a)
          \/ /\ a.type = "MESSAGE_OK"
             /\ Become(pcb, "READY") /\ Back("pick")
             /\ UNCHANGED <<system, segments_table, snapshot, asked>>
  BY DEF DeleteAnswer
<1>2. /\ Up /\ main = "delete" /\ UNCHANGED <<manner, transfers, plannerVars, memoryVars>>
  BY DEF DeleteAnswer
<1>3. CASE AnswerTaken(a)
  BY <1>1, <1>2, <1>3, TakenStep
<1>4. CASE /\ a.type = "MESSAGE_OK"
           /\ Become(pcb, "READY") /\ Back("pick")
           /\ UNCHANGED <<system, segments_table, snapshot, asked>>
  <2>1. deferred = NULL
    BY <1>2, <1>4 DEF SegmentsInv, Owes, Owing, Answered
  <2>2. /\ pcb \in Procs /\ state[pcb] = "EXEC" /\ segments_table[pcb] # NULL
        /\ segments_table' \in [Procs -> Tables \cup {NULL}]
    BY <1>2, <1>4 DEF SegmentsInv, Types, TypeOK, Threads, Mirrors
  <2>3. IsSubsequence(MemoryTable(pcb), segments_table'[pcb])
    BY <1>2, <1>4, <2>2 DEF SegmentsInv, Mirrors, Expected
  <2>4. Careful => IdsOnce(segments_table'[pcb])
    BY <1>2, <1>4, <2>2 DEF SegmentsInv, CarefulIds
  <2> QED BY <1>1, <1>2, <1>4, <2>1, <2>2, <2>3, <2>4, AnsweredStep
<1> QED BY <1>1, <1>3, <1>4

(* The answer to the compaction: it is as true of memory as when sent.     *)
LEMMA CompactAnswerStep ==
  ASSUME SegmentsInv, CompactAnswer
  PROVE  SegmentsInv'
<1>1. PICK a \in ToSet(answers) :
       /\ Receive(a)
       /\ \/ AnswerTaken(a)
          \/ /\ a.type = "ALL_SEGMENTS_TABLES"
             /\ snapshot' = a.content
             /\ Goto("refresh")
             /\ UNCHANGED <<system, request, state, pcb, active_pcbs, segments_table, asked>>
  BY DEF CompactAnswer
<1>2. /\ Up /\ main = "compact" /\ UNCHANGED <<manner, transfers, plannerVars, memoryVars>>
  BY DEF CompactAnswer
<1>3. CASE AnswerTaken(a)
  BY <1>1, <1>2, <1>3, TakenStep
<1>4. CASE /\ a.type = "ALL_SEGMENTS_TABLES"
           /\ snapshot' = a.content
           /\ Goto("refresh")
           /\ UNCHANGED <<system, request, state, pcb, active_pcbs, segments_table, asked>>
  <2>1. /\ answers' \in Seq(ToSet(answers'))
        /\ ToSet(answers') = ToSet(answers) \ {a} /\ MainHears(a)
        /\ \A b \in ToSet(answers') : b.type = "SEGMENTS_TABLE"
    BY <1>1, <1>2, <1>4, MainTakes
  <2>2. Types'
    BY <1>2, <1>4, <2>1 DEF SegmentsInv, Types, TypeOK
  <2>3. Socket'
    BY <1>1, <1>2, <1>4, MainGoesOn
  <2>4. Threads'
    BY <1>2, <1>4 DEF SegmentsInv, Types, TypeOK, Threads
  <2>5. /\ Answered("SEGMENTS_TABLE")' <=> Answered("SEGMENTS_TABLE")
        /\ ~Answered("MESSAGE_OK")' /\ ~Answered("OUT_OF_MEMORY")'
    BY <1>4, <2>1 DEF Answered
  <2>6. Opened' /\ Owes' /\ CarefulIds' /\ Transfers'
    BY <1>2, <1>4, <2>5
    DEF SegmentsInv, Opened, Owes, Owing, CarefulIds, Transfers, MemoryAllows, MemoryTable
  <2>7. Mirrors'
    <3>1. IsSnapshot(snapshot)'
      BY <1>2, <1>4, <2>1 DEF MainHears, IsSnapshot, MemoryTable
    <3> QED BY <1>2, <1>4, <3>1 DEF SegmentsInv, Mirrors, MemoryTable, Expected
  <2> QED BY <2>2, <2>3, <2>4, <2>6, <2>7 DEF SegmentsInv
<1> QED BY <1>1, <1>3, <1>4

(* What memory has for a process is well formed, and has each id once when *)
(* the table of its PCB does.                                              *)
LEMMA MemoryTables ==
  ASSUME SegmentsInv, Up, NEW p \in Procs
  PROVE  /\ MemoryTable(p) \in Tables
         /\ MemoryTable(p) # NULL
         /\ table[p] = <<>> => MemoryTable(p) = <<Zero>>
         /\ Careful /\ Lives(p) /\ p # pcb /\ segments_table[p] # NULL => IdsOnce(MemoryTable(p))
<1> DEFINE S == [s_id : SegmentIds \cup {0}, size : Nat]
<1>1. /\ Zero \in S /\ table[p] \in Seq(S) /\ segments_table[p] \in Seq(S) \cup {NULL}
      /\ NULL \notin Seq(S) /\ Tables = Seq(S)
  BY DEF Zero, SegmentsInv, Types, TypeOK, Tables
<1> HIDE DEF S
<1>2. MemoryTable(p) \in Seq(S) /\ (table[p] = <<>> => MemoryTable(p) = <<Zero>>)
  BY <1>1, WithZero DEF MemoryTable
<1>3. ASSUME Careful, Lives(p), p # pcb, segments_table[p] # NULL
      PROVE  IdsOnce(MemoryTable(p))
  <2>1. IsSubsequence(MemoryTable(p), segments_table[p])
    BY <1>3 DEF SegmentsInv, Mirrors, Expected
  <2>2. IdsOnce(segments_table[p])
    BY <1>3 DEF SegmentsInv, CarefulIds
  <2> QED BY <1>1, <1>2, <1>3, <2>1, <2>2, SubsequenceIds
<1> QED BY <1>1, <1>2, <1>3

(* The refresh: every table of the active queue becomes that of memory.    *)
LEMMA RefreshStep ==
  ASSUME SegmentsInv, Refresh
  PROVE  SegmentsInv'
<1>1. /\ Up /\ main = "refresh"
      /\ UNCHANGED <<manner, request, state, pcb, active_pcbs, transfers, plannerVars, answers,
                     memoryVars>>
  BY DEF Refresh
<1>2. CASE \E p \in active_pcbs : segments_table[p] = NULL
  <2>1. system' = "null_table" /\ UNCHANGED <<segments_table, main, asked, snapshot>>
    BY <1>2 DEF Refresh
  <2>2. Types' /\ ~Up'
    BY <1>1, <2>1 DEF SegmentsInv, Types, TypeOK
  <2> QED BY <2>2, EndedStep
<1>3. CASE \A p \in active_pcbs : segments_table[p] # NULL
  <2>1. /\ segments_table' = [p \in Procs |-> IF p \in active_pcbs THEN Refreshed(p)
                                                                  ELSE segments_table[p]]
        /\ Ask("MEM_CREATE_SEGMENT", pcb, request.s_id, request.size)
        /\ main' = "again" /\ system' = system
    BY <1>3 DEF Refresh
  <2>2. PICK r : r = [op |-> "MEM_CREATE_SEGMENT", pcb |-> pcb, s_id |-> request.s_id,
                      size |-> request.size]
    OBVIOUS
  <2>3. asked' = Append(asked, r)
    BY <2>1, <2>2 DEF Ask
  <2>4. r \in Messages /\ MainAsks(r)' /\ r.op = "MEM_CREATE_SEGMENT" /\ pcb \in Procs
        /\ request \in [s_id : SegmentIds, size : Sizes]
    BY <1>1, <2>1, <2>2 DEF SegmentsInv, Types, TypeOK, Messages, MainAsks
  <2>5. Socket' /\ asked' \in Seq(Messages)
    BY <1>1, <2>1, <2>3, <2>4, MainAsksStep
  <2>6. /\ pcb \notin active_pcbs
        /\ \A p \in active_pcbs : p \in Procs /\ Lives(p) /\ p \in open /\ p # pcb
    BY <1>1 DEF SegmentsInv, Types, TypeOK, Threads, Opened
  <2>7. IsSnapshot(snapshot)
    BY <1>1 DEF SegmentsInv, Mirrors
  <2>8. ASSUME NEW p \in Procs, p \in active_pcbs
        PROVE  /\ segments_table'[p] \in Tables \cup {NULL}
               /\ segments_table'[p] = NULL => table[p] = <<>>
               /\ segments_table'[p] # NULL => segments_table'[p] = MemoryTable(p)
    <3>1. segments_table'[p] = Refreshed(p)
      BY <2>1, <2>8
    <3>2. p \in DOMAIN snapshot => Refreshed(p) = MemoryTable(p) /\ MemoryTable(p) \in Tables
      BY <1>1, <2>7, MemoryTables DEF IsSnapshot, Refreshed
    <3>3. p \notin DOMAIN snapshot => Refreshed(p) = NULL /\ table[p] = <<>>
      BY <2>6, <2>7, <2>8 DEF IsSnapshot, Refreshed
    <3>4. MemoryTable(p) # NULL
      BY <1>1, MemoryTables
    <3> QED BY <3>1, <3>2, <3>3, <3>4
  <2>9. \A p \in Procs : p \notin active_pcbs => segments_table'[p] = segments_table[p]
    BY <2>1
  <2>10. segments_table' \in [Procs -> Tables \cup {NULL}]
    <3>1. \A p \in Procs : segments_table'[p] \in Tables \cup {NULL}
      BY <1>1, <2>8, <2>9 DEF SegmentsInv, Types, TypeOK
    <3>2. segments_table' = [p \in Procs |-> segments_table'[p]]
      BY <2>1
    <3> QED BY <3>1, <3>2
  <2>11. Types'
    BY <1>1, <2>1, <2>5, <2>10 DEF SegmentsInv, Types, TypeOK
  <2>12. Threads'
    BY <1>1, <2>1 DEF SegmentsInv, Types, TypeOK, Threads
  <2>13. \A type : Answered(type)' <=> Answered(type)
    BY <1>1 DEF Answered
  <2>14. ~Answered("MESSAGE_OK")
    <3>1. planning # "end"
      BY <1>1 DEF SegmentsInv, Types, TypeOK, Threads
    <3> QED BY <1>1, <3>1 DEF SegmentsInv, Socket, MainHears, PlannerHears, Answered
  <2>15. Opened' /\ Owes'
    BY <1>1, <2>1, <2>13 DEF SegmentsInv, Opened, Owes, Owing
  <2>16. CarefulIds'
    <3>1. ASSUME Careful, NEW p \in Procs, segments_table'[p] # NULL
          PROVE  IdsOnce(segments_table'[p])
      <4>1. CASE p \in active_pcbs
        BY <1>1, <1>3, <2>6, <2>8, <3>1, <4>1, MemoryTables
      <4>2. CASE p \notin active_pcbs
        BY <1>1, <2>9, <3>1, <4>2 DEF SegmentsInv, CarefulIds
      <4> QED BY <4>1, <4>2
    <3>2. Careful => ~HasId(segments_table'[pcb], request.s_id)
      BY <1>1, <2>4, <2>6, <2>9 DEF SegmentsInv, CarefulIds
    <3> QED BY <1>1, <3>1, <3>2 DEF CarefulIds
  <2>17. Mirrors'
    <3>1. \A p \in Procs : /\ Expected(p)' = segments_table'[p] /\ Expected(p) = segments_table[p]
                           /\ MemoryTable(p)' = MemoryTable(p)
      BY <1>1, <2>1, <2>13, <2>14 DEF Expected, MemoryTable
    <3>2. ASSUME NEW p \in Procs, Lives(p)'
          PROVE  IF segments_table'[p] = NULL THEN table'[p] = <<>>
                 ELSE IsSubsequence(MemoryTable(p)', Expected(p)')
      <4>1. CASE p \in active_pcbs
        <5>1. IsSubsequence(MemoryTable(p), MemoryTable(p))
          BY <1>1, MemoryTables, SubsequenceOfItself DEF Tables
        <5> QED BY <1>1, <2>8, <3>1, <4>1, <5>1
      <4>2. CASE p \notin active_pcbs
        BY <1>1, <2>9, <3>1, <3>2, <4>2 DEF SegmentsInv, Mirrors
      <4> QED BY <4>1, <4>2
    <3>3. HasPcb' => segments_table'[pcb'] # NULL
      BY <1>1, <2>4, <2>6, <2>9 DEF SegmentsInv, Mirrors
    <3>4. main' # "refresh"
      BY <2>1
    <3> QED BY <3>2, <3>3, <3>4 DEF Mirrors
  <2>18. Transfers'
    BY <1>1 DEF SegmentsInv, Transfers, MemoryAllows, MemoryTable
  <2> QED BY <1>1, <2>5, <2>11, <2>12, <2>15, <2>16, <2>17, <2>18 DEF SegmentsInv
<1> QED BY <1>2, <1>3

-----------------------------------------------------------------------------
(* Memory.                                                                 *)

(* The answer to a request takes its place on the socket.                  *)
LEMMA ServeSocket ==
  ASSUME SegmentsInv, Up, asked # <<>>, UNCHANGED <<kernelVars, plannerVars>>,
         NEW r, r = Head(asked), NEW type, NEW content, Reply(type, content),
         NEW e, e = [type |-> type, content |-> content],
         MainHears(e)' \/ PlannerHears(e)',
         ByPlanner(r) <=> ToPlanner(e),
         \A a \in ToSet(answers) : /\ MainHears(a) => MainHears(a)'
                                   /\ PlannerHears(a) => PlannerHears(a)'
  PROVE  /\ Socket' /\ asked' \in Seq(Messages) /\ answers' \in Seq(ToSet(answers'))
         /\ ToSet(answers') = ToSet(answers) \cup {e}
         /\ ToSet(asked') = ToSet(asked) \ {r}
<1>1. /\ asked \in Seq(Messages) /\ IsInjective(asked)
      /\ answers \in Seq(ToSet(answers)) /\ IsInjective(answers)
  BY DEF SegmentsInv, Types, Socket
<1>2. r \in ToSet(asked)
  BY <1>1, HeldBy
<1>3. e \notin ToSet(answers)
  BY <1>2 DEF SegmentsInv, Socket
<1>4. /\ asked' \in Seq(Messages) /\ IsInjective(asked')
      /\ ToSet(asked') = ToSet(asked) \ {r}
      /\ answers' \in Seq(ToSet(answers')) /\ IsInjective(answers')
      /\ ToSet(answers') = ToSet(answers) \cup {e}
  BY <1>1, <1>3, ReplyStep
<1>5. /\ \A q : MainAsks(q)' <=> MainAsks(q)
      /\ \A q : PlannerAsks(q)' <=> PlannerAsks(q)
      /\ \A a : ToPlanner(a)' <=> ToPlanner(a)
  BY DEF MainAsks, PlannerAsks, ToPlanner
<1>6. \A q \in ToSet(asked') : q \in ToSet(asked) /\ q # r
  BY <1>4
<1>7. \A a \in ToSet(answers') : a \in ToSet(answers) \/ a = e
  BY <1>4
<1>8. /\ \A q \in ToSet(asked') : MainAsks(q)' \/ PlannerAsks(q)'
      /\ \A q, s \in ToSet(asked') : (ByPlanner(q) <=> ByPlanner(s)) => q = s
  BY <1>5, <1>6 DEF SegmentsInv, Socket
<1>9. \A a \in ToSet(answers') : MainHears(a)' \/ PlannerHears(a)'
  BY <1>7 DEF SegmentsInv, Socket
<1>10. \A a \in ToSet(answers) : ~(ToPlanner(a) <=> ToPlanner(e))
  BY <1>2 DEF SegmentsInv, Socket
<1>11. \A a, b \in ToSet(answers') : (ToPlanner(a) <=> ToPlanner(b)) => a = b
  BY <1>7, <1>10 DEF SegmentsInv, Socket
<1>12. \A q \in ToSet(asked'), a \in ToSet(answers') : ByPlanner(q) <=> ~ToPlanner(a)
  <2>1. \A q \in ToSet(asked') : ~(ByPlanner(q) <=> ByPlanner(r))
    BY <1>2, <1>6 DEF SegmentsInv, Socket
  <2>2. \A q \in ToSet(asked'), a \in ToSet(answers) : ByPlanner(q) <=> ~ToPlanner(a)
    BY <1>6 DEF SegmentsInv, Socket
  <2> QED BY <1>7, <2>1, <2>2
<1>13. Socket'
  BY <1>4, <1>5, <1>8, <1>9, <1>11, <1>12 DEF Socket, ByPlanner
<1> QED BY <1>4, <1>13

(* Whose request memory has, and what else is on the socket.               *)
LEMMA ServedForPlanner ==
  ASSUME SegmentsInv, Up, asked # <<>>, ByPlanner(Head(asked))
  PROVE  /\ PlannerAsks(Head(asked))
         /\ \A a \in ToSet(answers) : ~ToPlanner(a) /\ MainHears(a)
<1>1. Head(asked) \in ToSet(asked)
  BY HeldBy DEF SegmentsInv, Types
<1>2. \A a \in ToSet(answers) : ~ToPlanner(a)
  BY <1>1 DEF SegmentsInv, Socket
<1>3. PlannerAsks(Head(asked))
  BY <1>1 DEF SegmentsInv, Socket, MainAsks, ByPlanner
<1> QED BY <1>2, <1>3 DEF SegmentsInv, Socket, PlannerHears, ToPlanner

(* The same for a request of the main loop.                                *)
LEMMA ServedForMain ==
  ASSUME SegmentsInv, Up, asked # <<>>, ~ByPlanner(Head(asked))
  PROVE  /\ MainAsks(Head(asked)) /\ Head(asked).pcb = pcb
         /\ pcb \in Procs /\ state[pcb] = "EXEC" /\ pcb \in open
         /\ planning # "end"
         /\ \A a \in ToSet(answers) : a.type = "SEGMENTS_TABLE" /\ PlannerHears(a)
<1>1. Head(asked) \in ToSet(asked)
  BY HeldBy DEF SegmentsInv, Types
<1>2. \A a \in ToSet(answers) : ToPlanner(a)
  BY <1>1 DEF SegmentsInv, Socket
<1>3. MainAsks(Head(asked))
  BY <1>1 DEF SegmentsInv, Socket, PlannerAsks, ByPlanner
<1>4. /\ pcb \in Procs /\ state[pcb] = "EXEC" /\ pcb \in open
      /\ planning # "end"
  BY <1>3 DEF MainAsks, SegmentsInv, Types, TypeOK, Threads, Opened
<1>5. \A a \in ToSet(answers) : a.type = "SEGMENTS_TABLE" /\ ~MainHears(a)
  BY <1>2, <1>4 DEF ToPlanner, MainHears
<1>6. \A a \in ToSet(answers) : PlannerHears(a)
  BY <1>5 DEF SegmentsInv, Socket
<1> QED BY <1>3, <1>4, <1>5, <1>6 DEF MainAsks

(* MEM_INIT_PROCESS.                                                       *)
LEMMA ServeInitStep ==
  ASSUME SegmentsInv, Up, asked # <<>>, UNCHANGED <<system, manner, kernelVars, plannerVars>>,
         Head(asked).op = "MEM_INIT_PROCESS", Store!Begin(Head(asked).pcb),
         Reply("SEGMENTS_TABLE", <<Zero>>)
  PROVE  SegmentsInv'
<1>1. PICK r : r = Head(asked)
  OBVIOUS
<1>2. PICK e : e = [type |-> "SEGMENTS_TABLE", content |-> <<Zero>>]
  OBVIOUS
<1>3. ByPlanner(r) /\ ToPlanner(e)
  BY <1>1, <1>2 DEF ByPlanner, ToPlanner
<1>4. /\ PlannerAsks(r) /\ \A a \in ToSet(answers) : MainHears(a)
  BY <1>1, <1>3, ServedForPlanner
<1>5. PICK p : p = planner
  OBVIOUS
<1>6. p = planner /\ planning = "init" /\ r.pcb = p
  BY <1>1, <1>4, <1>5 DEF PlannerAsks
<1>7. /\ p \in Procs /\ state[p] = "NEW"
      /\ \A q \in Procs : state[q] = "NEW" => q = p
  BY <1>6 DEF SegmentsInv, Threads
<1>8. /\ p \notin open /\ open' = open \cup {p} /\ UNCHANGED <<table, deferred, refused>>
  BY <1>1, <1>6 DEF Store!Begin
<1>9. table[p] = <<>>
  BY <1>7, <1>8 DEF SegmentsInv, Opened
<1>10. \A tables : IsSnapshot(tables) => IsSnapshot(tables)'
  <2>1. \A q : MemoryTable(q)' = MemoryTable(q)
    BY <1>8 DEF MemoryTable
  <2> QED BY <1>8, <1>9, <2>1 DEF IsSnapshot
<1>11. \A a \in ToSet(answers) : MainHears(a)'
  BY <1>4, <1>10 DEF MainHears
<1>12. PlannerHears(e)'
  BY <1>2, <1>6 DEF PlannerHears, Zero
<1>13. \A a \in ToSet(answers) : /\ MainHears(a) => MainHears(a)'
                                 /\ PlannerHears(a) => PlannerHears(a)'
  BY <1>6, <1>11 DEF PlannerHears, Zero
<1>14. /\ Socket' /\ asked' \in Seq(Messages) /\ answers' \in Seq(ToSet(answers'))
       /\ ToSet(answers') = ToSet(answers) \cup {e}
       /\ ToSet(asked') = ToSet(asked) \ {r}
  BY <1>1, <1>2, <1>3, <1>12, <1>13, ServeSocket
<1>15. Types'
  BY <1>7, <1>8, <1>14 DEF SegmentsInv, Types, TypeOK
<1>16. Threads'
  BY DEF SegmentsInv, Threads
<1>17. /\ Answered("SEGMENTS_TABLE")'
       /\ \A type : type # "SEGMENTS_TABLE" => (Answered(type)' <=> Answered(type))
  BY <1>2, <1>14 DEF Answered
<1>18. Opened'
  BY <1>7, <1>8, <1>9, <1>17 DEF SegmentsInv, Opened
<1>19. Owes'
  BY <1>8, <1>14, <1>17 DEF SegmentsInv, Owes, Owing
<1>20. CarefulIds'
  BY DEF SegmentsInv, CarefulIds
<1>21. Mirrors'
  BY <1>8, <1>10, <1>17 DEF SegmentsInv, Mirrors, MemoryTable, Expected
<1>22. Transfers'
  BY <1>8 DEF SegmentsInv, Transfers, MemoryAllows, MemoryTable
<1> QED BY <1>14, <1>15, <1>16, <1>18, <1>19, <1>20, <1>21, <1>22 DEF SegmentsInv

(* MEM_END_PROCCESS: the main loop has no process, so nothing is mirrored. *)
LEMMA ServeEndStep ==
  ASSUME SegmentsInv, Up, asked # <<>>, UNCHANGED <<system, manner, kernelVars, plannerVars>>,
         Head(asked).op = "MEM_END_PROCCESS", Store!Finish(Head(asked).pcb),
         Reply("MESSAGE_OK", NULL)
  PROVE  SegmentsInv'
<1>1. PICK r : r = Head(asked)
  OBVIOUS
<1>2. PICK e : e = [type |-> "MESSAGE_OK", content |-> NULL]
  OBVIOUS
<1>3. ByPlanner(r)
  BY <1>1 DEF ByPlanner
<1>4. PlannerAsks(r) /\ \A a \in ToSet(answers) : ~ToPlanner(a)
  BY <1>1, <1>3, ServedForPlanner
<1>5. PICK p : p = ending
  OBVIOUS
<1>6. /\ p = ending /\ planning = "end" /\ r.pcb = p /\ ToPlanner(e)
      /\ ToSet(answers) = {}
  BY <1>1, <1>4, <1>5 DEF PlannerAsks, ToPlanner
<1>7. /\ p \in Procs /\ state[p] = "EXIT_PROCESS" /\ main \in {"plan", "planning"}
  BY <1>6 DEF SegmentsInv, Types, TypeOK, Threads
<1>8. /\ open' = open \ {p} /\ table' = [table EXCEPT ![p] = <<>>] /\ deferred = NULL
      /\ deferred' = NULL
  BY <1>1, <1>6 DEF Store!Finish
<1>9. PlannerHears(e)'
  BY <1>2, <1>6, <1>8 DEF PlannerHears
<1>10. /\ Socket' /\ asked' \in Seq(Messages) /\ answers' \in Seq(ToSet(answers'))
       /\ ToSet(answers') = ToSet(answers) \cup {e}
  BY <1>1, <1>2, <1>3, <1>6, <1>9, ServeSocket
<1>11. Types'
  <2>1. <<>> \in Tables
    BY DEF Tables
  <2> QED BY <1>7, <1>8, <1>10, <2>1 DEF SegmentsInv, Types, TypeOK
<1>12. Threads'
  BY DEF SegmentsInv, Threads
<1>13. ~Answered("SEGMENTS_TABLE")' /\ ~Answered("SEGMENTS_TABLE")
       /\ ~Answered("COMPACT_REQUEST")'
  BY <1>2, <1>6, <1>10 DEF Answered
<1>14. Opened'
  BY <1>7, <1>8, <1>13 DEF SegmentsInv, Types, TypeOK, Opened
<1>15. Owes'
  BY <1>7, <1>8, <1>13 DEF Owes, Owing
<1>16. CarefulIds'
  BY DEF SegmentsInv, CarefulIds
<1>17. Mirrors'
  BY <1>7, <1>8 DEF SegmentsInv, Types, TypeOK, Mirrors, MemoryTable, Expected
<1>18. Transfers'
  BY <1>7, <1>8 DEF SegmentsInv, Types, TypeOK, Transfers, MemoryAllows, MemoryTable
<1> QED BY <1>10, <1>11, <1>12, <1>14, <1>15, <1>16, <1>17, <1>18 DEF SegmentsInv

(* Memory answers the main loop and changes at most the table of its       *)
(* process.                                                                *)
LEMMA ServeMainStep ==
  ASSUME SegmentsInv, Up, asked # <<>>, UNCHANGED <<system, manner, kernelVars, plannerVars>>,
         ~ByPlanner(Head(asked)), NEW type, NEW content, Reply(type, content),
         MainHears([type |-> type, content |-> content])', type # "SEGMENTS_TABLE",
         open' = open, table' \in [Procs -> Tables],
         \A p \in Procs : p # pcb => table'[p] = table[p],
         deferred' # NULL =>
           Creating /\ deferred' = [pid |-> pcb, s_id |-> request.s_id, size |-> request.size],
         type \in {"MESSAGE_OK", "OUT_OF_MEMORY"} => deferred' = NULL,
         type = "COMPACT_REQUEST" \/ main = "compact" => deferred' # NULL,
         IsSubsequence(MemoryTable(pcb)',
                       IF type = "MESSAGE_OK" /\ main # "delete"
                         THEN Append(segments_table[pcb], request) ELSE segments_table[pcb])
  PROVE  SegmentsInv'
<1>1. PICK r : r = Head(asked)
  OBVIOUS
<1>2. PICK e : e = [type |-> type, content |-> content]
  OBVIOUS
<1>3. /\ MainAsks(r) /\ ~ByPlanner(r)
      /\ pcb \in Procs /\ state[pcb] = "EXEC" /\ pcb \in open
      /\ planning # "end"
      /\ \A a \in ToSet(answers) : a.type = "SEGMENTS_TABLE" /\ PlannerHears(a)
  BY <1>1, ServedForMain
<1>4. /\ \A a \in ToSet(answers) : PlannerHears(a)' /\ ~MainHears(a)
      /\ MainHears(e)' /\ ~ToPlanner(e) /\ e.type = type
  BY <1>2, <1>3 DEF PlannerHears, MainHears, ToPlanner, Zero
<1>5. /\ Socket' /\ asked' \in Seq(Messages) /\ answers' \in Seq(ToSet(answers'))
      /\ ToSet(answers') = ToSet(answers) \cup {e}
      /\ ToSet(asked') = ToSet(asked) \ {r}
  BY <1>1, <1>2, <1>3, <1>4, ServeSocket
<1>6. Types'
  BY <1>5 DEF SegmentsInv, Types, TypeOK
<1>7. Threads'
  BY DEF SegmentsInv, Threads
<1>8. /\ Answered("SEGMENTS_TABLE")' <=> Answered("SEGMENTS_TABLE")
      /\ \A x : x # "SEGMENTS_TABLE" => (Answered(x)' <=> type = x)
      /\ \A x : x # "SEGMENTS_TABLE" => ~Answered(x)
  <2>1. \A a \in ToSet(answers') : a \in ToSet(answers) \/ a = e
    BY <1>5
  <2>2. e \in ToSet(answers') /\ \A a \in ToSet(answers) : a \in ToSet(answers')
    BY <1>5
  <2> QED BY <1>3, <1>4, <2>1, <2>2 DEF Answered
<1>9. Opened'
  BY <1>3, <1>8 DEF SegmentsInv, Opened
<1>10. Owes'
  <2>1. \A q \in ToSet(asked') : ByPlanner(q)
    <3>1. r \in ToSet(asked)
      BY <1>1, HeldBy DEF SegmentsInv, Types
    <3> QED BY <1>3, <1>5, <3>1 DEF SegmentsInv, Socket
  <2>2. \A q \in ToSet(asked') : q.op # "MEM_CREATE_SEGMENT"
    BY <2>1 DEF ByPlanner
  <2>3. Owing' => type = "COMPACT_REQUEST" \/ main = "compact"
    BY <1>3, <1>8, <2>2 DEF Owing, MainAsks
  <2> QED BY <1>8, <2>3 DEF Owes
<1>11. CarefulIds'
  BY DEF SegmentsInv, CarefulIds
<1>12. Mirrors'
  <2>1. main \in {"create", "again", "compact", "delete"}
    BY <1>3 DEF MainAsks
  <2>2. /\ Expected(pcb)' = IF type = "MESSAGE_OK" /\ main # "delete"
                              THEN Append(segments_table[pcb], request) ELSE segments_table[pcb]
        /\ \A p \in Procs : p # pcb => Expected(p)' = Expected(p)
    <3>1. type = "MESSAGE_OK" /\ main # "delete" => main \in {"create", "again"}
      BY <2>1 DEF MainHears
    <3> QED BY <1>8, <3>1 DEF Expected
  <2>3. \A p \in Procs : p # pcb => MemoryTable(p)' = MemoryTable(p)
    BY DEF MemoryTable
  <2>4. segments_table[pcb] # NULL
    BY <2>1 DEF SegmentsInv, Mirrors
  <2>5. ASSUME NEW p \in Procs, Lives(p)'
        PROVE  IF segments_table'[p] = NULL THEN table'[p] = <<>>
               ELSE IsSubsequence(MemoryTable(p)', Expected(p)')
    <3>1. CASE p = pcb
      BY <2>2, <2>4, <3>1
    <3>2. CASE p # pcb
      BY <2>2, <2>3, <2>5, <3>2 DEF SegmentsInv, Mirrors
    <3> QED BY <3>1, <3>2
  <2> QED BY <2>1, <2>4, <2>5 DEF Mirrors
<1>13. Transfers'
  BY <1>3 DEF SegmentsInv, Types, TypeOK, Transfers, MemoryAllows, MemoryTable
<1> QED BY <1>5, <1>6, <1>7, <1>9, <1>10, <1>11, <1>12, <1>13 DEF SegmentsInv

(* What is known of the process of the main loop when memory serves it.    *)
LEMMA ServedTable ==
  ASSUME SegmentsInv, Up, asked # <<>>, ~ByPlanner(Head(asked))
  PROVE  /\ MemoryTable(pcb) \in Tables /\ table[pcb] \in Tables
         /\ segments_table[pcb] \in Tables
         /\ IsSubsequence(MemoryTable(pcb), segments_table[pcb])
<1>1. /\ MainAsks(Head(asked)) /\ pcb \in Procs /\ state[pcb] = "EXEC"
      /\ \A a \in ToSet(answers) : a.type = "SEGMENTS_TABLE"
  BY ServedForMain
<1>2. segments_table[pcb] # NULL
  BY <1>1 DEF SegmentsInv, Mirrors, MainAsks
<1>3. Expected(pcb) = segments_table[pcb]
  BY <1>1 DEF Expected, Answered
<1> QED BY <1>1, <1>2, <1>3, MemoryTables DEF SegmentsInv, Types, TypeOK, Mirrors

(* A segment is granted, at once or after the compaction.                  *)
LEMMA ServeGrantStep ==
  ASSUME SegmentsInv, Up, asked # <<>>, UNCHANGED <<system, manner, kernelVars, plannerVars>>,
         Head(asked).op = "MEM_CREATE_SEGMENT", Reply("MESSAGE_OK", NULL),
         open' = open, deferred' = NULL,
         table' = [table EXCEPT ![pcb] =
                     Append(@, [s_id |-> request.s_id, size |-> request.size])]
  PROVE  SegmentsInv'
<1> DEFINE S == [s_id : SegmentIds \cup {0}, size : Nat]
<1>1. ~ByPlanner(Head(asked))
  BY DEF ByPlanner
<1>2. /\ MainAsks(Head(asked)) /\ pcb \in Procs
  BY <1>1, ServedForMain
<1>3. /\ main \in {"create", "again"} /\ request \in [s_id : SegmentIds, size : Sizes]
  BY <1>2 DEF MainAsks, SegmentsInv, Types, TypeOK
<1>4. /\ [s_id |-> request.s_id, size |-> request.size] = request /\ request \in S /\ Zero \in S
  BY <1>3 DEF Zero
<1>5. /\ MemoryTable(pcb) \in Tables /\ table[pcb] \in Tables /\ segments_table[pcb] \in Tables
      /\ IsSubsequence(MemoryTable(pcb), segments_table[pcb])
  BY <1>1, ServedTable
<1>6. Tables = Seq(S)
  BY DEF Tables
<1> HIDE DEF S
<1>7. table'[pcb] = Append(table[pcb], request) /\ table'[pcb] \in Tables
      /\ \A p \in Procs : p # pcb => table'[p] = table[p]
  <2>1. Append(table[pcb], request) \in Tables
    BY <1>4, <1>5, <1>6
  <2>2. table' = [table EXCEPT ![pcb] = Append(table[pcb], request)] /\ DOMAIN table = Procs
    BY <1>4 DEF SegmentsInv, Types, TypeOK
  <2> QED BY <1>2, <2>1, <2>2
<1>8. MemoryTable(pcb)' = Append(MemoryTable(pcb), request)
  <2>1. <<Zero>> \o Append(table[pcb], request) = Append(<<Zero>> \o table[pcb], request)
    <3>1. Zero \in S /\ request \in S /\ table[pcb] \in Seq(S)
      BY <1>4, <1>5, <1>6
    <3> QED BY <3>1, WithZeroAppend
  <2> QED BY <1>7, <2>1 DEF MemoryTable
<1>9. IsSubsequence(MemoryTable(pcb)', Append(segments_table[pcb], request))
  BY <1>4, <1>5, <1>6, <1>8, SubsequenceAppend
<1>10. table' \in [Procs -> Tables]
  BY <1>2, <1>7 DEF SegmentsInv, Types, TypeOK
<1>11. MainHears([type |-> "MESSAGE_OK", content |-> NULL])'
  BY <1>3 DEF MainHears
<1> QED BY <1>1, <1>3, <1>7, <1>9, <1>10, <1>11, ServeMainStep

(* Memory answers the main loop and leaves the tables as they are.         *)
LEMMA ServeOnlyStep ==
  ASSUME SegmentsInv, Up, asked # <<>>, UNCHANGED <<system, manner, kernelVars, plannerVars>>,
         ~ByPlanner(Head(asked)), NEW type, NEW content, Reply(type, content),
         MainHears([type |-> type, content |-> content])', type # "SEGMENTS_TABLE",
         open' = open, table' = table,
         deferred' # NULL =>
           Creating /\ deferred' = [pid |-> pcb, s_id |-> request.s_id, size |-> request.size],
         type = "OUT_OF_MEMORY" => deferred' = NULL, type # "MESSAGE_OK",
         type = "COMPACT_REQUEST" \/ main = "compact" => deferred' # NULL
  PROVE  SegmentsInv'
<1>1. IsSubsequence(MemoryTable(pcb), segments_table[pcb])
  BY ServedTable
<1>2. MemoryTable(pcb)' = MemoryTable(pcb)
  BY DEF MemoryTable
<1>3. /\ table' \in [Procs -> Tables]
      /\ \A p \in Procs : p # pcb => table'[p] = table[p]
  BY DEF SegmentsInv, Types, TypeOK
<1> QED BY <1>1, <1>2, <1>3, ServeMainStep

(* MEM_CREATE_SEGMENT: never deferred a second time.                       *)
LEMMA ServeCreateStep ==
  ASSUME SegmentsInv, Up, asked # <<>>, UNCHANGED <<system, manner, kernelVars, plannerVars>>,
         Head(asked).op = "MEM_CREATE_SEGMENT", MemServeCreate(Head(asked))
  PROVE  SegmentsInv'
<1>1. PICK r : r = Head(asked)
  OBVIOUS
<1>2. ~ByPlanner(r)
  BY <1>1 DEF ByPlanner
<1>3. /\ MainAsks(r) /\ pcb \in Procs
  BY <1>1, <1>2, ServedForMain
<1>4. /\ main \in {"create", "again"} /\ r.pcb = pcb
      /\ r.s_id = request.s_id /\ r.size = request.size
      /\ r \in ToSet(asked) /\ request \in [s_id : SegmentIds, size : Sizes]
  BY <1>1, <1>3, HeldBy DEF MainAsks, SegmentsInv, Types, TypeOK
<1>5. deferred # NULL => deferred = [pid |-> pcb, s_id |-> request.s_id, size |-> request.size]
  BY DEF SegmentsInv, Owes
<1>6. CASE Store!GrantNow(r.pcb, r.s_id, r.size) /\ Reply("MESSAGE_OK", NULL)
  <2>1. /\ open' = open /\ deferred' = NULL
        /\ table' = [table EXCEPT ![pcb] =
                       Append(@, [s_id |-> request.s_id, size |-> request.size])]
    BY <1>4, <1>6 DEF Store!GrantNow, Store!Grant, Store!Idle
  <2> QED BY <1>1, <1>6, <2>1, ServeGrantStep
<1>7. CASE Store!Defer(r.pcb, r.s_id, r.size) /\ Reply("COMPACT_REQUEST", NULL)
  <2>1. /\ open' = open /\ table' = table /\ deferred = NULL
        /\ deferred' = [pid |-> pcb, s_id |-> request.s_id, size |-> request.size]
    BY <1>4, <1>7 DEF Store!Defer, Store!Idle
  <2>2. main = "create"
    BY <1>1, <1>4, <2>1 DEF SegmentsInv, Owes, Owing, MainAsks
  <2>3. deferred' # NULL
    <3>1. deferred' \in [pid : Procs, s_id : SegmentIds, size : Sizes]
      BY <1>3, <1>4, <2>1
    <3> QED BY <3>1
  <2>4. MainHears([type |-> "COMPACT_REQUEST", content |-> NULL])'
    BY <2>2 DEF MainHears
  <2> QED BY <1>1, <1>2, <1>7, <2>1, <2>2, <2>3, <2>4, ServeOnlyStep
<1>8. CASE deferred # NULL /\ Store!GrantDeferred /\ Reply("MESSAGE_OK", NULL)
  <2>1. deferred.pid = pcb /\ deferred.s_id = request.s_id /\ deferred.size = request.size
    BY <1>5, <1>8
  <2>2. /\ open' = open /\ deferred' = NULL
        /\ table' = [table EXCEPT ![pcb] =
                       Append(@, [s_id |-> request.s_id, size |-> request.size])]
    BY <1>8, <2>1 DEF Store!GrantDeferred, Store!Grant
  <2> QED BY <1>1, <1>8, <2>2, ServeGrantStep
<1>9. CASE Store!Refuse(r.pcb, r.size) /\ Reply("OUT_OF_MEMORY", NULL)
  <2>1. /\ open' = open /\ table' = table /\ deferred' = NULL
    BY <1>9 DEF Store!Refuse, Store!Idle
  <2>2. MainHears([type |-> "OUT_OF_MEMORY", content |-> NULL])'
    BY <1>4 DEF MainHears
  <2> QED BY <1>1, <1>2, <1>4, <1>9, <2>1, <2>2, ServeOnlyStep
<1> QED BY <1>1, <1>6, <1>7, <1>8, <1>9 DEF MemServeCreate

(* MEM_COMPACT_ALL: the tables of all.                                     *)
LEMMA ServeCompactStep ==
  ASSUME SegmentsInv, Up, asked # <<>>, UNCHANGED <<system, manner, kernelVars, plannerVars>>,
         Head(asked).op = "MEM_COMPACT_ALL", Reply("ALL_SEGMENTS_TABLES", AllTables),
         UNCHANGED memoryVars
  PROVE  SegmentsInv'
<1>1. ~ByPlanner(Head(asked))
  BY DEF ByPlanner
<1>2. MainAsks(Head(asked))
  BY <1>1, ServedForMain
<1>3. main = "compact"
  BY <1>2 DEF MainAsks
<1>4. deferred # NULL /\ deferred = [pid |-> pcb, s_id |-> request.s_id, size |-> request.size]
  BY <1>3 DEF SegmentsInv, Owes, Owing
<1>5. PICK content : content = AllTables
  OBVIOUS
<1>6. IsSnapshot(content)'
  <2>1. DOMAIN content = open /\ \A p \in open : content[p] = MemoryTable(p)
    BY <1>5 DEF AllTables
  <2> QED BY <2>1 DEF IsSnapshot, MemoryTable
<1>7. MainHears([type |-> "ALL_SEGMENTS_TABLES", content |-> content])'
  BY <1>3, <1>6 DEF MainHears
<1>8. Reply("ALL_SEGMENTS_TABLES", content)
  BY <1>5
<1> QED BY <1>1, <1>3, <1>4, <1>7, <1>8, ServeOnlyStep

(* MEM_DELETE_SEGMENT, of the first segment with the id.                   *)
LEMMA ServeDeleteStep ==
  ASSUME SegmentsInv, Up, asked # <<>>, UNCHANGED <<manner, kernelVars, plannerVars>>,
         Head(asked).op = "MEM_DELETE_SEGMENT", MemServeDelete(Head(asked))
  PROVE  SegmentsInv'
<1>1. PICK r : r = Head(asked)
  OBVIOUS
<1>2. ~ByPlanner(r)
  BY <1>1 DEF ByPlanner
<1>3. /\ MainAsks(r) /\ pcb \in Procs
  BY <1>1, <1>2, ServedForMain
<1>4. main = "delete" /\ r.pcb = pcb
  BY <1>1, <1>3 DEF MainAsks
<1>5. CASE HasId(table[r.pcb], r.s_id)
  <2> DEFINE S == [s_id : SegmentIds \cup {0}, size : Nat]
  <2>1. /\ Store!Delete(pcb, r.s_id) /\ Reply("MESSAGE_OK", NULL) /\ system' = system
    BY <1>1, <1>4, <1>5 DEF MemServeDelete
  <2>2. PICK k \in DOMAIN table[pcb] : table' = [table EXCEPT ![pcb] = Store!RemoveAt(@, k)]
    BY <2>1 DEF Store!Delete
  <2>3. /\ MemoryTable(pcb) \in Tables /\ table[pcb] \in Tables /\ segments_table[pcb] \in Tables
        /\ IsSubsequence(MemoryTable(pcb), segments_table[pcb])
    BY <1>1, <1>2, ServedTable
  <2>4. Tables = Seq(S) /\ Zero \in S
    BY DEF Tables, Zero
  <2> HIDE DEF S
  <2>5. k \in 1 .. Len(table[pcb])
    BY <2>3, <2>4, LenProperties
  <2>6. table' = [table EXCEPT ![pcb] = RemoveAt(table[pcb], k)]
    BY <2>2 DEF RemoveAt, Store!RemoveAt
  <2>7. RemoveAt(table[pcb], k) \in Tables
    BY <2>3, <2>4, <2>5, RemoveAtProperties
  <2>8. /\ table' \in [Procs -> Tables] /\ table'[pcb] = RemoveAt(table[pcb], k)
        /\ \A p \in Procs : p # pcb => table'[p] = table[p]
    BY <1>3, <2>6, <2>7 DEF SegmentsInv, Types, TypeOK
  <2>9. /\ MemoryTable(pcb)' = RemoveAt(MemoryTable(pcb), k + 1)
        /\ k + 1 \in 1 .. Len(MemoryTable(pcb))
    <3>1. PICK x : x = table[pcb]
      OBVIOUS
    <3>2. Zero \in S /\ x \in Seq(S) /\ k \in 1 .. Len(x)
      BY <2>3, <2>4, <2>5, <3>1
    <3>3. k + 1 \in 1 .. Len(<<Zero>> \o x)
      BY <3>2, WithZeroRemove
    <3>4. <<Zero>> \o RemoveAt(x, k) = RemoveAt(<<Zero>> \o x, k + 1)
      BY <3>2, WithZeroRemove
    <3> QED BY <2>8, <3>1, <3>3, <3>4 DEF MemoryTable
  <2>10. IsSubsequence(MemoryTable(pcb)', segments_table[pcb])
    BY <2>3, <2>4, <2>9, SubsequenceRemove
  <2>11. open' = open /\ deferred' = NULL
    BY <2>1 DEF Store!Delete, Store!Idle
  <2>12. MainHears([type |-> "MESSAGE_OK", content |-> NULL])'
    BY <1>4 DEF MainHears
  <2> QED BY <1>1, <1>2, <1>4, <2>1, <2>8, <2>10, <2>11, <2>12, ServeMainStep
<1>6. CASE ~HasId(table[r.pcb], r.s_id)
  <2>1. Types' /\ ~Up'
    BY <1>1, <1>6 DEF MemServeDelete, SegmentsInv, Types, TypeOK
  <2> QED BY <2>1, EndedStep
<1> QED BY <1>5, <1>6

(* Memory serves the first request.                                        *)
LEMMA MemServeStep ==
  ASSUME SegmentsInv, MemServe
  PROVE  SegmentsInv'
<1>1. Up /\ asked # <<>> /\ UNCHANGED <<manner, kernelVars, plannerVars>>
  BY DEF MemServe
<1>2. CASE /\ Head(asked).op = "MEM_INIT_PROCESS"
           /\ Store!Begin(Head(asked).pcb) /\ Reply("SEGMENTS_TABLE", <<Zero>>) /\ UNCHANGED system
  BY <1>1, <1>2, ServeInitStep
<1>3. CASE /\ Head(asked).op = "MEM_END_PROCCESS"
           /\ TableGoes(Head(asked).pcb) /\ Reply("MESSAGE_OK", NULL) /\ UNCHANGED system
  BY <1>1, <1>3, ServeEndStep DEF TableGoes
<1>4. CASE Head(asked).op = "MEM_CREATE_SEGMENT" /\ MemServeCreate(Head(asked)) /\ UNCHANGED system
  BY <1>1, <1>4, ServeCreateStep
<1>5. CASE /\ Head(asked).op = "MEM_COMPACT_ALL"
           /\ Reply("ALL_SEGMENTS_TABLES", AllTables) /\ UNCHANGED <<memoryVars, system>>
  BY <1>1, <1>5, ServeCompactStep
<1>6. CASE Head(asked).op = "MEM_DELETE_SEGMENT" /\ MemServeDelete(Head(asked))
  BY <1>1, <1>6, ServeDeleteStep
<1> QED BY <1>2, <1>3, <1>4, <1>5, <1>6 DEF MemServe

-----------------------------------------------------------------------------
(* The invariant of Segments.                                              *)
LEMMA SegmentsInvInit ==
  ASSUME Init
  PROVE  SegmentsInv
<1>1. /\ ToSet(asked) = {} /\ ToSet(answers) = {} /\ IsInjective(asked) /\ IsInjective(answers)
      /\ asked \in Seq(Messages) /\ answers \in Seq(ToSet(answers))
  BY DEF Init, ToSet, IsInjective
<1>2. <<>> \in Tables /\ IdsOnce(<<>>)
  BY DEF Tables, IdsOnce
<1>3. Types
  BY <1>1, <1>2 DEF Init, Store!Init, Types, TypeOK
<1>4. Socket /\ Owes /\ CarefulIds
  BY <1>1, <1>2 DEF Init, Store!Init, Socket, Owes, Owing, Answered, CarefulIds
<1>5. Threads /\ Mirrors /\ Transfers
  BY DEF Init, Threads, Mirrors, Transfers
<1>6. Opened
  BY <1>1 DEF Init, Store!Init, Opened, Answered
<1> QED BY <1>3, <1>4, <1>5, <1>6 DEF SegmentsInv

(* Every step keeps it.                                                    *)
LEMMA SegmentsInvNext ==
  ASSUME SegmentsInv, [Next]_vars
  PROVE  SegmentsInv'
<1>1. CASE Cpu
  <2>1. CASE Yield \/ Exit
    BY <2>1, YieldStep, ExitStep
  <2>2. CASE \E address \in Addresses, size \in AccessSizes :
               \/ MmuFails(address, size) \/ MovIn(address, size) \/ FReadWrite(address, size)
               \/ \E strlen \in 0 .. MaxSegmentSize : MovOut(address, size, strlen)
    BY <2>2, MmuFailsStep, MovInStep, FReadWriteStep, MovOutStep
  <2>3. CASE \/ \E s_id \in SegmentIds, size \in Sizes : Create(s_id, size)
             \/ \E s_id \in SegmentIds : DeleteSegment(s_id)
    BY <2>3, CreateStep, DeleteSegmentStep
  <2> QED BY <1>1, <2>1, <2>2, <2>3 DEF Cpu
<1>2. CASE Planner
  BY <1>2, MainPlansStep, EndAnswerStep, NoneEndedStep, InitAnswerStep, ArriveStep, LookEndedStep
  DEF Planner
<1>3. CASE MemServe \/ CreateAnswer \/ CompactAnswer \/ Refresh \/ DeleteAnswer
  BY <1>3, MemServeStep, CreateAnswerStep, CompactAnswerStep, RefreshStep, DeleteAnswerStep
<1>4. CASE \E p \in Procs : Pick(p)
  BY <1>4, PickStep
<1>5. CASE \E t \in transfers : Transfer(t)
  BY <1>5, TransferStep
<1>6. CASE UNCHANGED vars
  BY <1>6, NothingChanges
<1> QED BY <1>1, <1>2, <1>3, <1>4, <1>5, <1>6 DEF Next

(* The invariant holds in every state.                                     *)
THEOREM TablesInvariant == Spec => []SegmentsInv
BY SegmentsInvInit, SegmentsInvNext, PTL DEF Spec

(* Type correctness, for any processes, ids, sizes and accesses.           *)
THEOREM SegmentsAreTyped == Spec => []TypeOK
<1>1. SegmentsInv => TypeOK
  BY DEF SegmentsInv, Types
<1> QED BY <1>1, TablesInvariant, PTL

(* For a careful process the mmu and memory agree on every access,         *)
(* although the copy the CPU translates with keeps what was deleted and is *)
(* refreshed only by the compactions of others.                            *)
THEOREM CpuAndMemoryAgree == Spec => []MmuIsExact
<1>1. SegmentsInv => MmuIsExact
  <2> SUFFICES ASSUME SegmentsInv, Up, Careful, main = "cpu",
                      NEW address \in Addresses, NEW size \in 1 .. MaxSegmentSize,
                      HasId(MemoryTable(pcb), SidOf(address))
               PROVE  /\ MmuFindsSegment(address, size)
                      /\ MmuAllows(address, size)
                           <=> MemoryAllows(pcb, SidOf(address), OffsetOf(address), size)
    BY DEF MmuIsExact
  <2>1. /\ pcb \in open /\ HasId(segments_table[pcb], SidOf(address))
        /\ BySid(MemoryTable(pcb), SidOf(address)) = BySid(segments_table[pcb], SidOf(address))
    BY CpuAgrees
  <2> QED BY <2>1 DEF MmuFindsSegment, MmuAllows, MemoryAllows
<1> QED BY <1>1, TablesInvariant, PTL

(* What the mmu let F_READ and F_WRITE do is still allowed when the file   *)
(* system gets to memory, whatever happened in between.                    *)
THEOREM TransfersStayAllowed == Spec => []TransfersFit
<1>1. SegmentsInv => TransfersFit
  BY DEF SegmentsInv, Transfers, TransfersFit
<1> QED BY <1>1, TablesInvariant, PTL

(* The tables of the kernel never lose a segment that memory has, however  *)
(* careless the processes are; only one admitted during a compaction and   *)
(* still without segments of its own can be left without a table.          *)
THEOREM NoSegmentIsForgotten == Spec => []NothingForgotten
<1>1. SegmentsInv => NothingForgotten
  BY DEF SegmentsInv, Mirrors, Expected, NothingForgotten, Settled
<1> QED BY <1>1, TablesInvariant, PTL

(* Memory has a table for every process that lives, and none for one that  *)
(* has ended or never came.                                                *)
THEOREM MemoryKeepsTheLiving == Spec => []TablesOfTheLiving
<1>1. SegmentsInv => TablesOfTheLiving
  BY DEF SegmentsInv, Opened, TablesOfTheLiving
<1> QED BY <1>1, TablesInvariant, PTL
=============================================================================
