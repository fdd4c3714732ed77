---------------------------- MODULE MemoriaProofs ---------------------------
(***************************************************************************)
(* What the operators of Memoria keep of a sound memory structure: those on *)
(* the hole list, those on ram and the tables, and the four that a request *)
(* performs (create, delete, the end of a process, compaction).  A step of *)
(* a fold keeps what the fold is to keep; FoldLemmas does the rest.  Then   *)
(* the theorems: every request keeps MemoryInv, and what the runs check of  *)
(* memory follows from it, SegmentStore among it; and at the end the bytes  *)
(* of MemoriaData.                                                          *)
(***************************************************************************)
EXTENDS MemoriaData, MemoriaInvariant, QueueLemmas, FiniteSetTheorems, WellFoundedInduction

HoleSize(context, h) == h.size
SizeIn(segment, s) == segment[s].offset
FitOp(c, best, k) ==
  IF /\ c.holes[k].size >= c.size
     /\ best = 0 \/ Beats(c.alg, c.holes[k].size, c.holes[best].size)
    THEN k ELSE best
MergeOp(context, acc, hole) == MergeStep(acc, hole)
MoveOp(context, acc, s) == MoveStep(acc, s)
DropLast(acc, pid) ==
  DeleteSegmentAt(acc, pid, IndexInTable(acc, pid, acc.segment[Last(acc.table[pid])].s_id))
DropOp(pid, acc, s) == DropLast(acc, pid)

HoleSum == INSTANCE SumLemmas WITH f <- HoleSize
SegmentSum == INSTANCE SumLemmas WITH f <- SizeIn
Fitting == INSTANCE FoldLemmas WITH op <- FitOp
Merging == INSTANCE FoldLemmas WITH op <- MergeOp
Moving == INSTANCE FoldLemmas WITH op <- MoveOp
Dropping == INSTANCE FoldLemmas WITH op <- DropOp

-----------------------------------------------------------------------------
(* The operators of the module as instances of the general folds.          *)

(* What the holes add up to.                                               *)
LEMMA HoleSumIs ==
  ASSUME NEW holes
  PROVE  SumOfHoles(holes) = HoleSum!SeqSum(0, holes)
BY DEF SumOfHoles, HoleSum!SeqSum, FoldLeft, HoleSum!FoldLeft, MapThenFoldSet,
       HoleSum!MapThenFoldSet, Max, HoleSum!Max, HoleSize

(* What segments add up to.                                                *)
LEMMA SegmentSumIs ==
  ASSUME NEW segment, NEW S
  PROVE  SumOfSegments(segment, S) = SegmentSum!SetSum(segment, S)
BY DEF SumOfSegments, SegmentSum!SetSum, MapThenSumSet, SegmentSum!MapThenSumSet,
       MapThenFoldSet, SegmentSum!MapThenFoldSet, SizeIn

(* The three searches for a hole.                                          *)
LEMMA FitIs ==
  ASSUME NEW alg, NEW holes, NEW size
  PROVE  Fit(alg, holes, size)
           = Fitting!Folded([alg |-> alg, holes |-> holes, size |-> size], 0,
                            [k \in DOMAIN holes |-> k])
BY DEF Fit, FoldLeftDomain, Fitting!Folded, FoldLeft, MapThenFoldSet,
       Fitting!MapThenFoldSet, Max, Fitting!Greatest, FitOp

(* compact_hole_list.                                                      *)
LEMMA CompactHoleListIs ==
  ASSUME NEW holes
  PROVE  CompactHoleList(holes)
           = Merging!Folded(0, [holes |-> <<>>, skip |-> 1], holes).holes
BY DEF CompactHoleList, Merging!Folded, FoldLeft, MapThenFoldSet,
       Merging!MapThenFoldSet, Max, Merging!Greatest, MergeOp

(* compact_memory.                                                         *)
LEMMA CompactMemoryIs ==
  ASSUME NEW m
  PROVE  LET moved == Moving!Folded(0, [segment |-> m.segment, end |-> ZeroSize],
                                    Tail(SortedRam(m))) IN
         CompactMemory(m) =
           [m EXCEPT !.segment = moved.segment,
                     !.ram = SortedRam(m),
                     !.hole_list = <<LastHole(moved.end, m.remaining)>>]
BY DEF CompactMemory, Moving!Folded, FoldLeft, MapThenFoldSet,
       Moving!MapThenFoldSet, Max, Moving!Greatest, MoveOp

(* remove_sg_table.                                                        *)
LEMMA RemoveSgTableIs ==
  ASSUME NEW m, NEW pid
  PROVE  RemoveSgTable(m, pid) =
           [Dropping!Folded(pid, m, Tail(m.table[pid])) EXCEPT !.table[pid] = <<>>]
BY DEF RemoveSgTable, Dropping!Folded, FoldLeft, MapThenFoldSet,
       Dropping!MapThenFoldSet, Max, Dropping!Greatest, DropOp, DropLast

-----------------------------------------------------------------------------
(* Fit.  best is the hole for the request among the first n of the list.   *)
FitAmong(alg, holes, size, best, n) ==
  /\ best \in 0 .. n
  /\ best = 0 => \A j \in 1 .. n : holes[j].size < size
  /\ best # 0 =>
       /\ holes[best].size >= size
       /\ \A j \in 1 .. n : holes[j].size >= size =>
            /\ alg = "BEST" => holes[best].size <= holes[j].size
            /\ alg = "WORST" => holes[best].size >= holes[j].size
            /\ alg = "FIRST" => best <= j

(* The next hole is taken if it is better than the best so far.            *)
LEMMA FitStep ==
  ASSUME NEW alg, NEW holes \in Seq(Holes), NEW size \in Nat,
         NEW n \in Nat, n + 1 <= Len(holes), NEW best,
         FitAmong(alg, holes, size, best, n)
  PROVE  FitAmong(alg, holes, size,
           FitOp([alg |-> alg, holes |-> holes, size |-> size], best, n + 1), n + 1)
<1> DEFINE c == [alg |-> alg, holes |-> holes, size |-> size]
           next == FitOp(c, best, n + 1)
<1>1. /\ \A j \in 1 .. n + 1 : holes[j].size \in Nat
      /\ \A j \in 1 .. n + 1 : j \in 1 .. n \/ j = n + 1
  <2>1. \A j \in 1 .. Len(holes) : holes[j] \in Holes
    BY AppendHeadTail
  <2>2. \A j \in 1 .. n + 1 : j \in 1 .. Len(holes) /\ (j \in 1 .. n \/ j = n + 1)
    BY AppendHeadTail
  <2> QED BY <2>1, <2>2 DEF Holes
<1>2. next = IF /\ holes[n + 1].size >= size
                /\ best = 0 \/ Beats(alg, holes[n + 1].size, holes[best].size)
               THEN n + 1 ELSE best
  BY DEF FitOp
<1> SUFFICES FitAmong(alg, holes, size, next, n + 1)
  OBVIOUS
<1> HIDE DEF next, c
<1>3. best \in 0 .. n /\ n + 1 \in 0 .. n + 1 /\ n + 1 # 0 /\ best \in 0 .. n + 1
  BY DEF FitAmong
<1>4. CASE holes[n + 1].size < size
  <2>1. next = best
    BY <1>1, <1>2, <1>4
  <2>2. best = 0 => \A j \in 1 .. n + 1 : holes[j].size < size
    BY <1>1, <1>4 DEF FitAmong
  <2>3. ASSUME best # 0
        PROVE  /\ holes[best].size >= size
               /\ \A j \in 1 .. n + 1 : holes[j].size >= size => j \in 1 .. n
    <3>1. n + 1 \in 1 .. n + 1
      OBVIOUS
    <3> QED BY <1>1, <1>4, <2>3, <3>1 DEF FitAmong
  <2> QED BY <1>3, <2>1, <2>2, <2>3 DEF FitAmong
<1>5. CASE holes[n + 1].size >= size /\ best = 0
  <2>1. next = n + 1
    BY <1>2, <1>5
  <2>2. \A j \in 1 .. n : holes[j].size < size
    BY <1>5 DEF FitAmong
  <2>3. \A j \in 1 .. n + 1 : holes[j].size >= size => j = n + 1
    BY <1>1, <2>2
  <2>4. holes[n + 1].size \in Nat
    BY <1>1
  <2>5. \A j \in 1 .. n + 1 : holes[j].size >= size =>
          holes[n + 1].size <= holes[j].size /\ holes[n + 1].size >= holes[j].size
            /\ n + 1 <= j
    BY <2>3, <2>4
  <2> QED BY <1>3, <1>5, <2>1, <2>5 DEF FitAmong
<1>6. CASE holes[n + 1].size >= size /\ best # 0
  <2>1. best \in 1 .. n + 1 /\ n + 1 \in 1 .. n + 1 /\ best <= n + 1
    BY <1>3, <1>6
  <2>2. holes[best].size \in Nat /\ holes[n + 1].size \in Nat
    BY <1>1, <2>1
  <2>3. /\ holes[best].size >= size
        /\ \A j \in 1 .. n : holes[j].size >= size =>
            /\ alg = "BEST" => holes[best].size <= holes[j].size
            /\ alg = "WORST" => holes[best].size >= holes[j].size
            /\ alg = "FIRST" => best <= j
    BY <1>6 DEF FitAmong
  <2>4. CASE Beats(alg, holes[n + 1].size, holes[best].size)
    <3>1. next = n + 1 /\ alg # "FIRST"
      BY <1>2, <1>6, <2>4 DEF Beats
    <3>2. ASSUME NEW j \in 1 .. n + 1, holes[j].size >= size
          PROVE  /\ alg = "BEST" => holes[n + 1].size <= holes[j].size
                 /\ alg = "WORST" => holes[n + 1].size >= holes[j].size
      <4>1. CASE j = n + 1
        BY <2>2, <4>1
      <4>2. CASE j \in 1 .. n
        <5>1. holes[j].size \in Nat
          BY <1>1
        <5>2. /\ alg = "BEST" => /\ holes[best].size <= holes[j].size
                                 /\ holes[n + 1].size < holes[best].size
              /\ alg = "WORST" => /\ holes[best].size >= holes[j].size
                                  /\ holes[n + 1].size > holes[best].size
          BY <2>3, <2>4, <3>2, <4>2 DEF Beats
        <5> QED BY <2>2, <5>1, <5>2
      <4> QED BY <1>1, <4>1, <4>2
    <3> QED BY <1>3, <1>6, <3>1, <3>2 DEF FitAmong
  <2>5. CASE ~Beats(alg, holes[n + 1].size, holes[best].size)
    <3>1. next = best
      BY <1>2, <1>6, <2>5
    <3>2. ASSUME NEW j \in 1 .. n + 1, holes[j].size >= size
          PROVE  /\ alg = "BEST" => holes[best].size <= holes[j].size
                 /\ alg = "WORST" => holes[best].size >= holes[j].size
                 /\ alg = "FIRST" => best <= j
      <4>1. CASE j = n + 1
        BY <2>1, <2>2, <2>5, <4>1 DEF Beats
      <4>2. CASE j \in 1 .. n
        BY <2>3, <3>2, <4>2
      <4> QED BY <1>1, <4>1, <4>2
    <3> QED BY <1>3, <1>6, <2>3, <3>1, <3>2 DEF FitAmong
  <2> QED BY <2>4, <2>5
<1>7. holes[n + 1].size \in Nat
  <2>1. n + 1 \in 1 .. n + 1
    OBVIOUS
  <2> QED BY <1>1, <1>2, <2>1
<1> QED BY <1>4, <1>5, <1>6, <1>7

(* What first_fit, best_fit and worst_fit return, for every list of holes. *)
LEMMA FitIsRight ==
  ASSUME NEW alg, NEW holes \in Seq(Holes), NEW size \in Nat
  PROVE  FitAmong(alg, holes, size, Fit(alg, holes, size), Len(holes))
<1> DEFINE c == [alg |-> alg, holes |-> holes, size |-> size]
           n == Len(holes)
           ks == [k \in DOMAIN holes |-> k]
<1>1. n \in Nat /\ ks \in Seq(Nat) /\ Len(ks) = n /\ \A k \in 1 .. n : ks[k] = k
  BY LenProperties
<1> HIDE DEF ks
<1>2. PICK F : Fitting!Folding(F, c, 0, ks)
  <2> HIDE DEF c
  <2> QED BY <1>1, Fitting!FoldSteps
<1> HIDE DEF n, c
<1>8. /\ F[0] = 0
      /\ \A k \in 1 .. n : F[k] = FitOp(c, F[k - 1], ks[k])
      /\ Fitting!Folded(c, 0, ks) = F[n]
  BY <1>1, <1>2 DEF Fitting!Folding
<1>3. Fit(alg, holes, size) = F[n]
  BY <1>8, FitIs DEF ks, c
<1> DEFINE T == {k \in Nat : k <= n => FitAmong(alg, holes, size, F[k], k)}
<1>4. 0 \in T
  BY <1>8 DEF FitAmong
<1>5. ASSUME NEW k \in T PROVE k + 1 \in T
  <2>1. SUFFICES ASSUME k + 1 <= n
                 PROVE  FitAmong(alg, holes, size, F[k + 1], k + 1)
    OBVIOUS
  <2>2. k + 1 \in 1 .. n /\ (k + 1) - 1 = k /\ k \in Nat /\ k <= n
    BY <1>1, <2>1
  <2>3. F[k + 1] = FitOp(c, F[k], k + 1)
    BY <1>1, <1>8, <2>2
  <2>4. FitAmong(alg, holes, size, F[k], k)
    BY <2>2
  <2> QED BY <2>1, <2>2, <2>3, <2>4, FitStep DEF c, n
<1>6. T = Nat
  <2>1. T \in SUBSET Nat
    OBVIOUS
  <2> HIDE DEF T
  <2> QED BY <1>4, <1>5, <2>1, Fitting!NatSetInduction
<1>7. FitAmong(alg, holes, size, F[n], n)
  BY <1>1, <1>6
<1> QED BY <1>3, <1>7 DEF n

-----------------------------------------------------------------------------
(* The hole list.                                                          *)

(* What is apart from two adjacent pieces is apart from both together, and *)
(* what is apart from a piece is apart from any part of it.                *)
LEMMA ApartFromBoth ==
  ASSUME NEW b \in Nat, NEW m \in Nat \ {0}, NEW c \in Nat, NEW k \in Nat, NEW l \in Nat,
         Apart(b, m, c, k), Apart(b, m, c + k, l)
  PROVE  Apart(b, m, c, k + l)
BY DEF Apart

LEMMA ApartFromPart ==
  ASSUME NEW b \in Nat, NEW m \in Nat, NEW c \in Nat, NEW k \in Nat,
         NEW d \in Nat, NEW l \in Nat, c <= d, d + l <= c + k, Apart(b, m, c, k)
  PROVE  Apart(b, m, d, l) /\ Apart(d, l, b, m)
BY DEF Apart

(* The sum of the holes when one is added, removed or changed.             *)
LEMMA SumOfHolesSteps ==
  ASSUME NEW holes \in Seq(Holes)
  PROVE  /\ SumOfHoles(holes) \in Nat
         /\ \A h \in Holes : SumOfHoles(Append(holes, h)) = SumOfHoles(holes) + h.size
         /\ \A k \in 1 .. Len(holes) :
              /\ SumOfHoles(RemoveAt(holes, k)) = SumOfHoles(holes) - holes[k].size
              /\ \A h \in Holes : SumOfHoles([holes EXCEPT ![k] = h])
                                    = SumOfHoles(holes) - holes[k].size + h.size
<1>1. \A h \in Holes : HoleSize(0, h) \in Nat
  BY DEF Holes, HoleSize
<1>2. HoleSum!SeqSum(0, holes) \in Nat
  BY <1>1, HoleSum!SeqSumType DEF HoleSize
<1>3. ASSUME NEW h \in Holes
      PROVE  HoleSum!SeqSum(0, Append(holes, h)) = HoleSum!SeqSum(0, holes) + h.size
  BY <1>1, HoleSum!SeqSumAppend DEF HoleSize
<1>4. ASSUME NEW k \in 1 .. Len(holes)
      PROVE  HoleSum!SeqSum(0, RemoveAt(holes, k)) = HoleSum!SeqSum(0, holes) - holes[k].size
  <2>1. holes \in Seq(Holes) /\ \A h \in Holes : HoleSize(0, h) \in Nat
    BY <1>1
  <2>2. HoleSum!SeqSum(0, RemoveAt(holes, k))
          = HoleSum!SeqSum(0, holes) - HoleSize(0, holes[k])
    BY <2>1, HoleSum!SeqSumRemoveAt DEF HoleSize, RemoveAt, HoleSum!RemoveAt
  <2> QED BY <2>2 DEF HoleSize
<1>5. ASSUME NEW k \in 1 .. Len(holes), NEW h \in Holes
      PROVE  HoleSum!SeqSum(0, [holes EXCEPT ![k] = h])
               = HoleSum!SeqSum(0, holes) - holes[k].size + h.size
  BY <1>1, HoleSum!SeqSumUpdate DEF HoleSize
<1> QED BY <1>2, <1>3, <1>4, <1>5, HoleSumIs

(* What a segment takes of a hole: the hole shrinks or goes, and no other  *)
(* piece of memory that was apart from the holes is touched.               *)
LEMMA HoleTakenKeeps ==
  ASSUME NEW holes \in Seq(Holes), NEW k \in 1 .. Len(holes),
         NEW size \in Nat \ {0}, holes[k].size >= size
  PROVE  LET taken == HoleTaken(holes, k, size) IN
         /\ taken \in Seq(Holes)
         /\ SumOfHoles(taken) = SumOfHoles(holes) - size
         /\ SumOfHoles(holes) >= size
         /\ HolesApart(holes) => HolesApart(taken)
         /\ HolesInside(holes) => HolesInside(taken)
         /\ \A b, n \in Nat : ApartFromHoles(holes, b, n) => ApartFromHoles(taken, b, n)
         /\ HolesApart(holes) => ApartFromHoles(taken, holes[k].base, size)
<1> DEFINE n == Len(holes)
           taken == HoleTaken(holes, k, size)
           left == [base |-> holes[k].base + size, size |-> holes[k].size - size]
<1>1. /\ n \in Nat /\ \A j \in 1 .. n : holes[j] \in Holes
  BY AppendHeadTail
<1>2. \A j \in 1 .. n : holes[j].base \in Nat /\ holes[j].size \in Nat /\ holes[j].size # 0
  BY <1>1 DEF Holes
<1>3. SumOfHoles(holes) \in Nat
  BY SumOfHolesSteps
<1>4. CASE holes[k].size = size
  <2>1. taken = RemoveAt(holes, k)
    BY <1>4 DEF HoleTaken
  <2>2. /\ taken \in Seq(Holes) /\ Len(taken) = n - 1
        /\ \A j \in 1 .. n - 1 : taken[j] = IF j < k THEN holes[j] ELSE holes[j + 1]
    BY <2>1, RemoveAtProperties
  <2>3. SumOfHoles(taken) = SumOfHoles(holes) - size /\ SumOfHoles(taken) \in Nat
    BY <1>4, <2>1, <2>2, SumOfHolesSteps
  <2>4. SumOfHoles(holes) >= size
    BY <1>3, <2>3
  <2> DEFINE At(j) == IF j < k THEN j ELSE j + 1
  <2>5. \A j \in 1 .. n - 1 : At(j) \in 1 .. n /\ At(j) # k /\ taken[j] = holes[At(j)]
    BY <1>1, <2>2
  <2>6. \A i, j \in 1 .. n - 1 : i # j => At(i) # At(j)
    BY <1>1
  <2> HIDE DEF At, taken
  <2>7. HolesApart(holes) => HolesApart(taken)
    BY <2>2, <2>5, <2>6 DEF HolesApart
  <2>8. HolesInside(holes) => HolesInside(taken)
    BY <2>2, <2>5 DEF HolesInside
  <2>9. \A b, m \in Nat : ApartFromHoles(holes, b, m) => ApartFromHoles(taken, b, m)
    BY <2>2, <2>5 DEF ApartFromHoles
  <2>10. HolesApart(holes) => ApartFromHoles(taken, holes[k].base, size)
    BY <1>4, <2>2, <2>5 DEF HolesApart, ApartFromHoles
  <2> QED BY <2>2, <2>3, <2>4, <2>7, <2>8, <2>9, <2>10 DEF taken
<1>5. CASE holes[k].size # size
  <2>0. /\ holes[k].base \in Nat /\ holes[k].size \in Nat
        /\ holes[k].base + size \in Nat /\ holes[k].size - size \in Nat \ {0}
    BY <1>2, <1>5
  <2>1. holes[k].size - size \in Nat \ {0} /\ left \in Holes
    BY <2>0 DEF Holes
  <2>2. taken = [holes EXCEPT ![k] = left]
    BY <1>5 DEF HoleTaken
  <2>3. /\ taken \in Seq(Holes) /\ Len(taken) = n
        /\ \A j \in 1 .. n : taken[j] = IF j = k THEN left ELSE holes[j]
    BY <2>1, <2>2, ExceptSeq
  <2>4. /\ SumOfHoles(taken) = SumOfHoles(holes) - holes[k].size + left.size
        /\ SumOfHoles(taken) \in Nat
    <3>1. \A h \in Holes : SumOfHoles([holes EXCEPT ![k] = h])
                            = SumOfHoles(holes) - holes[k].size + h.size
      BY SumOfHolesSteps
    <3>2. SumOfHoles(taken) = SumOfHoles(holes) - holes[k].size + left.size
      <4> HIDE DEF taken, left
      <4> QED BY <2>1, <2>2, <3>1
    <3>3. SumOfHoles(taken) \in Nat
      <4> HIDE DEF taken, left
      <4> QED BY <2>3, SumOfHolesSteps
    <3> QED BY <3>2, <3>3
  <2>5. SumOfHoles(taken) = SumOfHoles(holes) - size /\ SumOfHoles(holes) >= size
    BY <1>2, <1>3, <2>1, <2>4
  <2>6. /\ taken[k].base = holes[k].base + size /\ taken[k].size = holes[k].size - size
        /\ \A j \in 1 .. n : j # k => taken[j] = holes[j]
    BY <2>3
  <2>11. taken[k].base + taken[k].size = holes[k].base + holes[k].size
    BY <2>0, <2>6
  <2> HIDE DEF taken, left, n
  (* What is apart from the hole is apart from what is left of it.         *)
  <2>12. \A b, m \in Nat : Apart(b, m, holes[k].base, holes[k].size) =>
           Apart(b, m, taken[k].base, taken[k].size)
    <3> SUFFICES ASSUME NEW b \in Nat, NEW m \in Nat, Apart(b, m, holes[k].base, holes[k].size)
                 PROVE  Apart(b, m, taken[k].base, taken[k].size)
      OBVIOUS
    <3>1. /\ taken[k].base \in Nat /\ taken[k].size \in Nat /\ holes[k].base <= taken[k].base
          /\ taken[k].base + taken[k].size <= holes[k].base + holes[k].size
      BY <2>0, <2>6, <2>11
    <3> DEFINE c == holes[k].base
               e == holes[k].size
               d == taken[k].base
               l == taken[k].size
    <3>2. /\ c \in Nat /\ e \in Nat /\ d \in Nat /\ l \in Nat /\ c <= d /\ d + l <= c + e
          /\ Apart(b, m, c, e)
      BY <2>0, <3>1
    <3> HIDE DEF c, e, d, l
    <3>3. Apart(b, m, d, l)
      BY <3>2, ApartFromPart
    <3> QED BY <3>3 DEF d, l
  <2>9. \A b, m \in Nat : ApartFromHoles(holes, b, m) => ApartFromHoles(taken, b, m)
    BY <2>3, <2>6, <2>12 DEF ApartFromHoles, n
  <2>13. \A i, j \in 1 .. n : Apart(holes[i].base, holes[i].size, holes[j].base, holes[j].size)
           <=> Apart(holes[j].base, holes[j].size, holes[i].base, holes[i].size)
    BY DEF Apart
  <2>7. HolesApart(holes) => HolesApart(taken)
    <3> SUFFICES ASSUME HolesApart(holes), NEW i \in 1 .. n, NEW j \in 1 .. n, i # j
                 PROVE  Apart(taken[i].base, taken[i].size, taken[j].base, taken[j].size)
      BY <2>3 DEF HolesApart, n
    <3>1. Apart(holes[i].base, holes[i].size, holes[j].base, holes[j].size)
      BY DEF HolesApart, n
    <3>2. CASE i # k /\ j # k
      BY <2>6, <3>1, <3>2
    <3>3. CASE j = k
      <4>1. taken[i] = holes[i]
        BY <2>6, <3>3
      <4> QED BY <1>2, <2>12, <3>1, <3>3, <4>1 DEF n
    <3>4. CASE i = k
      <4>1. taken[j] = holes[j] /\ Apart(holes[j].base, holes[j].size, holes[k].base, holes[k].size)
        BY <2>6, <2>13, <3>1, <3>4
      <4>2. Apart(holes[j].base, holes[j].size, taken[k].base, taken[k].size)
        BY <1>2, <2>12, <4>1 DEF n
      <4> QED BY <3>4, <4>1, <4>2 DEF Apart
    <3> QED BY <3>2, <3>3, <3>4
  <2>8. HolesInside(holes) => HolesInside(taken)
    BY <2>3, <2>6, <2>11 DEF HolesInside, n
  <2>10. HolesApart(holes) => ApartFromHoles(taken, holes[k].base, size)
    <3> SUFFICES ASSUME HolesApart(holes), NEW j \in 1 .. n
                 PROVE  Apart(holes[k].base, size, taken[j].base, taken[j].size)
      BY <2>3 DEF ApartFromHoles, n
    <3>1. CASE j = k
      BY <2>0, <2>6, <3>1 DEF Apart
    <3>2. CASE j # k
      <4>1. Apart(holes[k].base, holes[k].size, holes[j].base, holes[j].size)
        BY <3>2 DEF HolesApart, n
      <4>2. taken[j] = holes[j] /\ holes[j].base \in Nat /\ holes[j].size \in Nat
        BY <1>2, <2>6, <3>2 DEF n
      <4>3. Apart(holes[j].base, holes[j].size, holes[k].base, holes[k].size)
        BY <4>1 DEF Apart
      <4>4. holes[k].base <= holes[k].base /\ holes[k].base + size <= holes[k].base + holes[k].size
        BY <1>2, <2>0
      <4> QED BY <1>2, <2>0, <4>2, <4>3, <4>4, ApartFromPart
    <3> QED BY <3>1, <3>2
  <2> QED BY <2>3, <2>5, <2>7, <2>8, <2>9, <2>10 DEF taken
<1> QED BY <1>4, <1>5

(* compact_hole_list.  Merged: what the first n holes of the list became.  *)
Merged(acc, list, n) ==
  /\ acc.holes \in Seq(Holes)
  /\ acc.skip \in 0 .. 2
  /\ acc.skip = 0 => acc.holes # <<>>
  /\ HolesApart(acc.holes) /\ HolesInside(acc.holes)
  /\ \A b \in Nat, m \in Nat \ {0} :
       ApartFromHoles(SubSeq(list, 1, n), b, m) => ApartFromHoles(acc.holes, b, m)

(* The last hole of the list, and the list with another in its place.      *)
LEMMA LastReplaced ==
  ASSUME NEW S, NEW s \in Seq(S), s # <<>>, NEW x \in S
  PROVE  /\ Append(Front(s), x) = [s EXCEPT ![Len(s)] = x]
         /\ Last(s) = s[Len(s)] /\ Len(s) \in 1 .. Len(s) /\ Last(s) \in S
<1> DEFINE n == Len(s)
           t == [s EXCEPT ![n] = x]
<1>1. n \in Nat /\ n > 0 /\ n \in 1 .. n /\ n - 1 \in Nat
  BY EmptySeq, LenProperties
<1>2. t \in Seq(S) /\ Len(t) = n /\ \A j \in 1 .. n : t[j] = IF j = n THEN x ELSE s[j]
  BY <1>1, ExceptSeq
<1>3. /\ Front(s) \in Seq(S) /\ Len(Front(s)) = n - 1
      /\ \A j \in 1 .. n - 1 : Front(s)[j] = s[j]
  BY <1>1, SubSeqProperties DEF Front
<1>4. /\ Append(Front(s), x) \in Seq(S) /\ Len(Append(Front(s), x)) = n
      /\ \A j \in 1 .. n : Append(Front(s), x)[j] = IF j = n THEN x ELSE s[j]
  BY <1>1, <1>3, AppendProperties
<1>5. Append(Front(s), x) = t
  <2> DEFINE a == Append(Front(s), x)
  <2>1. /\ a \in Seq(S) /\ Len(a) = n
        /\ \A j \in 1 .. n : a[j] = IF j = n THEN x ELSE s[j]
    BY <1>4
  <2> HIDE DEF a, t, n
  <2>2. Len(a) = Len(t) /\ \A j \in 1 .. Len(a) : a[j] = t[j]
    BY <1>2, <2>1
  <2>3. a = t
    BY <1>2, <2>1, <2>2, SeqEqual
  <2> QED BY <2>3 DEF a
<1>6. s[n] \in S
  BY <1>1, ElementOfSeq
<1> QED BY <1>1, <1>5, <1>6 DEF Last

(* A step of the loop keeps the bytes of the holes, and what is apart from *)
(* them.                                                                   *)
LEMMA MergeStepKeeps ==
  ASSUME NEW list \in Seq(Holes), HolesApart(list), HolesInside(list),
         NEW n \in Nat, n + 1 <= Len(list),
         NEW acc, Merged(acc, list, n)
  PROVE  /\ Merged(MergeStep(acc, list[n + 1]), list, n + 1)
         /\ SumOfHoles(MergeStep(acc, list[n + 1]).holes)
              = SumOfHoles(acc.holes) + list[n + 1].size
<1> DEFINE h == list[n + 1]
           holes == acc.holes
           last == holes[Len(holes)]
           both == [base |-> last.base, size |-> last.size + h.size]
           next == MergeStep(acc, h)
<1>1. /\ holes \in Seq(Holes) /\ Len(holes) \in Nat
      /\ \A j \in 1 .. Len(holes) : holes[j] \in Holes
      /\ Len(list) \in Nat /\ \A j \in 1 .. Len(list) : list[j] \in Holes
      /\ acc.skip \in 0 .. 2
      /\ SumOfHoles(holes) \in Nat
  BY AppendHeadTail, SumOfHolesSteps DEF Merged
<1>2. /\ n + 1 \in 1 .. Len(list) /\ h \in Holes
      /\ h.base \in Nat /\ h.size \in Nat \ {0} /\ h.base + h.size <= MemorySize + 1
  BY <1>1 DEF HolesInside, Holes
<1>3. /\ HolesApart(holes) /\ HolesInside(holes)
      /\ \A b \in Nat, m \in Nat \ {0} :
           ApartFromHoles(SubSeq(list, 1, n), b, m) => ApartFromHoles(holes, b, m)
  BY DEF Merged
<1>4. /\ Len(SubSeq(list, 1, n)) = n /\ Len(SubSeq(list, 1, n + 1)) = n + 1
      /\ \A j \in 1 .. n : SubSeq(list, 1, n)[j] = list[j]
      /\ \A j \in 1 .. n + 1 : SubSeq(list, 1, n + 1)[j] = list[j]
  BY <1>1, SubSeqProperties
<1>5. ASSUME NEW b \in Nat, NEW m \in Nat \ {0},
             ApartFromHoles(SubSeq(list, 1, n + 1), b, m)
      PROVE  ApartFromHoles(holes, b, m) /\ Apart(b, m, h.base, h.size)
  <2>1. n + 1 \in 1 .. n + 1 /\ \A j \in 1 .. n : j \in 1 .. n + 1
    OBVIOUS
  <2>2. Apart(b, m, h.base, h.size)
    BY <1>4, <1>5, <2>1 DEF ApartFromHoles
  <2>3. ApartFromHoles(SubSeq(list, 1, n), b, m)
    BY <1>4, <1>5, <2>1 DEF ApartFromHoles
  <2> QED BY <1>3, <2>2, <2>3
(* The new hole is apart from what those before it became.                 *)
<1>6. ApartFromHoles(holes, h.base, h.size)
  <2>1. \A j \in 1 .. n : j \in 1 .. Len(list) /\ j # n + 1
    BY <1>1
  <2>2. ApartFromHoles(SubSeq(list, 1, n), h.base, h.size)
    BY <1>2, <1>4, <2>1 DEF ApartFromHoles, HolesApart
  <2> QED BY <1>2, <1>3, <2>2
<1>7. CASE acc.skip = 0 /\ Last(holes).base + Last(holes).size = h.base
  <2>1. holes # <<>>
    BY <1>7 DEF Merged
  <2>2. last = Last(holes) /\ last \in Holes /\ Len(holes) \in 1 .. Len(holes)
    BY <1>1, <2>1, LastReplaced
  <2>3. last.base \in Nat /\ last.size \in Nat \ {0} /\ last.base + last.size = h.base
    BY <1>7, <2>2 DEF Holes
  <2>4. both \in Holes /\ both.base = last.base /\ both.size = last.size + h.size
    <3>1. last.size + h.size \in Nat \ {0}
      <4> HIDE DEF last, h
      <4>1. last.size \in Nat \ {0} /\ h.size \in Nat \ {0}
        BY <1>2, <2>3
      <4> QED BY <4>1
    <3> QED BY <2>3, <3>1 DEF Holes
  <2>5. [Last(holes) EXCEPT !.size = @ + h.size] = both
    BY <2>2 DEF Holes
  <2> DEFINE new == [holes EXCEPT ![Len(holes)] = both]
  <2>6. next = [holes |-> new, skip |-> 2]
    <3>1. next = [holes |-> Append(Front(holes), both), skip |-> 2]
      BY <1>7, <2>5 DEF MergeStep
    <3> HIDE DEF next, both, holes
    <3>2. Append(Front(holes), both) = [holes EXCEPT ![Len(holes)] = both]
      BY <1>1, <2>1, <2>4, LastReplaced
    <3> QED BY <3>1, <3>2
  <2>7. /\ new \in Seq(Holes) /\ Len(new) = Len(holes)
        /\ \A j \in 1 .. Len(holes) : new[j] = IF j = Len(holes) THEN both ELSE holes[j]
    BY <1>1, <2>2, <2>4, ExceptSeq
  <2>8. SumOfHoles(new) = SumOfHoles(holes) + h.size
    <3>1. SumOfHoles(new) = SumOfHoles(holes) - last.size + both.size
      <4>1. /\ holes \in Seq(Holes) /\ Len(holes) \in 1 .. Len(holes) /\ both \in Holes
            /\ last = holes[Len(holes)]
        BY <1>1, <2>2, <2>4
      <4> HIDE DEF holes, both, last
      <4>2. SumOfHoles([holes EXCEPT ![Len(holes)] = both])
              = SumOfHoles(holes) - last.size + both.size
        BY <4>1, SumOfHolesSteps
      <4> QED BY <4>2
    <3>2. SumOfHoles(holes) \in Nat /\ h.size \in Nat /\ last.size \in Nat
          /\ both.size = last.size + h.size
      BY <1>1, <1>2, <2>3, <2>4
    <3> HIDE DEF new, both, last, h, holes
    <3> QED BY <3>1, <3>2
  <2> HIDE DEF new, both
  <2>9. \A b \in Nat, m \in Nat \ {0} :
          ApartFromHoles(holes, b, m) /\ Apart(b, m, h.base, h.size) =>
            Apart(b, m, both.base, both.size)
    <3> SUFFICES ASSUME NEW b \in Nat, NEW m \in Nat \ {0},
                        ApartFromHoles(holes, b, m), Apart(b, m, h.base, h.size)
                 PROVE  Apart(b, m, last.base, last.size + h.size)
      BY <2>4
    <3>1. Apart(b, m, last.base, last.size)
      BY <2>2 DEF ApartFromHoles
    <3> HIDE DEF last, h
    <3>2. Apart(b, m, last.base + last.size, h.size)
      BY <2>3
    <3>3. last.size \in Nat /\ h.size \in Nat
      BY <1>2, <2>3
    <3> QED BY <2>3, <3>1, <3>2, <3>3, ApartFromBoth
  <2>10. \A b \in Nat, m \in Nat \ {0} :
           ApartFromHoles(SubSeq(list, 1, n + 1), b, m) => ApartFromHoles(new, b, m)
    BY <1>5, <2>7, <2>9 DEF ApartFromHoles
  <2>11. \A j \in 1 .. Len(holes) - 1 : /\ holes[j].base \in Nat /\ holes[j].size \in Nat \ {0}
           /\ Apart(holes[j].base, holes[j].size, both.base, both.size)
           /\ Apart(both.base, both.size, holes[j].base, holes[j].size)
    <3> SUFFICES ASSUME NEW j \in 1 .. Len(holes) - 1
                 PROVE  /\ holes[j].base \in Nat /\ holes[j].size \in Nat \ {0}
                        /\ Apart(holes[j].base, holes[j].size, both.base, both.size)
                        /\ Apart(both.base, both.size, holes[j].base, holes[j].size)
      OBVIOUS
    <3>5. j \in 1 .. Len(holes) /\ j # Len(holes)
      BY <1>1
    <3>6. holes[j] \in Holes
      BY <1>1, <3>5
    <3>1. /\ j \in 1 .. Len(holes) /\ j # Len(holes)
          /\ holes[j].base \in Nat /\ holes[j].size \in Nat \ {0}
      BY <3>5, <3>6 DEF Holes
    <3>2. Apart(holes[j].base, holes[j].size, last.base, last.size)
      BY <1>3, <2>2, <3>1 DEF HolesApart
    <3>3. Apart(h.base, h.size, holes[j].base, holes[j].size)
      BY <1>6, <3>1 DEF ApartFromHoles
    <3>4. Apart(holes[j].base, holes[j].size, both.base, both.size)
      <4> HIDE DEF last, h
      <4>1. Apart(holes[j].base, holes[j].size, last.base + last.size, h.size)
        BY <2>3, <3>3 DEF Apart
      <4>2. last.size \in Nat /\ h.size \in Nat
        BY <1>2, <2>3
      <4>3. Apart(holes[j].base, holes[j].size, last.base, last.size + h.size)
        BY <2>3, <3>1, <3>2, <4>1, <4>2, ApartFromBoth
      <4> QED BY <2>4, <4>3
    <3> QED BY <3>1, <3>4 DEF Apart
  <2>12. HolesApart(new)
    <3> SUFFICES ASSUME NEW i \in 1 .. Len(holes), NEW j \in 1 .. Len(holes), i # j
                 PROVE  Apart(new[i].base, new[i].size, new[j].base, new[j].size)
      BY <2>7 DEF HolesApart
    <3>1. CASE i = Len(holes)
      <4>1. j \in 1 .. Len(holes) - 1 /\ new[i] = both /\ new[j] = holes[j]
        BY <1>1, <2>7, <3>1
      <4> QED BY <2>11, <4>1
    <3>2. CASE j = Len(holes)
      <4>1. i \in 1 .. Len(holes) - 1 /\ new[j] = both /\ new[i] = holes[i]
        BY <1>1, <2>7, <3>2
      <4> QED BY <2>11, <4>1
    <3>3. CASE i # Len(holes) /\ j # Len(holes)
      BY <1>3, <2>7, <3>3 DEF HolesApart
    <3> QED BY <3>1, <3>2, <3>3
  <2>13. HolesInside(new)
    <3>1. both.base + both.size <= MemorySize + 1
      <4>1. h.base + h.size <= MemorySize + 1 /\ h.base \in Nat /\ h.size \in Nat
        BY <1>2
      <4>2. /\ last.base \in Nat /\ last.size \in Nat /\ last.base + last.size = h.base
            /\ both.base = last.base /\ both.size = last.size + h.size
        BY <2>3, <2>4
      <4> HIDE DEF last, h
      <4>3. last.base + (last.size + h.size) = h.base + h.size
        BY <4>1, <4>2
      <4> QED BY <4>1, <4>2, <4>3
    <3>2. /\ Len(new) = Len(holes)
          /\ \A j \in 1 .. Len(holes) : new[j] = IF j = Len(holes) THEN both ELSE holes[j]
      BY <2>7
    <3>3. \A j \in 1 .. Len(holes) : holes[j].base + holes[j].size <= MemorySize + 1
      BY <1>3 DEF HolesInside
    <3>4. SUFFICES ASSUME NEW j \in 1 .. Len(holes)
                   PROVE  new[j].base + new[j].size <= MemorySize + 1
      BY <3>2 DEF HolesInside
    <3>5. new[j] = both \/ new[j] = holes[j]
      BY <3>2
    <3> QED BY <3>1, <3>3, <3>5
  <2> HIDE DEF next
  <2>14. next.holes = new /\ next.skip = 2
    BY <2>6
  <2>15. Merged(next, list, n + 1)
    BY <2>7, <2>10, <2>12, <2>13, <2>14 DEF Merged
  <2> QED BY <2>8, <2>14, <2>15 DEF next
<1>8. CASE ~(acc.skip = 0 /\ Last(holes).base + Last(holes).size = h.base)
  <2> DEFINE new == Append(holes, h)
  <2>1. next = [holes |-> new, skip |-> IF acc.skip = 0 THEN 0 ELSE acc.skip - 1]
    BY <1>8 DEF MergeStep
  <2>2. /\ new \in Seq(Holes) /\ Len(new) = Len(holes) + 1 /\ new # <<>>
        /\ \A j \in 1 .. Len(holes) + 1 : new[j] = IF j <= Len(holes) THEN holes[j] ELSE h
    <3> HIDE DEF h, holes
    <3>1. /\ new \in Seq(Holes) /\ Len(new) = Len(holes) + 1
          /\ \A j \in 1 .. Len(holes) + 1 : new[j] = IF j <= Len(holes) THEN holes[j] ELSE h
      BY <1>1, <1>2, AppendHeadTail
    <3>2. new # <<>>
      BY <1>1, <3>1, EmptySeq
    <3> QED BY <3>1, <3>2
  <2>3. SumOfHoles(new) = SumOfHoles(holes) + h.size
    BY <1>1, <1>2, SumOfHolesSteps
  <2> HIDE DEF new
  <2>4. \A j \in 1 .. Len(holes) + 1 : \/ j \in 1 .. Len(holes) /\ new[j] = holes[j]
                                       \/ j = Len(holes) + 1 /\ new[j] = h
    <3> HIDE DEF h, holes
    <3>1. \A j \in 1 .. Len(holes) + 1 : /\ j <= Len(holes) => j \in 1 .. Len(holes)
                                         /\ ~(j <= Len(holes)) => j = Len(holes) + 1
      <4>1. Len(holes) \in Nat
        BY <1>1
      <4> QED BY <4>1
    <3> QED BY <2>2, <3>1
  <2>5. HolesApart(new)
    <3> SUFFICES ASSUME NEW i \in 1 .. Len(holes) + 1, NEW j \in 1 .. Len(holes) + 1, i # j
                 PROVE  Apart(new[i].base, new[i].size, new[j].base, new[j].size)
      BY <2>2 DEF HolesApart
    <3> QED BY <1>3, <1>6, <2>4 DEF HolesApart, ApartFromHoles, Apart
  <2>6. HolesInside(new)
    BY <1>2, <1>3, <2>2, <2>4 DEF HolesInside
  <2>7. \A b \in Nat, m \in Nat \ {0} :
          ApartFromHoles(SubSeq(list, 1, n + 1), b, m) => ApartFromHoles(new, b, m)
    BY <1>5, <2>2, <2>4 DEF ApartFromHoles
  <2> HIDE DEF next
  <2>8. next.holes = new /\ next.skip \in 0 .. 2
    BY <1>1, <2>1
  <2>9. Merged(next, list, n + 1)
    BY <2>2, <2>5, <2>6, <2>7, <2>8 DEF Merged
  <2> QED BY <2>3, <2>8, <2>9 DEF next
<1> QED BY <1>7, <1>8

(* compact_hole_list frees and loses nothing, whichever holes it merges.   *)
LEMMA CompactHoleListKeeps ==
  ASSUME NEW list \in Seq(Holes), HolesApart(list), HolesInside(list)
  PROVE  LET compacted == CompactHoleList(list) IN
         /\ compacted \in Seq(Holes)
         /\ SumOfHoles(compacted) = SumOfHoles(list)
         /\ HolesApart(compacted) /\ HolesInside(compacted)
         /\ \A b \in Nat, m \in Nat \ {0} :
              ApartFromHoles(list, b, m) => ApartFromHoles(compacted, b, m)
<1> DEFINE n == Len(list)
           start == [holes |-> <<>>, skip |-> 1]
<1>1. n \in Nat /\ \A k \in 1 .. n : list[k] \in Holes
  BY AppendHeadTail
<1>2. PICK F : Merging!Folding(F, 0, start, list)
  <2> HIDE DEF start
  <2> QED BY Merging!FoldSteps
<1>11. /\ F[0] = start
       /\ \A k \in 1 .. n : F[k] = MergeStep(F[k - 1], list[k])
       /\ Merging!Folded(0, start, list) = F[n]
  BY <1>2 DEF Merging!Folding, MergeOp
<1>3. CompactHoleList(list) = F[n].holes
  BY <1>11, CompactHoleListIs
<1> HIDE DEF n
<1>4. Merged(F[0], list, 0)
  <2>1. F[0].holes = <<>> /\ F[0].skip = 1
    BY <1>11
  <2>2. <<>> \in Seq(Holes) /\ Len(<<>>) = 0 /\ \A k \in 1 .. 0 : FALSE
    OBVIOUS
  <2> QED BY <2>1, <2>2 DEF Merged, HolesApart, HolesInside, ApartFromHoles
<1>5. SumOfHoles(F[0].holes) = 0
  BY <1>11, HoleSumIs, HoleSum!SeqSumEmpty
<1>6. ASSUME NEW k \in Nat, k + 1 <= n, Merged(F[k], list, k)
      PROVE  /\ Merged(F[k + 1], list, k + 1)
             /\ SumOfHoles(F[k + 1].holes) = SumOfHoles(F[k].holes) + list[k + 1].size
  <2>1. k + 1 \in 1 .. n /\ (k + 1) - 1 = k
    BY <1>1, <1>6
  <2>2. F[k + 1] = MergeStep(F[k], list[k + 1])
    BY <1>11, <2>1
  <2> QED BY <1>6, <2>2, MergeStepKeeps DEF n
<1> DEFINE T == {k \in Nat : k <= n => Merged(F[k], list, k)}
<1>7. T = Nat
  <2>1. 0 \in T
    BY <1>4
  <2>2. ASSUME NEW k \in T PROVE k + 1 \in T
    BY <1>1, <1>6
  <2>3. T \in SUBSET Nat
    OBVIOUS
  <2> HIDE DEF T
  <2> QED BY <2>1, <2>2, <2>3, Merging!NatSetInduction
<1>8. Merged(F[n], list, n)
  BY <1>1, <1>7
<1>9. SumOfHoles(F[n].holes) = SumOfHoles(list)
  <2> DEFINE G == [k \in 0 .. n |-> SumOfHoles(F[k].holes)]
  <2>1. \A k \in 0 .. n : G[k] = SumOfHoles(F[k].holes)
    OBVIOUS
  <2> HIDE DEF G
  <2>2. 0 \in 0 .. n /\ n \in 0 .. n /\ G[0] = 0
    BY <1>1, <1>5, <2>1
  <2>3. ASSUME NEW k \in 1 .. n PROVE G[k] = G[k - 1] + list[k].size
    <3>1. k - 1 \in Nat /\ (k - 1) + 1 = k /\ k - 1 <= n /\ k - 1 \in 0 .. n /\ k \in 0 .. n
      BY <1>1
    <3>2. Merged(F[k - 1], list, k - 1)
      BY <1>7, <3>1
    <3> QED BY <1>6, <2>1, <3>1, <3>2
  <2>4. HoleSum!SeqSum(0, list) = G[n]
    <3>1. /\ list \in Seq(Holes) /\ G[0] = 0
          /\ \A k \in 1 .. Len(list) : G[k] = G[k - 1] + list[k].size
      BY <2>2, <2>3 DEF n
    <3>2. HoleSum!SeqSum(0, list) = G[Len(list)]
      BY <3>1, HoleSum!SeqSumIs DEF HoleSize
    <3> QED BY <3>2 DEF n
  <2> QED BY <2>1, <2>2, <2>4, HoleSumIs
<1>10. SubSeq(list, 1, n) = list
  <2>1. /\ SubSeq(list, 1, n) \in Seq(Holes) /\ Len(SubSeq(list, 1, n)) = n
        /\ \A k \in 1 .. n : SubSeq(list, 1, n)[k] = list[k]
    BY <1>1, SubSeqProperties DEF n
  <2> QED BY <2>1, SeqEqual DEF n
<1> QED BY <1>3, <1>8, <1>9, <1>10 DEF Merged

-----------------------------------------------------------------------------
(* ram and the tables.                                                     *)

(* The minimum of a set of positions.                                      *)
LEMMA MinMember ==
  ASSUME NEW I \in SUBSET Nat, I # {}
  PROVE  Min(I) \in I /\ \A i \in I : Min(I) <= i
<1> DEFINE R == OpToRel(<, Nat)
<1>1. PICK i \in I : \A j \in I : <<j, i>> \notin R
  <2>1. IsWellFoundedOn(R, Nat)
    BY NatLessThanWellFounded
  <2> HIDE DEF R
  <2> QED BY <2>1, WFMin
<1>2. \A j \in I : i <= j
  <2>1. \A j \in Nat : j < i => <<j, i>> \in R
    BY DEF OpToRel
  <2> HIDE DEF R
  <2>2. ASSUME NEW j \in I PROVE i <= j
    <3>1. ~(j < i) /\ i \in Nat /\ j \in Nat
      BY <1>1, <2>1
    <3> QED BY <3>1
  <2> QED BY <2>2
<1> QED BY <1>2 DEF Min

(* The two ways to say that something is in a sequence.                    *)
LEMMA Members ==
  ASSUME NEW S, NEW s \in Seq(S)
  PROVE  /\ \A x : x \in ToSet(s) <=> Contains(s, x)
         /\ \A x : Contains(s, x) <=> \E k \in 1 .. Len(s) : s[k] = x
         /\ ToSet(s) \subseteq S
BY LenProperties, ElementOfSeq DEF ToSet, Contains

(* IndexInTable and RamWithout look behind the head for the first of its   *)
(* kind.                                                                   *)
LEMMA IndexInTableIs ==
  ASSUME NEW m, NEW pid, NEW s_id, m.table[pid] \in Seq(Objects), m.table[pid] # <<>>
  PROVE  LET t == m.table[pid]
             k == IndexInTable(m, pid, s_id) IN
         \/ k = 0 /\ \A j \in 2 .. Len(t) : m.segment[t[j]].s_id # s_id
         \/ /\ k \in 2 .. Len(t) /\ m.segment[t[k]].s_id = s_id
            /\ \A j \in 2 .. k - 1 : m.segment[t[j]].s_id # s_id
<1> DEFINE t == m.table[pid]
           rest == Tail(t)
           I == {j \in 1 .. Len(rest) : m.segment[rest[j]].s_id = s_id}
           k == IndexInTable(m, pid, s_id)
<1>1. /\ Len(t) \in Nat /\ Len(t) > 0 /\ Len(rest) = Len(t) - 1
      /\ \A j \in 1 .. Len(t) - 1 : rest[j] = t[j + 1]
  BY AppendHeadTail
<1>2. k = IF I # {} THEN Min(I) + 1 ELSE 0
  <2>1. I # {} => Min(I) # 0
    <3>1. I \in SUBSET Nat /\ 0 \notin I
      OBVIOUS
    <3> HIDE DEF I
    <3> QED BY <3>1, MinMember
  <2> QED BY <2>1 DEF IndexInTable, SelectInSeq
<1> HIDE DEF rest, k, t
<1>3. \A j \in 2 .. Len(t) : j - 1 \in 1 .. Len(rest) /\ rest[j - 1] = t[j]
  BY <1>1
<1>4. CASE I = {}
  <2>1. k = 0
    BY <1>2, <1>4
  <2>2. \A j \in 2 .. Len(t) : m.segment[t[j]].s_id # s_id
    BY <1>3, <1>4
  <2> QED BY <2>1, <2>2 DEF k, t
<1>5. CASE I # {}
  <2> DEFINE i == Min(I)
  <2>1. i \in I /\ \A j \in I : i <= j
    <3>1. I \in SUBSET Nat
      OBVIOUS
    <3> HIDE DEF I
    <3> QED BY <1>5, <3>1, MinMember
  <2>2. k = i + 1
    BY <1>2, <1>5
  <2> HIDE DEF i
  <2>3. k \in 2 .. Len(t) /\ t[k] = rest[i]
    BY <1>1, <2>1, <2>2
  <2>4. ASSUME NEW j \in 2 .. k - 1 PROVE m.segment[t[j]].s_id # s_id
    <3>1. j \in 2 .. Len(t) /\ j - 1 < i /\ j - 1 \in Nat /\ i \in Nat
      BY <2>1, <2>2, <2>3
    <3>2. j - 1 \notin I
      BY <2>1, <3>1
    <3> QED BY <1>3, <3>1, <3>2
  <2> QED BY <2>1, <2>3, <2>4 DEF k, t
<1> QED BY <1>4, <1>5

(* The object that leaves ram is the only one with that base.              *)
LEMMA RamWithoutIs ==
  ASSUME NEW m, m.ram \in Seq(Objects), m.ram # <<>>, NEW base,
         NEW k \in 2 .. Len(m.ram), m.segment[m.ram[k]].base = base,
         \A j \in 2 .. Len(m.ram) : m.segment[m.ram[j]].base = base => j = k
  PROVE  RamWithout(m, base) = RemoveAt(m.ram, k)
<1> DEFINE t == m.ram
           rest == Tail(t)
           I == {j \in 1 .. Len(rest) : m.segment[rest[j]].base = base}
<1>1. /\ Len(t) \in Nat /\ Len(t) > 0 /\ Len(rest) = Len(t) - 1
      /\ \A j \in 1 .. Len(t) - 1 : rest[j] = t[j + 1]
  BY AppendHeadTail
<1>2. \A j \in 1 .. Len(t) - 1 : j + 1 \in 2 .. Len(t) /\ (j + 1) - 1 = j
  BY <1>1
<1>3. k - 1 \in 1 .. Len(t) - 1 /\ (k - 1) + 1 = k
  BY <1>1
<1>4. I = {k - 1}
  BY <1>1, <1>2, <1>3
<1>5. Min(I) = k - 1
  <2>1. I \in SUBSET Nat /\ I # {}
    BY <1>4
  <2> HIDE DEF I
  <2> QED BY <1>4, <2>1, MinMember
<1> HIDE DEF rest, t
<1>6. RamWithout(m, base) = LET i == IF I # {} THEN Min(I) ELSE 0 IN
                            IF i = 0 THEN t ELSE RemoveAt(t, i + 1)
  BY DEF RamWithout, SelectInSeq, t, rest
<1> HIDE DEF I
<1>7. RamWithout(m, base) = RemoveAt(t, (k - 1) + 1)
  BY <1>3, <1>4, <1>5, <1>6
<1> QED BY <1>3, <1>7 DEF t

(* What Sound says of the objects in ram.                                  *)
LEMMA RamFacts ==
  ASSUME NEW m, Sound(m)
  PROVE  /\ m.ram \in Seq(Objects) /\ Len(m.ram) \in Nat /\ Len(m.ram) >= 1 /\ m.ram[1] = Zero
         /\ \A s : s \in ToSet(m.ram) <=> Contains(m.ram, s)
         /\ \A j, k \in 1 .. Len(m.ram) : m.ram[j] = m.ram[k] => j = k
         /\ ToSet(m.ram) \subseteq Objects
         /\ \A s \in ToSet(m.ram) :
              /\ m.segment[s] \in LiveRecords
              /\ m.segment[s].base \in Nat /\ m.segment[s].offset \in Nat \ {0}
         /\ \A s, t \in ToSet(m.ram) : m.segment[s].base = m.segment[t].base => s = t
         /\ IsFiniteSet(ToSet(m.ram))
<1>1. m.ram \in Seq(Objects) /\ m.ram # <<>> /\ m.ram[1] = Zero /\ IsInjective(m.ram)
  BY DEF Sound, Shape, Ram
<1>2. Len(m.ram) \in Nat /\ Len(m.ram) >= 1 /\ DOMAIN m.ram = 1 .. Len(m.ram)
  BY <1>1, LenProperties, EmptySeq
<1>3. \A j, k \in 1 .. Len(m.ram) : m.ram[j] = m.ram[k] => j = k
  BY <1>1, <1>2 DEF IsInjective
<1>4. ToSet(m.ram) \subseteq Objects /\ \A s : s \in ToSet(m.ram) <=> Contains(m.ram, s)
  BY <1>1, Members
<1>5. \A s \in ToSet(m.ram) : m.segment[s] \in LiveRecords
  BY DEF Sound, Shape
<1>6. \A s \in ToSet(m.ram) : m.segment[s].base \in Nat /\ m.segment[s].offset \in Nat \ {0}
  BY <1>5 DEF LiveRecords
<1>7. ASSUME NEW s \in ToSet(m.ram), NEW t \in ToSet(m.ram),
             m.segment[s].base = m.segment[t].base
      PROVE  s = t
  <2>1. s # t => Apart(m.segment[s].base, m.segment[s].offset,
                       m.segment[t].base, m.segment[t].offset)
    BY DEF Sound, Geometry, SegmentsApart
  <2> QED BY <1>6, <1>7, <2>1 DEF Apart
<1>8. IsFiniteSet(ToSet(m.ram))
  <2>1. IsFiniteSet(1 .. Len(m.ram))
    BY <1>2, FS_Interval
  <2>2. m.ram \in Surjection(1 .. Len(m.ram), ToSet(m.ram))
    BY <1>1, <1>2, LenProperties DEF ToSet, Surjection
  <2> QED BY <2>1, <2>2, FS_Surjection
<1> QED BY <1>1, <1>2, <1>3, <1>4, <1>5, <1>6, <1>7, <1>8

(* A segment's share of what is allocated.                                 *)
LEMMA SumOfSegmentsSteps ==
  ASSUME NEW segment, NEW S, IsFiniteSet(S), \A s \in S : segment[s].offset \in Nat
  PROVE  /\ SumOfSegments(segment, S) \in Nat
         /\ \A s \in S : SumOfSegments(segment, S)
                           = segment[s].offset + SumOfSegments(segment, S \ {s})
         /\ \A other : (\A s \in S : other[s].offset = segment[s].offset) =>
              SumOfSegments(other, S) = SumOfSegments(segment, S)
<1>0. SegmentSum!IsFiniteSet(S)
  BY DEF IsFiniteSet, SegmentSum!IsFiniteSet
<1>1. \A s \in S : SizeIn(segment, s) \in Nat
  BY DEF SizeIn
<1>2. SegmentSum!SetSum(segment, S) \in Nat
  BY <1>0, <1>1, SegmentSum!SetSumType
<1>3. ASSUME NEW s \in S
      PROVE  SegmentSum!SetSum(segment, S)
               = segment[s].offset + SegmentSum!SetSum(segment, S \ {s})
  <2>1. SegmentSum!SetSum(segment, S)
          = SizeIn(segment, s) + SegmentSum!SetSum(segment, S \ {s})
    BY <1>0, <1>1, SegmentSum!SetSumRemove
  <2> QED BY <2>1 DEF SizeIn
<1>4. ASSUME NEW other, \A s \in S : other[s].offset = segment[s].offset
      PROVE  SegmentSum!SetSum(other, S) = SegmentSum!SetSum(segment, S)
  BY <1>4, SegmentSum!SetSumSame DEF SizeIn, IsFiniteSet, SegmentSum!IsFiniteSet
<1> QED BY <1>2, <1>3, <1>4, SegmentSumIs

(* What Sound says of the table of a process: segment 0, then live ones.   *)
LEMMA TableFacts ==
  ASSUME NEW m, Sound(m), NEW pid \in Pids, HasTable(m, pid)
  PROVE  LET t == m.table[pid] IN
         /\ t \in Seq(Objects) /\ Len(t) \in Nat /\ Len(t) >= 1 /\ t[1] = Zero
         /\ IsInjective(t)
         /\ \A j, k \in 1 .. Len(t) : t[j] = t[k] => j = k
         /\ \A k \in 2 .. Len(t) : /\ t[k] \in Segments /\ Contains(t, t[k])
                                   /\ Contains(m.ram, t[k])
<1> DEFINE t == m.table[pid]
<1>1. t \in Seq(Objects) /\ t # <<>> /\ t[1] = Zero /\ IsInjective(t)
  BY DEF Sound, Shape, Tables, HasTable
<1>2. Len(t) \in Nat /\ Len(t) >= 1 /\ DOMAIN t = 1 .. Len(t)
  BY <1>1, LenProperties, EmptySeq
<1>3. \A j, k \in 1 .. Len(t) : t[j] = t[k] => j = k
  BY <1>1, <1>2 DEF IsInjective
<1>4. ASSUME NEW k \in 2 .. Len(t)
      PROVE  t[k] \in Segments /\ Contains(t, t[k]) /\ Contains(m.ram, t[k])
  <2>1. k \in 1 .. Len(t) /\ 1 \in 1 .. Len(t) /\ k # 1
    BY <1>2
  <2>2. t[k] # Zero /\ t[k] \in Objects
    BY <1>1, <1>3, <2>1, ElementOfSeq
  <2>3. t[k] \in Segments /\ Contains(t, t[k])
    BY <2>1, <2>2 DEF Objects, Contains
  <2>4. Contains(m.ram, t[k])
    BY <2>3 DEF Sound, Owned
  <2> QED BY <2>3, <2>4
<1> QED BY <1>1, <1>2, <1>3, <1>4

-----------------------------------------------------------------------------
(* delete_segment keeps the structure sound: what the segment had becomes  *)
(* holes, and it is gone from ram and from the table of its process.       *)
LEMMA DeleteKeepsSound ==
  ASSUME NEW m, Sound(m), NEW pid \in Pids, HasTable(m, pid),
         NEW k \in 2 .. Len(m.table[pid])
  PROVE  LET d == DeleteSegmentAt(m, pid, k) IN
         /\ Sound(d)
         /\ d.table = [m.table EXCEPT ![pid] = RemoveAt(@, k)]
         /\ Len(d.table[pid]) = Len(m.table[pid]) - 1
         /\ HasTable(d, pid)
         /\ d.segment = [m.segment EXCEPT ![m.table[pid][k]] = NoSegment]
         /\ \A t : Contains(d.ram, t) <=> Contains(m.ram, t) /\ t # m.table[pid][k]
<1> DEFINE s == m.table[pid][k]
           sg == m.segment[s]
           d == DeleteSegmentAt(m, pid, k)
           hole == [base |-> sg.base, size |-> sg.offset]
           list == Append(m.hole_list, hole)
           compacted == CompactHoleList(list)
           tpid == m.table[pid]
(* What is known of m.                                                     *)
<1>1. /\ tpid \in Seq(Objects) /\ Len(tpid) \in Nat /\ Len(tpid) >= 1 /\ tpid[1] = Zero
      /\ IsInjective(tpid)
      /\ \A i, j \in 1 .. Len(tpid) : tpid[i] = tpid[j] => i = j
      /\ s \in Segments /\ Contains(tpid, s) /\ Contains(m.ram, s)
  BY TableFacts
<1>2. /\ m.ram \in Seq(Objects) /\ Len(m.ram) \in Nat /\ Len(m.ram) >= 1 /\ m.ram[1] = Zero
      /\ m.ram # <<>> /\ IsInjective(m.ram)
      /\ \A x : x \in ToSet(m.ram) <=> Contains(m.ram, x)
      /\ \A x \in ToSet(m.ram) : /\ m.segment[x] \in LiveRecords
                                 /\ m.segment[x].base \in Nat
                                 /\ m.segment[x].offset \in Nat \ {0}
      /\ IsFiniteSet(ToSet(m.ram))
  BY RamFacts DEF Sound, Ram
<1>3. s \in ToSet(m.ram) /\ sg.base \in Nat /\ sg.offset \in Nat \ {0} /\ s # Zero /\ s \in Objects
  BY <1>1, <1>2, ZeroAssumption DEF Objects
<1>4. /\ m.segment \in [Objects -> SegmentRecords \cup {NoSegment}]
      /\ m.table \in [Pids -> Seq(Objects)] /\ m.hole_list \in Seq(Holes)
      /\ m.remaining \in Nat
      /\ m.segment[Zero] = [base |-> 0, offset |-> ZeroSize, s_id |-> 0]
  BY DEF Sound, Shape
<1>5. /\ d.segment = [m.segment EXCEPT ![s] = NoSegment]
      /\ d.ram = RamWithout(m, sg.base)
      /\ d.table = [m.table EXCEPT ![pid] = RemoveAt(@, k)]
      /\ d.hole_list = compacted
      /\ d.remaining = m.remaining + sg.offset
      /\ d = [segment |-> d.segment, ram |-> d.ram, table |-> d.table,
              hole_list |-> d.hole_list, remaining |-> d.remaining]
  BY DEF DeleteSegmentAt
<1> HIDE DEF d, compacted, hole, sg, s, tpid
(* ram.                                                                    *)
<1>6. /\ d.ram \in Seq(Objects) /\ d.ram # <<>> /\ d.ram[1] = Zero /\ IsInjective(d.ram)
      /\ \A x : Contains(d.ram, x) <=> Contains(m.ram, x) /\ x # s
  <2>1. PICK r \in 1 .. Len(m.ram) : m.ram[r] = s
    BY <1>1 DEF Contains
  <2>2. r \in 2 .. Len(m.ram)
    <3>1. r # 1
      BY <1>2, <1>3, <2>1
    <3> QED BY <1>2, <3>1
  <2>3. \A j \in 2 .. Len(m.ram) : m.segment[m.ram[j]].base = sg.base => j = r
    <3> SUFFICES ASSUME NEW j \in 2 .. Len(m.ram), m.segment[m.ram[j]].base = sg.base
                 PROVE  j = r
      OBVIOUS
    <3>1. j \in 1 .. Len(m.ram) /\ Contains(m.ram, m.ram[j])
      BY <1>2 DEF Contains
    <3>2. m.ram[j] = s
      <4>1. \A x, y \in ToSet(m.ram) : m.segment[x].base = m.segment[y].base => x = y
        BY RamFacts
      <4>2. m.ram[j] \in ToSet(m.ram) /\ s \in ToSet(m.ram)
        <5>1. Contains(m.ram, s)
          BY <2>1 DEF Contains
        <5> QED BY <3>1, <5>1, RamFacts
      <4> QED BY <4>1, <4>2 DEF sg
    <3>3. \A i, q \in 1 .. Len(m.ram) : m.ram[i] = m.ram[q] => i = q
      BY RamFacts
    <3> QED BY <2>1, <3>1, <3>2, <3>3
  <2>4. d.ram = RemoveAt(m.ram, r)
    <3> DEFINE b == sg.base
    <3>1. /\ m.ram \in Seq(Objects) /\ m.ram # <<>> /\ r \in 2 .. Len(m.ram)
          /\ m.segment[m.ram[r]].base = b
          /\ \A j \in 2 .. Len(m.ram) : m.segment[m.ram[j]].base = b => j = r
      <4>1. m.ram \in Seq(Objects) /\ m.ram # <<>>
        BY <1>2
      <4> QED BY <2>1, <2>2, <2>3, <4>1 DEF sg
    <3> HIDE DEF b
    <3>2. RamWithout(m, b) = RemoveAt(m.ram, r)
      BY <3>1, RamWithoutIs
    <3> QED BY <1>5, <3>2 DEF b
  <2>5. /\ d.ram \in Seq(Objects) /\ Len(d.ram) = Len(m.ram) - 1
        /\ \A j \in 1 .. Len(m.ram) - 1 :
             d.ram[j] = IF j < r THEN m.ram[j] ELSE m.ram[j + 1]
    <3> DEFINE t == m.ram
    <3>1. t \in Seq(Objects) /\ r \in 1 .. Len(t) /\ d.ram = RemoveAt(t, r)
      BY <1>2, <2>1, <2>4
    <3> HIDE DEF t
    <3>2. /\ d.ram \in Seq(Objects) /\ Len(d.ram) = Len(t) - 1
          /\ \A j \in 1 .. Len(t) - 1 : d.ram[j] = IF j < r THEN t[j] ELSE t[j + 1]
      BY <3>1, RemoveAtProperties
    <3> QED BY <3>2 DEF t
  <2>6. 1 \in 1 .. Len(m.ram) - 1 /\ 1 < r /\ Len(m.ram) - 1 # 0
    <3> DEFINE n == Len(m.ram)
    <3>1. n \in Nat
      BY <1>2
    <3> HIDE DEF n
    <3>2. r \in 2 .. n
      BY <2>2 DEF n
    <3>3. 1 \in 1 .. n - 1 /\ 1 < r /\ n - 1 # 0
      BY <3>1, <3>2
    <3> QED BY <3>3 DEF n
  <2>7. d.ram # <<>> /\ d.ram[1] = Zero
    BY <1>2, <2>5, <2>6, EmptySeq
  <2> QED BY <1>2, <2>1, <2>4, <2>5, <2>7, RemoveMembers
(* The table.                                                              *)
<1>7. /\ d.table[pid] = RemoveAt(tpid, k)
      /\ \A p \in Pids : p # pid => d.table[p] = m.table[p]
      /\ d.table \in [Pids -> Seq(Objects)]
      /\ d.table[pid][1] = Zero /\ IsInjective(d.table[pid]) /\ d.table[pid] # <<>>
      /\ Len(d.table[pid]) = Len(tpid) - 1
      /\ \A x : Contains(d.table[pid], x) <=> Contains(tpid, x) /\ x # s
  <2>1. k \in 1 .. Len(tpid) /\ k # 1
    BY <1>1 DEF tpid
  <2>2. /\ RemoveAt(tpid, k) \in Seq(Objects) /\ Len(RemoveAt(tpid, k)) = Len(tpid) - 1
        /\ \A j \in 1 .. Len(tpid) - 1 :
             RemoveAt(tpid, k)[j] = IF j < k THEN tpid[j] ELSE tpid[j + 1]
    BY <1>1, <2>1, RemoveAtProperties
  <2>3. /\ d.table[pid] = RemoveAt(tpid, k)
        /\ \A p \in Pids : p # pid => d.table[p] = m.table[p]
        /\ d.table \in [Pids -> Seq(Objects)]
    BY <1>4, <1>5, <2>2 DEF tpid
  <2>4. 1 \in 1 .. Len(tpid) - 1 /\ 1 < k /\ Len(tpid) - 1 # 0
    BY <1>1, <2>1
  <2>5. d.table[pid][1] = Zero /\ d.table[pid] # <<>>
    BY <1>1, <2>2, <2>3, <2>4, EmptySeq
  <2>6. /\ IsInjective(d.table[pid])
        /\ \A x : Contains(d.table[pid], x) <=> Contains(tpid, x) /\ x # s
    BY <1>1, <2>1, <2>3, RemoveMembers DEF s, tpid
  <2> QED BY <2>2, <2>3, <2>5, <2>6
(* The holes.                                                              *)
<1>8. hole \in Holes /\ hole.base = sg.base /\ hole.size = sg.offset
  BY <1>3 DEF hole, Holes
<1>9. /\ SegmentsApart(m) /\ HolesApart(m.hole_list)
      /\ \A x \in ToSet(m.ram) :
           ApartFromHoles(m.hole_list, m.segment[x].base, m.segment[x].offset)
      /\ SegmentsInside(m) /\ HolesInside(m.hole_list)
  BY DEF Sound, Geometry
<1>10. /\ list \in Seq(Holes) /\ HolesApart(list) /\ HolesInside(list)
       /\ SumOfHoles(list) = SumOfHoles(m.hole_list) + sg.offset
       /\ \A b \in Nat, n \in Nat \ {0} :
            ApartFromHoles(m.hole_list, b, n) /\ Apart(b, n, sg.base, sg.offset) =>
              ApartFromHoles(list, b, n)
  <2> DEFINE n == Len(m.hole_list)
  <2>1. /\ n \in Nat /\ list \in Seq(Holes) /\ Len(list) = n + 1
        /\ \A j \in 1 .. n + 1 : list[j] = IF j <= n THEN m.hole_list[j] ELSE hole
    BY <1>4, <1>8, AppendHeadTail
  <2>2. SumOfHoles(list) = SumOfHoles(m.hole_list) + sg.offset
    BY <1>4, <1>8, SumOfHolesSteps
  <2> HIDE DEF list, n
  <2>3. \A j \in 1 .. n + 1 : \/ j \in 1 .. n /\ list[j] = m.hole_list[j]
                              \/ j = n + 1 /\ list[j] = hole
    <3>1. \A j \in 1 .. n + 1 : /\ j <= n => j \in 1 .. n
                                /\ ~(j <= n) => j = n + 1
      BY <2>1
    <3> QED BY <2>1, <3>1
  <2>4. ApartFromHoles(m.hole_list, sg.base, sg.offset)
    BY <1>3, <1>9 DEF sg
  <2>5. HolesApart(list)
    <3> SUFFICES ASSUME NEW i \in 1 .. n + 1, NEW j \in 1 .. n + 1, i # j
                 PROVE  Apart(list[i].base, list[i].size, list[j].base, list[j].size)
      BY <2>1 DEF HolesApart
    <3>1. \A l \in 1 .. n : /\ Apart(m.hole_list[l].base, m.hole_list[l].size, hole.base, hole.size)
                           /\ Apart(hole.base, hole.size, m.hole_list[l].base, m.hole_list[l].size)
      BY <1>8, <2>4 DEF ApartFromHoles, Apart, n
    <3>3. \A l \in 1 .. n : \A q \in 1 .. n : l # q =>
            Apart(m.hole_list[l].base, m.hole_list[l].size, m.hole_list[q].base, m.hole_list[q].size)
      BY <1>9 DEF HolesApart, n
    <3> QED BY <2>3, <3>1, <3>3
  <2>6. HolesInside(list)
    <3>1. sg.base + sg.offset <= MemorySize + 1
      BY <1>3, <1>9 DEF SegmentsInside, End, sg
    <3> QED BY <1>8, <1>9, <2>1, <2>3, <3>1 DEF HolesInside, n
  <2>7. ASSUME NEW b \in Nat, NEW l \in Nat \ {0},
               ApartFromHoles(m.hole_list, b, l), Apart(b, l, sg.base, sg.offset)
        PROVE  ApartFromHoles(list, b, l)
    BY <1>8, <2>1, <2>3, <2>7 DEF ApartFromHoles, n
  <2> QED BY <2>1, <2>2, <2>5, <2>6, <2>7
<1>11. /\ compacted \in Seq(Holes) /\ SumOfHoles(compacted) = SumOfHoles(list)
       /\ HolesApart(compacted) /\ HolesInside(compacted)
       /\ \A b \in Nat, n \in Nat \ {0} :
            ApartFromHoles(list, b, n) => ApartFromHoles(compacted, b, n)
  <2> HIDE DEF list
  <2> QED BY <1>10, CompactHoleListKeeps DEF compacted
<1> HIDE DEF list
(* The parts of Sound.                                                     *)
<1>12. \A x \in ToSet(d.ram) : /\ x \in ToSet(m.ram) /\ x # s
                               /\ x \in Objects /\ d.segment[x] = m.segment[x]
  <2>1. \A x : x \in ToSet(d.ram) <=> Contains(d.ram, x)
    BY <1>6, Members
  <2>2. ToSet(d.ram) \subseteq Objects
    BY <1>6, Members
  <2>3. \A x \in ToSet(d.ram) : x \in ToSet(m.ram) /\ x # s /\ x \in Objects
    BY <1>2, <1>6, <2>1, <2>2
  <2> QED BY <1>4, <1>5, <2>3
<1>13. Shape(d)
  <2>1. d.segment \in [Objects -> SegmentRecords \cup {NoSegment}]
    BY <1>4, <1>5
  <2>2. d.remaining \in Nat
    BY <1>3, <1>4, <1>5
  <2>3. d \in [segment   : [Objects -> SegmentRecords \cup {NoSegment}],
               ram       : Seq(Objects),
               table     : [Pids -> Seq(Objects)],
               hole_list : Seq(Holes),
               remaining : Nat]
    BY <1>5, <1>6, <1>7, <1>11, <2>1, <2>2
  <2>4. d.segment[Zero] = m.segment[Zero]
    BY <1>3, <1>4, <1>5 DEF Objects
  <2>5. \A x \in ToSet(d.ram) : d.segment[x] \in LiveRecords
    BY <1>2, <1>12
  <2> QED BY <1>4, <2>3, <2>4, <2>5 DEF Shape
<1>14. Ram(d)
  BY <1>6 DEF Ram
<1>15. Tables(d)
  <2>1. Tables(m)
    BY DEF Sound
  <2> QED BY <1>7, <2>1 DEF Tables, HasTable
<1>16. Owned(d)
  <2> SUFFICES ASSUME NEW x \in Segments
               PROVE  /\ Contains(d.ram, x) <=> \E p \in Pids : Contains(d.table[p], x)
                      /\ \A p, q \in Pids :
                           Contains(d.table[p], x) /\ Contains(d.table[q], x) => p = q
    BY DEF Owned
  <2>1. /\ Contains(m.ram, x) <=> \E p \in Pids : Contains(m.table[p], x)
        /\ \A p, q \in Pids : Contains(m.table[p], x) /\ Contains(m.table[q], x) => p = q
    BY DEF Sound, Owned
  <2>2. \A p \in Pids : Contains(d.table[p], x) <=> Contains(m.table[p], x) /\ x # s
    <3> SUFFICES ASSUME NEW p \in Pids
                 PROVE  Contains(d.table[p], x) <=> Contains(m.table[p], x) /\ x # s
      OBVIOUS
    <3>1. CASE p = pid
      BY <1>7, <3>1 DEF tpid
    <3>2. CASE p # pid
      <4>1. d.table[p] = m.table[p]
        BY <1>7, <3>2
      <4>2. x = s => ~Contains(m.table[p], x)
        BY <1>1, <2>1, <3>2 DEF tpid
      <4> QED BY <4>1, <4>2
    <3> QED BY <3>1, <3>2
  <2> QED BY <1>6, <2>1, <2>2
<1>17. Geometry(d)
  <2>1. SegmentsApart(d)
    BY <1>9, <1>12 DEF SegmentsApart
  <2>2. SegmentsInside(d)
    BY <1>9, <1>12 DEF SegmentsInside
  <2>3. ASSUME NEW x \in ToSet(d.ram)
        PROVE  ApartFromHoles(d.hole_list, d.segment[x].base, d.segment[x].offset)
    <3>1. x \in ToSet(m.ram) /\ x # s /\ d.segment[x] = m.segment[x]
      BY <1>12
    <3>2. m.segment[x].base \in Nat /\ m.segment[x].offset \in Nat \ {0}
      BY <1>2, <3>1
    <3>3. Apart(m.segment[x].base, m.segment[x].offset, sg.base, sg.offset)
      BY <1>3, <1>9, <3>1 DEF SegmentsApart, sg
    <3>4. ApartFromHoles(m.hole_list, m.segment[x].base, m.segment[x].offset)
      BY <1>9, <3>1
    <3> QED BY <1>5, <1>10, <1>11, <3>1, <3>2, <3>3, <3>4
  <2> QED BY <1>5, <1>11, <2>1, <2>2, <2>3 DEF Geometry
<1>18. Accounts(d)
  <2>1. m.remaining = SumOfHoles(m.hole_list)
        /\ m.remaining + SumOfSegments(m.segment, ToSet(m.ram)) = MemorySize
    BY DEF Sound, Accounts
  <2>2. d.remaining = SumOfHoles(d.hole_list)
    BY <1>5, <1>10, <1>11, <2>1
  <2>3. ToSet(d.ram) = ToSet(m.ram) \ {s} /\ IsFiniteSet(ToSet(d.ram))
    <3>1. ToSet(d.ram) = ToSet(m.ram) \ {s}
      BY <1>2, <1>6, Members
    <3> QED BY <1>2, <3>1, FS_RemoveElement
  <2>4. SumOfSegments(m.segment, ToSet(m.ram))
          = sg.offset + SumOfSegments(m.segment, ToSet(d.ram))
    <3>1. IsFiniteSet(ToSet(m.ram)) /\ \A x \in ToSet(m.ram) : m.segment[x].offset \in Nat
      BY <1>2
    <3>2. SumOfSegments(m.segment, ToSet(m.ram))
            = m.segment[s].offset + SumOfSegments(m.segment, ToSet(m.ram) \ {s})
      BY <1>3, <3>1, SumOfSegmentsSteps
    <3> QED BY <2>3, <3>2 DEF sg
  <2>5. /\ SumOfSegments(m.segment, ToSet(d.ram)) \in Nat
        /\ SumOfSegments(d.segment, ToSet(d.ram)) = SumOfSegments(m.segment, ToSet(d.ram))
    <3>1. \A x \in ToSet(d.ram) : /\ m.segment[x].offset \in Nat
                                  /\ d.segment[x].offset = m.segment[x].offset
      BY <1>2, <1>12
    <3> QED BY <2>3, <3>1, SumOfSegmentsSteps
  <2>6. d.remaining + SumOfSegments(d.segment, ToSet(d.ram)) = MemorySize
    BY <1>3, <1>4, <1>5, <2>1, <2>4, <2>5
  <2> QED BY <2>2, <2>6 DEF Accounts
<1>19. Sound(d)
  BY <1>13, <1>14, <1>15, <1>16, <1>17, <1>18 DEF Sound
<1> QED BY <1>5, <1>6, <1>7, <1>19 DEF d, s, tpid, HasTable

(* remove_sg_table.  After n deletions the table is n segments shorter,    *)
(* and the segments of the others are where they were.                     *)
Dropped(d, m, pid, n) ==
  /\ Sound(d) /\ HasTable(d, pid)
  /\ Len(d.table[pid]) = Len(m.table[pid]) - n
  /\ \A other \in Pids : other # pid => d.table[other] = m.table[other]
  /\ \A s : Contains(d.ram, s) => Contains(m.ram, s) /\ d.segment[s] = m.segment[s]

(* remove_sg_table deletes the last segment of the table, one at a time.   *)
LEMMA DropKeeps ==
  ASSUME NEW m, NEW pid \in Pids, NEW n \in Nat, NEW d, Dropped(d, m, pid, n),
         Len(m.table[pid]) \in Nat, n + 1 < Len(m.table[pid])
  PROVE  Dropped(DropLast(d, pid), m, pid, n + 1)
<1> DEFINE t == d.table[pid]
           s_id == d.segment[Last(t)].s_id
           k == IndexInTable(d, pid, s_id)
           e == DeleteSegmentAt(d, pid, k)
<1>1. Sound(d) /\ HasTable(d, pid)
  BY DEF Dropped
<1>2. t \in Seq(Objects) /\ t # <<>> /\ Len(t) \in Nat /\ Len(t) = Len(m.table[pid]) - n
  BY <1>1, TableFacts DEF HasTable, Dropped
<1>3. Len(t) \in 2 .. Len(t)
  <2> HIDE DEF t
  <2>1. Len(t) >= 2
    BY <1>2
  <2> QED BY <1>2, <2>1
<1>4. k \in 2 .. Len(t)
  <2>1. d.segment[t[Len(t)]].s_id = s_id
    BY DEF Last
  <2> HIDE DEF s_id
  <2>2. \/ k = 0 /\ \A j \in 2 .. Len(t) : d.segment[t[j]].s_id # s_id
        \/ k \in 2 .. Len(t)
    BY <1>2, IndexInTableIs
  <2> HIDE DEF k, t
  <2> QED BY <1>3, <2>1, <2>2
<1>5. DropLast(d, pid) = e
  BY DEF DropLast
<1> HIDE DEF k
<1>6. /\ Sound(e)
      /\ e.table = [d.table EXCEPT ![pid] = RemoveAt(@, k)]
      /\ Len(e.table[pid]) = Len(t) - 1
      /\ HasTable(e, pid)
      /\ e.segment = [d.segment EXCEPT ![t[k]] = NoSegment]
      /\ \A x : Contains(e.ram, x) <=> Contains(d.ram, x) /\ x # t[k]
  BY <1>1, <1>4, DeleteKeepsSound
<1> HIDE DEF e
<1>7. Len(e.table[pid]) = Len(m.table[pid]) - (n + 1)
  <2> HIDE DEF t
  <2>1. Len(e.table[pid]) = Len(t) - 1 /\ Len(t) = Len(m.table[pid]) - n
    BY <1>2, <1>6
  <2> QED BY <2>1
<1>8. \A other \in Pids : other # pid => e.table[other] = m.table[other]
  <2>1. d.table \in [Pids -> Seq(Objects)]
    BY <1>1 DEF Sound, Shape
  <2> QED BY <1>6, <2>1 DEF Dropped
<1>9. \A s : Contains(e.ram, s) => Contains(m.ram, s) /\ e.segment[s] = m.segment[s]
  <2> SUFFICES ASSUME NEW s, Contains(e.ram, s)
               PROVE  Contains(m.ram, s) /\ e.segment[s] = m.segment[s]
    OBVIOUS
  <2>1. Contains(d.ram, s) /\ s # t[k]
    BY <1>6
  <2>2. d.segment \in [Objects -> SegmentRecords \cup {NoSegment}] /\ s \in Objects
    BY <1>1, <2>1, RamFacts DEF Sound, Shape
  <2>3. e.segment[s] = d.segment[s]
    BY <1>6, <2>1, <2>2
  <2> QED BY <2>1, <2>3 DEF Dropped
<1>10. Dropped(e, m, pid, n + 1)
  BY <1>6, <1>7, <1>8, <1>9 DEF Dropped
<1> QED BY <1>5, <1>10

(* A table goes when nothing is left in it but segment 0.                  *)
LEMMA TableGoes ==
  ASSUME NEW d, Sound(d), NEW pid \in Pids, HasTable(d, pid), Len(d.table[pid]) = 1
  PROVE  Sound([d EXCEPT !.table[pid] = <<>>])
<1> DEFINE e == [d EXCEPT !.table[pid] = <<>>]
<1>1. d \in [segment   : [Objects -> SegmentRecords \cup {NoSegment}],
             ram       : Seq(Objects),
             table     : [Pids -> Seq(Objects)],
             hole_list : Seq(Holes),
             remaining : Nat]
  BY DEF Sound, Shape
<1>2. /\ e.segment = d.segment /\ e.ram = d.ram /\ e.hole_list = d.hole_list
      /\ e.remaining = d.remaining
      /\ e.table = [d.table EXCEPT ![pid] = <<>>]
      /\ e \in [segment   : [Objects -> SegmentRecords \cup {NoSegment}],
                ram       : Seq(Objects),
                table     : [Pids -> Seq(Objects)],
                hole_list : Seq(Holes),
                remaining : Nat]
  <2>1. <<>> \in Seq(Objects)
    OBVIOUS
  <2>2. [d.table EXCEPT ![pid] = <<>>] \in [Pids -> Seq(Objects)]
    BY <1>1, <2>1
  <2> QED BY <1>1, <2>2
<1> HIDE DEF e
<1>3. /\ e.table[pid] = <<>>
      /\ \A other \in Pids : other # pid => e.table[other] = d.table[other]
  BY <1>1, <1>2
<1>4. Shape(e)
  BY <1>2 DEF Sound, Shape
<1>5. Ram(e)
  BY <1>2 DEF Sound, Ram
<1>6. Tables(e)
  BY <1>3 DEF Sound, Tables, HasTable
<1>7. Owned(e)
  <2> SUFFICES ASSUME NEW s \in Segments
               PROVE  /\ Contains(e.ram, s) <=> \E p \in Pids : Contains(e.table[p], s)
                      /\ \A p, q \in Pids :
                           Contains(e.table[p], s) /\ Contains(e.table[q], s) => p = q
    BY DEF Owned
  <2>1. ~Contains(d.table[pid], s)
    <3>1. d.table[pid][1] = Zero /\ s # Zero
      BY TableFacts, ZeroAssumption
    <3> QED BY <3>1 DEF Contains
  <2>2. ~Contains(e.table[pid], s)
    <3>1. Len(<<>>) = 0
      OBVIOUS
    <3> QED BY <1>3, <3>1 DEF Contains
  <2>3. \A p \in Pids : Contains(e.table[p], s) <=> Contains(d.table[p], s)
    BY <1>3, <2>1, <2>2
  <2> QED BY <1>2, <2>3 DEF Sound, Owned
<1>8. Geometry(e) /\ Accounts(e)
  BY <1>2 DEF Sound, Geometry, Accounts, SegmentsApart, SegmentsInside
<1> QED BY <1>4, <1>5, <1>6, <1>7, <1>8 DEF Sound, e

(* The end of a process keeps the structure sound, and touches no other    *)
(* process.                                                                *)
LEMMA RemoveSgTableKeepsSound ==
  ASSUME NEW m, Sound(m), NEW pid \in Pids, HasTable(m, pid)
  PROVE  LET e == RemoveSgTable(m, pid) IN
         /\ Sound(e)
         /\ ~HasTable(e, pid)
         /\ \A other \in Pids : other # pid => e.table[other] = m.table[other]
         /\ \A s : Contains(e.ram, s) => Contains(m.ram, s) /\ e.segment[s] = m.segment[s]
<1> DEFINE t == m.table[pid]
           rest == Tail(t)
           n == Len(rest)
<1>1. t \in Seq(Objects) /\ t # <<>> /\ Len(t) \in Nat /\ Len(t) >= 1
  BY TableFacts DEF HasTable
<1>2. rest \in Seq(Objects) /\ n \in Nat /\ n = Len(t) - 1
  BY <1>1
<1>3. PICK F : Dropping!Folding(F, pid, m, rest)
  <2> HIDE DEF rest
  <2> QED BY <1>2, Dropping!FoldSteps
<1>15. /\ F[0] = m
       /\ \A k \in 1 .. n : F[k] = DropLast(F[k - 1], pid)
       /\ Dropping!Folded(pid, m, rest) = F[n]
  BY <1>3 DEF Dropping!Folding, DropOp
<1> DEFINE T == {k \in Nat : k <= n => Dropped(F[k], m, pid, k)}
<1> HIDE DEF n
<1>4. 0 \in T
  BY <1>1, <1>15 DEF Dropped
<1>5. ASSUME NEW k \in T PROVE k + 1 \in T
  <2>1. SUFFICES ASSUME k + 1 <= n PROVE Dropped(F[k + 1], m, pid, k + 1)
    OBVIOUS
  <2>2. k + 1 \in 1 .. n /\ (k + 1) - 1 = k /\ k <= n /\ k \in Nat
    BY <1>2, <2>1
  <2>3. k + 1 < Len(t)
    <3> HIDE DEF t
    <3> QED BY <1>1, <1>2, <2>1, <2>2
  <2>4. F[k + 1] = DropLast(F[k], pid)
    BY <1>15, <2>2
  <2>5. Dropped(F[k], m, pid, k)
    BY <2>2
  <2> QED BY <1>1, <2>2, <2>3, <2>4, <2>5, DropKeeps
<1>6. T = Nat
  <2>1. T \in SUBSET Nat
    OBVIOUS
  <2> HIDE DEF T
  <2> QED BY <1>4, <1>5, <2>1, Dropping!NatSetInduction
<1>7. Dropped(F[n], m, pid, n)
  BY <1>2, <1>6
<1> DEFINE d == F[n]
           e == [d EXCEPT !.table[pid] = <<>>]
<1>8. RemoveSgTable(m, pid) = e
  BY <1>15, RemoveSgTableIs
<1>9. Sound(d) /\ HasTable(d, pid) /\ Len(d.table[pid]) = 1
  <2>1. Len(d.table[pid]) = Len(t) - n
    BY <1>7 DEF Dropped
  <2>2. Len(t) - n = 1
    <3> HIDE DEF t
    <3> QED BY <1>1, <1>2
  <2> QED BY <1>7, <2>1, <2>2 DEF Dropped
<1> HIDE DEF d
<1>10. Sound(e)
  BY <1>9, TableGoes
<1>11. d.table \in [Pids -> Seq(Objects)]
  BY <1>9 DEF Sound, Shape
<1>12. DOMAIN d = {"segment", "ram", "table", "hole_list", "remaining"}
  BY <1>9 DEF Sound, Shape
<1>13. /\ e.table = [d.table EXCEPT ![pid] = <<>>]
       /\ e.ram = d.ram /\ e.segment = d.segment
  BY <1>9 DEF Sound, Shape
<1>14. /\ ~HasTable(e, pid)
       /\ \A other \in Pids : other # pid => e.table[other] = m.table[other]
       /\ \A s : Contains(e.ram, s) => Contains(m.ram, s) /\ e.segment[s] = m.segment[s]
  <2> HIDE DEF e
  <2> QED BY <1>7, <1>11, <1>13 DEF HasTable, Dropped, d
<1> QED BY <1>8, <1>10, <1>14

-----------------------------------------------------------------------------
(* create_segment keeps the structure sound: the object was free, and its  *)
(* bytes are the first of a hole that is large enough.                     *)
Given(m, k, req, s) == [Placed(m, k, req, s) EXCEPT !.remaining = Spends(m, req.size)]

(* create_segment, for any hole that is large enough.                      *)
LEMMA CreateKeepsSound ==
  ASSUME NEW m, Sound(m), NEW req \in Requests, HasTable(m, req.pid),
         NEW s \in Free(m), NEW k \in 1 .. Len(m.hole_list),
         m.hole_list[k].size >= req.size
  PROVE  LET e == Given(m, k, req, s) IN
         /\ Sound(e)
         /\ e.ram = Append(m.ram, s)
         /\ e.table = [m.table EXCEPT ![req.pid] = Append(@, s)]
         /\ e.segment = [m.segment EXCEPT ![s] = [base   |-> m.hole_list[k].base,
                                                  offset |-> req.size,
                                                  s_id   |-> req.s_id]]
         /\ \A pid \in Pids : HasTable(e, pid) <=> HasTable(m, pid)
<1> DEFINE pid == req.pid
           sg == [base |-> m.hole_list[k].base, offset |-> req.size, s_id |-> req.s_id]
           holes == m.hole_list
           taken == HoleTaken(holes, k, req.size)
           e == Given(m, k, req, s)
           t == m.table[pid]
(* What is known of m.                                                     *)
<1>1. pid \in Pids /\ req.size \in Nat \ {0} /\ req.s_id \in SegmentIds
  <2>1. req.pid \in Pids /\ req.size \in Sizes /\ req.s_id \in SegmentIds
    BY DEF Requests
  <2>2. \A n \in Sizes : n \in Nat \ {0}
    BY SizesAssumption, MemoryAssumption
  <2> QED BY <2>1, <2>2
<1>2. /\ m.segment \in [Objects -> SegmentRecords \cup {NoSegment}]
      /\ m.table \in [Pids -> Seq(Objects)] /\ holes \in Seq(Holes)
      /\ m.remaining \in Nat
      /\ m.segment[Zero] = [base |-> 0, offset |-> ZeroSize, s_id |-> 0]
      /\ m.ram \in Seq(Objects)
  BY DEF Sound, Shape
<1>3. /\ m.ram[1] = Zero /\ m.ram # <<>> /\ IsInjective(m.ram)
      /\ \A x : x \in ToSet(m.ram) <=> Contains(m.ram, x)
      /\ \A x \in ToSet(m.ram) : /\ m.segment[x] \in LiveRecords
                                 /\ m.segment[x].base \in Nat
                                 /\ m.segment[x].offset \in Nat \ {0}
      /\ IsFiniteSet(ToSet(m.ram)) /\ Len(m.ram) \in Nat /\ Len(m.ram) >= 1
      /\ ToSet(m.ram) \subseteq Objects
  BY RamFacts DEF Sound, Ram
<1>4. /\ s \in Segments /\ s \in Objects /\ s # Zero /\ s \notin ToSet(m.ram)
      /\ ~Contains(m.ram, s)
      /\ \A p \in Pids : ~Contains(m.table[p], s)
  <2>1. s \in Segments /\ s \notin ToSet(m.ram) /\ ~Contains(m.ram, s)
    BY <1>3 DEF Free
  <2> QED BY <2>1, ZeroAssumption DEF Objects, Sound, Owned
<1>5. /\ t \in Seq(Objects) /\ Len(t) \in Nat /\ Len(t) >= 1 /\ t[1] = Zero /\ IsInjective(t)
  BY <1>1, TableFacts
<1>6. /\ holes[k] \in Holes /\ holes[k].base \in Nat /\ holes[k].size \in Nat
  <2>1. holes[k] \in Holes
    BY <1>2, ElementOfSeq
  <2> QED BY <2>1 DEF Holes
<1>7. sg \in LiveRecords /\ sg \in SegmentRecords
      /\ sg.base = holes[k].base /\ sg.offset = req.size
  BY <1>1, <1>6 DEF LiveRecords, SegmentRecords
<1>8. /\ SegmentsApart(m) /\ HolesApart(holes)
      /\ \A x \in ToSet(m.ram) :
           ApartFromHoles(holes, m.segment[x].base, m.segment[x].offset)
      /\ SegmentsInside(m) /\ HolesInside(holes)
  BY DEF Sound, Geometry
<1>9. /\ taken \in Seq(Holes)
      /\ SumOfHoles(taken) = SumOfHoles(holes) - req.size
      /\ SumOfHoles(holes) >= req.size
      /\ HolesApart(taken) /\ HolesInside(taken)
      /\ \A b, n \in Nat : ApartFromHoles(holes, b, n) => ApartFromHoles(taken, b, n)
      /\ ApartFromHoles(taken, holes[k].base, req.size)
  BY <1>1, <1>2, <1>8, HoleTakenKeeps
<1>10. m.remaining = SumOfHoles(holes) /\ SumOfHoles(holes) \in Nat
  BY <1>2, SumOfHolesSteps DEF Sound, Accounts
<1>11. m = [segment |-> m.segment, ram |-> m.ram, table |-> m.table,
            hole_list |-> m.hole_list, remaining |-> m.remaining]
  BY DEF Sound, Shape
<1>12. /\ e.segment = [m.segment EXCEPT ![s] = sg]
       /\ e.ram = Append(m.ram, s)
       /\ e.table = [m.table EXCEPT ![pid] = Append(@, s)]
       /\ e.hole_list = taken
       /\ e.remaining = m.remaining - req.size
       /\ e = [segment |-> e.segment, ram |-> e.ram, table |-> e.table,
               hole_list |-> e.hole_list, remaining |-> e.remaining]
  <2> HIDE DEF taken, sg
  <2> DEFINE p == Placed(m, k, req, s)
  <2>1. /\ p.segment = [m.segment EXCEPT ![s] = sg]
        /\ p.ram = Append(m.ram, s)
        /\ p.table = [m.table EXCEPT ![pid] = Append(@, s)]
        /\ p.hole_list = taken
        /\ p = [segment |-> p.segment, ram |-> p.ram, table |-> p.table,
                hole_list |-> p.hole_list, remaining |-> m.remaining]
    <3> DEFINE q == [segment |-> [m.segment EXCEPT ![s] = sg], ram |-> Append(m.ram, s),
                     table |-> [m.table EXCEPT ![pid] = Append(@, s)],
                     hole_list |-> taken, remaining |-> m.remaining]
    <3>1. p = [[[[m EXCEPT !.segment = [m.segment EXCEPT ![s] = sg]]
                   EXCEPT !.ram = Append(m.ram, s)]
                  EXCEPT !.table = [m.table EXCEPT ![pid] = Append(@, s)]]
                 EXCEPT !.hole_list = taken]
      BY <1>11 DEF Placed, taken, sg
    <3> HIDE DEF p
    <3>2. p = q
      BY <1>11, <3>1
    <3> QED BY <3>2
  <2>2. e = [p EXCEPT !.remaining = m.remaining - req.size]
    BY DEF Given, Spends
  <2> HIDE DEF e, p
  <2> QED BY <2>1, <2>2
<1> HIDE DEF e, taken, sg, holes, pid, t
(* ram and the table.                                                      *)
<1>13. /\ e.ram \in Seq(Objects) /\ e.ram # <<>> /\ e.ram[1] = Zero /\ IsInjective(e.ram)
       /\ \A x : Contains(e.ram, x) <=> Contains(m.ram, x) \/ x = s
       /\ ToSet(e.ram) = ToSet(m.ram) \cup {s}
  <2>1. /\ e.ram \in Seq(Objects) /\ Len(e.ram) = Len(m.ram) + 1
        /\ \A j \in 1 .. Len(m.ram) + 1 :
             e.ram[j] = IF j <= Len(m.ram) THEN m.ram[j] ELSE s
    BY <1>2, <1>4, <1>12, AppendHeadTail
  <2>2. /\ \A x : Contains(e.ram, x) <=> Contains(m.ram, x) \/ x = s
        /\ IsInjective(e.ram)
    BY <1>2, <1>3, <1>4, <1>12, AppendMembers
  <2>3. 1 \in 1 .. Len(m.ram) + 1 /\ 1 <= Len(m.ram) /\ Len(m.ram) + 1 # 0
    BY <1>3
  <2>4. e.ram[1] = Zero /\ e.ram # <<>>
    BY <1>3, <2>1, <2>3, EmptySeq
  <2>5. ToSet(e.ram) = ToSet(m.ram) \cup {s}
    <3>1. \A x : x \in ToSet(e.ram) <=> Contains(e.ram, x)
      BY <2>1, Members
    <3> QED BY <1>3, <2>2, <3>1
  <2> QED BY <2>1, <2>2, <2>4, <2>5
<1>14. /\ e.table[pid] = Append(t, s)
       /\ \A p \in Pids : p # pid => e.table[p] = m.table[p]
       /\ e.table \in [Pids -> Seq(Objects)]
       /\ e.table[pid][1] = Zero /\ IsInjective(e.table[pid]) /\ e.table[pid] # <<>>
       /\ \A x : Contains(e.table[pid], x) <=> Contains(t, x) \/ x = s
  <2>1. /\ Append(t, s) \in Seq(Objects) /\ Len(Append(t, s)) = Len(t) + 1
        /\ \A j \in 1 .. Len(t) + 1 : Append(t, s)[j] = IF j <= Len(t) THEN t[j] ELSE s
    BY <1>4, <1>5, AppendHeadTail
  <2>2. /\ e.table[pid] = Append(t, s)
        /\ \A p \in Pids : p # pid => e.table[p] = m.table[p]
        /\ e.table \in [Pids -> Seq(Objects)]
    BY <1>1, <1>2, <1>12, <2>1 DEF t
  <2>3. 1 \in 1 .. Len(t) + 1 /\ 1 <= Len(t) /\ Len(t) + 1 # 0
    BY <1>5
  <2>4. e.table[pid][1] = Zero /\ e.table[pid] # <<>>
    BY <1>5, <2>1, <2>2, <2>3, EmptySeq
  <2>5. ~Contains(t, s)
    BY <1>1, <1>4 DEF t
  <2>6. /\ IsInjective(e.table[pid])
        /\ \A x : Contains(e.table[pid], x) <=> Contains(t, x) \/ x = s
    BY <1>4, <1>5, <2>2, <2>5, AppendMembers
  <2> QED BY <2>2, <2>4, <2>6
<1>15. /\ e.segment[s] = sg
       /\ \A x \in ToSet(m.ram) : x # s /\ e.segment[x] = m.segment[x]
  BY <1>2, <1>3, <1>4, <1>12
(* The parts of Sound.                                                     *)
<1>16. Shape(e)
  <2>1. e.segment \in [Objects -> SegmentRecords \cup {NoSegment}]
    BY <1>2, <1>7, <1>12
  <2>2. e.remaining \in Nat
    BY <1>1, <1>9, <1>10, <1>12
  <2>3. e \in [segment   : [Objects -> SegmentRecords \cup {NoSegment}],
               ram       : Seq(Objects),
               table     : [Pids -> Seq(Objects)],
               hole_list : Seq(Holes),
               remaining : Nat]
    BY <1>9, <1>12, <1>13, <1>14, <2>1, <2>2
  <2>4. e.segment[Zero] = m.segment[Zero]
    BY <1>2, <1>4, <1>12 DEF Objects
  <2>5. \A x \in ToSet(e.ram) : e.segment[x] \in LiveRecords
    BY <1>3, <1>7, <1>13, <1>15
  <2> QED BY <1>2, <2>3, <2>4, <2>5 DEF Shape
<1>17. Ram(e)
  BY <1>13 DEF Ram
<1>18. Tables(e)
  <2>1. Tables(m)
    BY DEF Sound
  <2> QED BY <1>14, <2>1 DEF Tables, HasTable
<1>19. Owned(e)
  <2> SUFFICES ASSUME NEW x \in Segments
               PROVE  /\ Contains(e.ram, x) <=> \E p \in Pids : Contains(e.table[p], x)
                      /\ \A p, q \in Pids :
                           Contains(e.table[p], x) /\ Contains(e.table[q], x) => p = q
    BY DEF Owned
  <2>1. /\ Contains(m.ram, x) <=> \E p \in Pids : Contains(m.table[p], x)
        /\ \A p, q \in Pids : Contains(m.table[p], x) /\ Contains(m.table[q], x) => p = q
    BY DEF Sound, Owned
  <2>2. \A p \in Pids : Contains(e.table[p], x) <=>
          Contains(m.table[p], x) \/ (x = s /\ p = pid)
    <3> SUFFICES ASSUME NEW p \in Pids
                 PROVE  Contains(e.table[p], x) <=>
                          Contains(m.table[p], x) \/ (x = s /\ p = pid)
      OBVIOUS
    <3>1. CASE p = pid
      BY <1>14, <3>1 DEF t
    <3>2. CASE p # pid
      BY <1>14, <3>2
    <3> QED BY <3>1, <3>2
  <2>3. CASE x = s
    <3>1. \A p \in Pids : Contains(e.table[p], x) <=> p = pid
      BY <1>4, <2>2, <2>3
    <3> QED BY <1>1, <1>13, <2>3, <3>1
  <2>4. CASE x # s
    BY <1>13, <2>1, <2>2, <2>4
  <2> QED BY <2>3, <2>4
<1>20. \A x \in ToSet(m.ram) :
         /\ Apart(m.segment[x].base, m.segment[x].offset, sg.base, sg.offset)
         /\ Apart(sg.base, sg.offset, m.segment[x].base, m.segment[x].offset)
  <2> SUFFICES ASSUME NEW x \in ToSet(m.ram)
               PROVE  /\ Apart(m.segment[x].base, m.segment[x].offset, sg.base, sg.offset)
                      /\ Apart(sg.base, sg.offset, m.segment[x].base, m.segment[x].offset)
    OBVIOUS
  <2>1. Apart(m.segment[x].base, m.segment[x].offset, holes[k].base, holes[k].size)
    BY <1>8 DEF ApartFromHoles, holes
  <2>2. m.segment[x].base \in Nat /\ m.segment[x].offset \in Nat
    BY <1>3
  <2>3. holes[k].size >= req.size
    BY DEF holes
  <2>4. Apart(m.segment[x].base, m.segment[x].offset, sg.base, sg.offset)
    BY <1>1, <1>6, <1>7, <2>1, <2>2, <2>3 DEF Apart
  <2> QED BY <2>4 DEF Apart
<1>21. Geometry(e)
  <2>1. SegmentsApart(e)
    BY <1>8, <1>13, <1>15, <1>20 DEF SegmentsApart
  <2>2. SegmentsInside(e)
    <3>1. holes[k].base + holes[k].size <= MemorySize + 1 /\ holes[k].size >= req.size
      BY <1>8 DEF HolesInside, holes
    <3>2. sg.base + sg.offset <= MemorySize + 1
      BY <1>1, <1>6, <1>7, <3>1, MemoryAssumption
    <3> QED BY <1>8, <1>13, <1>15, <3>2 DEF SegmentsInside, End
  <2>3. ASSUME NEW x \in ToSet(e.ram)
        PROVE  ApartFromHoles(e.hole_list, e.segment[x].base, e.segment[x].offset)
    <3>1. CASE x \in ToSet(m.ram)
      <4>1. m.segment[x].base \in Nat /\ m.segment[x].offset \in Nat
        BY <1>3, <3>1
      <4> QED BY <1>8, <1>9, <1>12, <1>15, <3>1, <4>1
    <3>2. CASE x = s
      BY <1>7, <1>9, <1>12, <1>15, <3>2
    <3> QED BY <1>13, <3>1, <3>2
  <2> QED BY <1>9, <1>12, <2>1, <2>2, <2>3 DEF Geometry
<1>22. Accounts(e)
  <2> DEFINE S == ToSet(m.ram)
             U == ToSet(e.ram)
  <2>1. m.remaining + SumOfSegments(m.segment, S) = MemorySize
    BY DEF Sound, Accounts
  <2>2. U = S \cup {s} /\ s \in U /\ U \ {s} = S /\ IsFiniteSet(U) /\ IsFiniteSet(S)
    BY <1>3, <1>4, <1>13, FS_AddElement
  <2>3. \A x \in U : e.segment[x].offset \in Nat
    BY <1>1, <1>3, <1>7, <1>13, <1>15
  <2>4. \A x \in S : /\ m.segment[x].offset \in Nat
                     /\ e.segment[x].offset = m.segment[x].offset
    BY <1>3, <1>15
  <2> HIDE DEF S, U
  <2>5. SumOfSegments(e.segment, U) = e.segment[s].offset + SumOfSegments(e.segment, S)
    <3> DEFINE new == e.segment
    <3>1. IsFiniteSet(U) /\ s \in U /\ \A x \in U : new[x].offset \in Nat
      BY <2>2, <2>3
    <3> HIDE DEF new
    <3>2. SumOfSegments(new, U) = new[s].offset + SumOfSegments(new, U \ {s})
      BY <3>1, SumOfSegmentsSteps
    <3> QED BY <2>2, <3>2 DEF new
  <2>6. /\ SumOfSegments(m.segment, S) \in Nat
        /\ SumOfSegments(e.segment, S) = SumOfSegments(m.segment, S)
    <3> DEFINE new == e.segment
               old == m.segment
    <3>1. /\ IsFiniteSet(S) /\ \A x \in S : old[x].offset \in Nat
          /\ \A x \in S : new[x].offset = old[x].offset
      BY <2>2, <2>4
    <3> HIDE DEF new, old
    <3>2. SumOfSegments(old, S) \in Nat /\ SumOfSegments(new, S) = SumOfSegments(old, S)
      BY <3>1, SumOfSegmentsSteps
    <3> QED BY <3>2 DEF new, old
  <2>7. e.remaining = SumOfHoles(e.hole_list)
    BY <1>9, <1>10, <1>12
  <2>8. e.remaining + SumOfSegments(e.segment, U) = MemorySize
    BY <1>1, <1>2, <1>7, <1>12, <1>15, <2>1, <2>5, <2>6, MemoryAssumption
  <2> QED BY <2>7, <2>8 DEF Accounts, U
<1>23. Sound(e)
  BY <1>16, <1>17, <1>18, <1>19, <1>21, <1>22 DEF Sound
<1>24. \A p \in Pids : HasTable(e, p) <=> HasTable(m, p)
  BY <1>14 DEF HasTable, pid
<1> QED BY <1>12, <1>23, <1>24 DEF e, sg, pid

-----------------------------------------------------------------------------
(* compact_memory.  Sorting ram permutes it: the number of segments before *)
(* each one tells where it goes.                                           *)
LEMMA SortedRamIs ==
  ASSUME NEW m, Sound(m)
  PROVE  LET r == SortedRam(m) IN
         /\ r \in Seq(Objects) /\ Len(r) = Len(m.ram) /\ r[1] = Zero
         /\ IsInjective(r) /\ ToSet(r) = ToSet(m.ram)
         /\ \A j, k \in 1 .. Len(r) :
              j < k => m.segment[r[j]].base < m.segment[r[k]].base
<1> DEFINE L == ToSet(m.ram)
           n == Len(m.ram)
           Before(s) == {t \in L : m.segment[t].base < m.segment[s].base}
           rank == [s \in L |-> Cardinality(Before(s))]
           r == SortedRam(m)
<1>1. /\ m.ram \in Seq(Objects) /\ n \in Nat /\ n >= 1 /\ m.ram[1] = Zero
      /\ \A j, k \in 1 .. n : m.ram[j] = m.ram[k] => j = k
      /\ L \subseteq Objects
      /\ \A s \in L : m.segment[s].base \in Nat
      /\ \A s, t \in L : m.segment[s].base = m.segment[t].base => s = t
      /\ IsFiniteSet(L)
  BY RamFacts
<1>2. DOMAIN m.ram = 1 .. n
  BY <1>1, LenProperties
<1>3. Zero \in L /\ m.segment[Zero].base = 0
  <2>1. 1 \in 1 .. n
    BY <1>1
  <2>2. Zero \in L
    BY <1>1, <1>2, <2>1 DEF ToSet
  <2> QED BY <2>2 DEF Sound, Shape
<1>4. Cardinality(L) = n
  <2>1. m.ram \in Injection(1 .. n, L) /\ m.ram \in Surjection(1 .. n, L)
    BY <1>1, <1>2, LenProperties DEF ToSet, Injection, Surjection, IsInjective
  <2>2. IsFiniteSet(1 .. n) /\ Cardinality(1 .. n) = n
    <3>1. 1 \in Int /\ n \in Int /\ ~(1 > n) /\ n - 1 + 1 = n
      BY <1>1
    <3> QED BY <3>1, FS_Interval
  <2>3. Cardinality(L) = Cardinality(1 .. n)
    BY <2>1, <2>2, FS_Surjection
  <2> QED BY <2>2, <2>3
<1>5. r = [k \in 1 .. n |-> CHOOSE s \in L : Cardinality(Before(s)) = k - 1]
  BY <1>2 DEF SortedRam
<1>6. \A s \in L : rank[s] = Cardinality(Before(s))
  OBVIOUS
<1>7. \A s, t \in L : t \in Before(s) <=> m.segment[t].base < m.segment[s].base
  OBVIOUS
<1>8. \A s \in L : Before(s) \in SUBSET L
  OBVIOUS
<1>9. rank = [s \in L |-> rank[s]]
  OBVIOUS
<1> HIDE DEF rank, L, n, r, Before
<1>10. ASSUME NEW s \in L PROVE rank[s] \in 0 .. n - 1
  <2>1. Before(s) \in SUBSET (L \ {s})
    <3>1. s \notin Before(s)
      BY <1>1, <1>7
    <3> QED BY <1>8, <3>1
  <2>2. IsFiniteSet(L \ {s}) /\ Cardinality(L \ {s}) = n - 1
    BY <1>1, <1>4, FS_RemoveElement
  <2>3. IsFiniteSet(Before(s)) /\ Cardinality(Before(s)) <= n - 1
    BY <2>1, <2>2, FS_Subset
  <2>4. Cardinality(Before(s)) \in Nat
    BY <2>3, FS_CardinalityType
  <2> QED BY <1>1, <1>6, <2>3, <2>4
<1>11. ASSUME NEW s \in L, NEW t \in L, m.segment[s].base < m.segment[t].base
       PROVE  rank[s] # rank[t] /\ rank[s] <= rank[t]
  <2>1. Before(s) \in SUBSET Before(t)
    <3>1. ASSUME NEW x \in L, m.segment[x].base < m.segment[s].base
          PROVE  m.segment[x].base < m.segment[t].base
      BY <1>1, <1>11, <3>1
    <3> QED BY <1>7, <1>8, <3>1
  <2>2. s \in Before(t) /\ s \notin Before(s)
    BY <1>1, <1>7, <1>11
  <2>3. IsFiniteSet(Before(t))
    BY <1>1, <1>8, FS_Subset
  <2> QED BY <1>6, <2>1, <2>2, <2>3, FS_Subset
<1>12. \A s, t \in L : rank[s] = rank[t] => s = t
  <2> SUFFICES ASSUME NEW s \in L, NEW t \in L, rank[s] = rank[t]
               PROVE  s = t
    OBVIOUS
  <2>1. ~(m.segment[s].base < m.segment[t].base) /\ ~(m.segment[t].base < m.segment[s].base)
    BY <1>11
  <2>2. m.segment[s].base = m.segment[t].base
    BY <1>1, <2>1
  <2> QED BY <1>1, <2>2
<1>13. rank \in Surjection(L, 0 .. n - 1)
  <2>1. rank \in Injection(L, 0 .. n - 1)
    BY <1>9, <1>10, <1>12 DEF Injection, IsInjective
  <2>2. IsFiniteSet(0 .. n - 1) /\ Cardinality(0 .. n - 1) = n
    <3>1. 0 \in Int /\ n - 1 \in Int /\ ~(0 > n - 1) /\ (n - 1) - 0 + 1 = n
      BY <1>1
    <3> QED BY <3>1, FS_Interval
  <2> QED BY <1>4, <2>1, <2>2, FS_Injection
<1>14. ASSUME NEW k \in 1 .. n
       PROVE  r[k] \in L /\ rank[r[k]] = k - 1
  <2>1. k - 1 \in 0 .. n - 1
    BY <1>1
  <2>2. \E s \in L : rank[s] = k - 1
    BY <1>13, <2>1 DEF Surjection
  <2>3. \E s \in L : Cardinality(Before(s)) = k - 1
    BY <1>6, <2>2
  <2>4. r[k] = CHOOSE s \in L : Cardinality(Before(s)) = k - 1
    BY <1>5
  <2> QED BY <1>6, <2>3, <2>4
<1>15. r \in Seq(Objects) /\ Len(r) = n /\ DOMAIN r = 1 .. n
  <2>1. r = [k \in 1 .. n |-> r[k]]
    BY <1>5
  <2>2. \A k \in 1 .. n : r[k] \in Objects
    BY <1>1, <1>14
  <2> QED BY <1>1, <2>1, <2>2, IsASeq, LenProperties
<1>16. IsInjective(r)
  <2>1. \A j, k \in 1 .. n : j - 1 = k - 1 => j = k
    BY <1>1
  <2> QED BY <1>14, <1>15, <2>1 DEF IsInjective
<1>17. ASSUME NEW s \in L PROVE \E k \in 1 .. n : r[k] = s
  <2>1. rank[s] + 1 \in 1 .. n /\ (rank[s] + 1) - 1 = rank[s]
    BY <1>1, <1>10
  <2> QED BY <1>12, <1>14, <2>1
<1>18. ToSet(r) = L
  BY <1>14, <1>15, <1>17 DEF ToSet
<1>19. r[1] = Zero
  <2>1. Before(Zero) = {}
    <3>1. \A x \in L : ~(m.segment[x].base < m.segment[Zero].base)
      BY <1>1, <1>3
    <3> QED BY <1>3, <1>7, <1>8, <3>1
  <2>2. rank[Zero] = 0
    BY <1>3, <1>6, <2>1, FS_EmptySet
  <2>3. 1 \in 1 .. n /\ 1 - 1 = 0
    BY <1>1
  <2>4. r[1] \in L /\ rank[r[1]] = 0
    BY <1>14, <2>3
  <2> QED BY <1>3, <1>12, <2>2, <2>4
<1>20. ASSUME NEW j \in 1 .. n, NEW k \in 1 .. n, j < k
       PROVE  m.segment[r[j]].base < m.segment[r[k]].base
  <2>1. /\ r[j] \in L /\ r[k] \in L /\ rank[r[j]] = j - 1 /\ rank[r[k]] = k - 1
        /\ j \in Nat /\ k \in Nat
    BY <1>1, <1>14
  <2>2. r[j] # r[k] /\ ~(rank[r[k]] <= rank[r[j]])
    BY <1>20, <2>1
  <2>3. ~(m.segment[r[k]].base < m.segment[r[j]].base)
    BY <1>11, <2>1, <2>2
  <2>4. m.segment[r[k]].base # m.segment[r[j]].base
    BY <1>1, <2>1, <2>2
  <2> QED BY <1>1, <2>1, <2>3, <2>4
<1> QED BY <1>15, <1>16, <1>18, <1>19, <1>20 DEF r, L, n

(* Each segment moves to the end of those before it: P[k] is where the     *)
(* first k of the sorted ram end.                                          *)
Ends(P, m, r) ==
  /\ P[0] = 0 /\ P[1] = ZeroSize
  /\ \A k \in 1 .. Len(r) : P[k] = P[k - 1] + m.segment[r[k]].offset
  /\ \A k \in 0 .. Len(r) : P[k] \in Nat
  /\ \A j, k \in 0 .. Len(r) : j <= k => P[j] <= P[k]
  /\ P[Len(r)] = SumOfSegments(m.segment, ToSet(r))

(* The sums exist, grow, and end where the segments do.                    *)
LEMMA EndsExist ==
  ASSUME NEW m, NEW r \in Seq(ToSet(m.ram)), IsInjective(r), Len(r) >= 1, r[1] = Zero,
         Shape(m)
  PROVE  \E P : Ends(P, m, r)
<1> DEFINE L == ToSet(m.ram)
           n == Len(r)
<1>1. \A s \in L : SizeIn(m.segment, s) \in Nat
  BY DEF SizeIn, Shape, LiveRecords
<1>2. n \in Nat /\ \A k \in 1 .. n : r[k] \in L
  BY LenProperties, ElementOfSeq
<1>3. PICK P : SegmentSum!PartialSums(P, m.segment, r)
  BY <1>1, SegmentSum!SeqSumNat DEF SizeIn
<1>4. SegmentSum!SeqSum(m.segment, r) = SegmentSum!SetSum(m.segment, ToSet(r))
  BY <1>1, SegmentSum!SeqSumIsSetSum
    DEF SizeIn, IsInjective, SegmentSum!IsInjective, ToSet, SegmentSum!ToSet
<1> HIDE DEF L
<1>5. /\ P[0] = 0
      /\ \A k \in 1 .. n : P[k] = P[k - 1] + m.segment[r[k]].offset
      /\ \A k \in 0 .. n : P[k] \in Nat
      /\ P[n] = SumOfSegments(m.segment, ToSet(r))
  BY <1>3, <1>4, SegmentSumIs DEF SegmentSum!PartialSums, SizeIn
<1> HIDE DEF n
<1>6. P[1] = ZeroSize
  <2>1. 1 \in 1 .. n /\ 1 - 1 = 0
    BY <1>2 DEF n
  <2>2. P[1] = P[0] + m.segment[Zero].offset /\ m.segment[Zero].offset = ZeroSize
    BY <1>5, <2>1 DEF Shape
  <2> QED BY <1>5, <2>2, MemoryAssumption
<1> DEFINE T == {k \in Nat : k <= n => \A j \in 0 .. k : P[j] <= P[k]}
<1>7. T = Nat
  <2>1. 0 \in T
    BY <1>5
  <2>2. ASSUME NEW k \in T PROVE k + 1 \in T
    <3>1. SUFFICES ASSUME k + 1 <= n, NEW j \in 0 .. k + 1 PROVE P[j] <= P[k + 1]
      OBVIOUS
    <3>2. k \in Nat /\ k + 1 \in 1 .. n /\ (k + 1) - 1 = k /\ k <= n /\ k \in 0 .. n
          /\ k + 1 \in 0 .. n
      BY <1>2, <3>1
    <3>3. P[k + 1] = P[k] + m.segment[r[k + 1]].offset /\ P[k] \in Nat /\ P[k + 1] \in Nat
          /\ m.segment[r[k + 1]].offset \in Nat
      BY <1>1, <1>2, <1>5, <3>2 DEF SizeIn
    <3>4. CASE j = k + 1
      BY <3>3, <3>4
    <3>5. CASE j \in 0 .. k
      <4>1. P[j] <= P[k]
        BY <3>2, <3>5
      <4>2. j \in 0 .. n
        BY <1>2, <3>2, <3>5
      <4>3. P[j] \in Nat
        BY <1>5, <4>2
      <4> DEFINE a == P[j]
                 b == P[k]
                 c == P[k + 1]
                 d == m.segment[r[k + 1]].offset
      <4>4. a <= b /\ a \in Nat /\ b \in Nat /\ c \in Nat /\ d \in Nat /\ c = b + d
        BY <3>3, <4>1, <4>3
      <4> HIDE DEF a, b, c, d
      <4>5. a <= c
        BY <4>4
      <4> QED BY <4>5 DEF a, c
    <3> QED BY <3>2, <3>4, <3>5
  <2>3. T \in SUBSET Nat
    OBVIOUS
  <2> HIDE DEF T
  <2> QED BY <2>1, <2>2, <2>3, Moving!NatSetInduction
<1>8. \A j, k \in 0 .. n : j <= k => P[j] <= P[k]
  <2> SUFFICES ASSUME NEW j \in 0 .. n, NEW k \in 0 .. n, j <= k PROVE P[j] <= P[k]
    OBVIOUS
  <2>1. k \in Nat /\ k <= n /\ j \in 0 .. k
    BY <1>2
  <2> QED BY <1>7, <2>1
<1> QED BY <1>5, <1>6, <1>8 DEF Ends, n

(* What the fold has when the first k of r are where they belong.          *)
Moved(acc, P, m, r, k) ==
  /\ acc.end = P[k]
  /\ acc.segment \in [Objects -> SegmentRecords \cup {NoSegment}]
  /\ \A j \in 1 .. k : acc.segment[r[j]] = [m.segment[r[j]] EXCEPT !.base = P[j - 1]]
  /\ \A s \in Objects : (\A j \in 1 .. k : r[j] # s) => acc.segment[s] = m.segment[s]

(* One segment is moved to the end of those before it.                     *)
LEMMA MoveStepKeeps ==
  ASSUME NEW m, Shape(m), NEW r \in Seq(ToSet(m.ram)), IsInjective(r), NEW P, Ends(P, m, r),
         NEW k \in Nat, k + 1 <= Len(r), NEW acc, Moved(acc, P, m, r, k)
  PROVE  Moved(MoveStep(acc, r[k + 1]), P, m, r, k + 1)
<1> DEFINE s == r[k + 1]
           n == Len(r)
           e == MoveStep(acc, s)
           moved == [m.segment[s] EXCEPT !.base = P[k]]
<1>1. n \in Nat /\ (\A j \in 1 .. n : r[j] \in ToSet(m.ram)) /\ DOMAIN r = 1 .. n
  BY LenProperties, ElementOfSeq
<1> HIDE DEF n
<1>2. k + 1 \in 1 .. n /\ k \in 0 .. n /\ k + 1 \in 0 .. n /\ (k + 1) - 1 = k
      /\ (\A j \in 1 .. k : j \in 1 .. n /\ j # k + 1)
      /\ (\A j \in 1 .. k + 1 : j \in 1 .. k \/ j = k + 1)
  BY <1>1 DEF n
<1>3. \A j \in 1 .. k : r[j] # s
  BY <1>1, <1>2 DEF IsInjective
<1>4. s \in ToSet(m.ram) /\ s \in Objects
  <2>1. ToSet(m.ram) \subseteq Objects
    BY Members DEF Shape
  <2> QED BY <1>1, <1>2, <2>1
<1>5. m.segment[s] \in LiveRecords
  BY <1>4 DEF Shape
<1>6. acc.segment[s] = m.segment[s]
  BY <1>3, <1>4 DEF Moved
<1>7. P[k] \in Nat /\ P[k + 1] = P[k] + m.segment[s].offset
  BY <1>2 DEF Ends, n
<1>8. moved \in SegmentRecords
  BY <1>5, <1>7 DEF LiveRecords, SegmentRecords
<1>9. acc.end = P[k] /\ acc.segment \in [Objects -> SegmentRecords \cup {NoSegment}]
  BY DEF Moved
<1>10. e.segment = [acc.segment EXCEPT ![s] = moved] /\ e.end = P[k + 1]
  BY <1>4, <1>6, <1>7, <1>9 DEF MoveStep
<1> HIDE DEF s, e, moved
<1>11. /\ e.segment \in [Objects -> SegmentRecords \cup {NoSegment}]
       /\ e.segment[s] = moved
       /\ \A x \in Objects : x # s => e.segment[x] = acc.segment[x]
  BY <1>4, <1>8, <1>9, <1>10
<1>12. ASSUME NEW j \in 1 .. k + 1
       PROVE  e.segment[r[j]] = [m.segment[r[j]] EXCEPT !.base = P[j - 1]]
  <2>1. CASE j = k + 1
    BY <1>2, <1>11, <2>1 DEF s, moved
  <2>2. CASE j \in 1 .. k
    <3>1. r[j] \in Objects /\ r[j] # s
      <4>1. ToSet(m.ram) \subseteq Objects
        BY Members DEF Shape
      <4> QED BY <1>1, <1>2, <1>3, <2>2, <4>1
    <3>2. acc.segment[r[j]] = [m.segment[r[j]] EXCEPT !.base = P[j - 1]]
      BY <2>2 DEF Moved
    <3> QED BY <1>11, <3>1, <3>2
  <2> QED BY <1>2, <2>1, <2>2
<1>13. ASSUME NEW x \in Objects, \A j \in 1 .. k + 1 : r[j] # x
       PROVE  e.segment[x] = m.segment[x]
  <2>1. k + 1 \in 1 .. k + 1 /\ \A j \in 1 .. k : j \in 1 .. k + 1
    OBVIOUS
  <2>2. x # s /\ \A j \in 1 .. k : r[j] # x
    BY <1>13, <2>1 DEF s
  <2>3. acc.segment[x] = m.segment[x]
    BY <2>2 DEF Moved
  <2> QED BY <1>11, <2>2, <2>3
<1> QED BY <1>10, <1>11, <1>12, <1>13 DEF Moved, e, s

(* compact_memory as a closed form: every segment where the sums say.      *)
LEMMA CompactMoves ==
  ASSUME NEW m, Shape(m), NEW r \in Seq(ToSet(m.ram)), IsInjective(r), Len(r) >= 1,
         r[1] = Zero, r = SortedRam(m), NEW P, Ends(P, m, r)
  PROVE  \E acc : /\ Moved(acc, P, m, r, Len(r))
                  /\ CompactMemory(m) =
                       [m EXCEPT !.segment = acc.segment,
                                 !.ram = r,
                                 !.hole_list = <<LastHole(P[Len(r)], m.remaining)>>]
<1> DEFINE n == Len(r)
           rest == Tail(r)
           start == [segment |-> m.segment, end |-> ZeroSize]
<1>1. /\ n \in Nat /\ rest \in Seq(ToSet(m.ram)) /\ Len(rest) = n - 1
      /\ \A k \in 1 .. n - 1 : rest[k] = r[k + 1]
  <2>1. r # <<>>
    BY LenProperties
  <2> QED BY <2>1, AppendHeadTail
<1>2. PICK F : Moving!Folding(F, 0, start, rest)
  <2> HIDE DEF start, rest
  <2> QED BY <1>1, Moving!FoldSteps
<1>3. /\ F[0] = start
      /\ \A k \in 1 .. Len(rest) : F[k] = MoveStep(F[k - 1], rest[k])
      /\ Moving!Folded(0, start, rest) = F[Len(rest)]
  BY <1>2 DEF Moving!Folding, MoveOp
<1> DEFINE T == {k \in Nat : k + 1 <= n => Moved(F[k], P, m, r, k + 1)}
<1>4. 0 \in T
  <2>1. Zero \in Objects /\ m.segment \in [Objects -> SegmentRecords \cup {NoSegment}]
    BY DEF Objects, Shape
  <2>2. F[0].segment = m.segment /\ F[0].end = P[1]
    BY <1>3 DEF Ends
  <2>3. m.segment[Zero] = [m.segment[Zero] EXCEPT !.base = P[0]]
    BY DEF Shape, Ends
  <2>4. \A j \in 1 .. 1 : m.segment[r[j]] = [m.segment[r[j]] EXCEPT !.base = P[j - 1]]
    <3>1. \A j \in 1 .. 1 : j = 1 /\ j - 1 = 0
      OBVIOUS
    <3> QED BY <2>3, <3>1
  <2>5. Moved(F[0], P, m, r, 1)
    BY <2>1, <2>2, <2>4 DEF Moved
  <2> QED BY <2>5
<1> HIDE DEF rest, n, start
<1>5. ASSUME NEW k \in T PROVE k + 1 \in T
  <2>1. SUFFICES ASSUME (k + 1) + 1 <= n PROVE Moved(F[k + 1], P, m, r, (k + 1) + 1)
    OBVIOUS
  <2>2. /\ k \in Nat /\ k + 1 \in Nat /\ k + 1 \in 1 .. n - 1 /\ (k + 1) - 1 = k
        /\ k + 1 <= n
    BY <1>1, <2>1
  <2>3. Moved(F[k], P, m, r, k + 1)
    BY <2>2
  <2>4. F[k + 1] = MoveStep(F[k], r[(k + 1) + 1])
    BY <1>1, <1>3, <2>2
  <2> QED BY <2>1, <2>2, <2>3, <2>4, MoveStepKeeps DEF n
<1>6. T = Nat
  <2>1. T \in SUBSET Nat
    OBVIOUS
  <2> HIDE DEF T
  <2> QED BY <1>4, <1>5, <2>1, Moving!NatSetInduction
<1>7. n - 1 \in Nat /\ (n - 1) + 1 = n
  BY <1>1 DEF n
<1>8. Moved(F[n - 1], P, m, r, n)
  BY <1>6, <1>7
<1>9. Moving!Folded(0, start, rest) = F[n - 1]
  BY <1>1, <1>3
<1>10. F[n - 1].end = P[n]
  BY <1>8 DEF Moved
<1>11. CompactMemory(m) =
         [m EXCEPT !.segment = F[n - 1].segment,
                   !.ram = r,
                   !.hole_list = <<LastHole(P[n], m.remaining)>>]
  BY <1>9, <1>10, CompactMemoryIs DEF start, rest
<1> QED BY <1>8, <1>11 DEF n

(* compact_memory keeps the structure sound: the segments keep their ids   *)
(* and sizes, and what is left is one hole.                                *)
LEMMA CompactKeepsSound ==
  ASSUME NEW m, Sound(m), m.remaining # 0
  PROVE  LET e == CompactMemory(m) IN
         /\ Sound(e)
         /\ Len(e.hole_list) = 1 /\ e.hole_list[1].size = m.remaining
         /\ e.table = m.table /\ e.remaining = m.remaining
         /\ ToSet(e.ram) = ToSet(m.ram)
         /\ \A s \in ToSet(m.ram) : /\ e.segment[s].s_id = m.segment[s].s_id
                                    /\ e.segment[s].offset = m.segment[s].offset
<1> DEFINE r == SortedRam(m)
           n == Len(r)
           L == ToSet(m.ram)
           e == CompactMemory(m)
<1>1. /\ r \in Seq(Objects) /\ Len(r) = Len(m.ram) /\ r[1] = Zero
      /\ IsInjective(r) /\ ToSet(r) = L /\ n \in Nat /\ n >= 1 /\ DOMAIN r = 1 .. n
  BY SortedRamIs, RamFacts, LenProperties
<1>2. /\ m.segment \in [Objects -> SegmentRecords \cup {NoSegment}]
      /\ m.table \in [Pids -> Seq(Objects)] /\ m.remaining \in Nat \ {0}
      /\ Shape(m)
  BY DEF Sound, Shape
<1>3. /\ L \subseteq Objects /\ IsFiniteSet(L) /\ Zero \in Objects
      /\ \A s \in L : /\ m.segment[s] \in LiveRecords
                      /\ m.segment[s].offset \in Nat \ {0}
      /\ \A s : s \in L <=> Contains(m.ram, s)
  BY RamFacts DEF Objects
<1> HIDE DEF r, n, L
<1>4. /\ \A s \in L : \E j \in 1 .. n : r[j] = s
      /\ \A j \in 1 .. n : r[j] \in L
      /\ \A i, j \in 1 .. n : r[i] = r[j] => i = j
  BY <1>1 DEF ToSet, IsInjective
<1>5. r \in Seq(L)
  BY <1>1, <1>4, SeqMonotonic, LenProperties, IsASeq
<1>6. PICK P : Ends(P, m, r)
  BY <1>1, <1>2, <1>5, EndsExist DEF L, n
<1>7. PICK acc : /\ Moved(acc, P, m, r, n)
                 /\ e = [m EXCEPT !.segment = acc.segment,
                                  !.ram = r,
                                  !.hole_list = <<LastHole(P[n], m.remaining)>>]
  BY <1>1, <1>2, <1>5, <1>6, CompactMoves DEF r, n, L
<1> DEFINE h == [base |-> P[n] + 1, size |-> m.remaining]
<1>8. /\ P[0] = 0
      /\ \A k \in 1 .. n : P[k] = P[k - 1] + m.segment[r[k]].offset
      /\ \A k \in 0 .. n : P[k] \in Nat
      /\ \A j, k \in 0 .. n : j <= k => P[j] <= P[k]
      /\ P[n] = SumOfSegments(m.segment, L)
  BY <1>1, <1>6 DEF Ends, n
<1>9. P[n] \in Nat /\ P[n] + m.remaining = MemorySize
  <2>1. n \in 0 .. n
    BY <1>1
  <2> QED BY <1>2, <1>8, <2>1, MemoryAssumption DEF Sound, Accounts, L
<1> HIDE DEF e
<1>10. /\ e.segment = acc.segment /\ e.ram = r /\ e.table = m.table
       /\ e.hole_list = <<h>> /\ e.remaining = m.remaining
       /\ e = [segment |-> e.segment, ram |-> e.ram, table |-> e.table,
               hole_list |-> e.hole_list, remaining |-> e.remaining]
  <2>1. m = [segment |-> m.segment, ram |-> m.ram, table |-> m.table,
             hole_list |-> m.hole_list, remaining |-> m.remaining]
    BY <1>2 DEF Shape
  <2>2. e = [segment |-> acc.segment, ram |-> r, table |-> m.table,
             hole_list |-> <<h>>, remaining |-> m.remaining]
    BY <1>7, <2>1 DEF LastHole
  <2> QED BY <2>2
<1>11. h \in Holes /\ h.base = P[n] + 1 /\ h.size = m.remaining
  BY <1>2, <1>9 DEF Holes
<1> HIDE DEF h
<1>12. <<h>> \in Seq(Holes) /\ Len(<<h>>) = 1 /\ <<h>>[1] = h
  BY <1>11
<1>13. ASSUME NEW j \in 1 .. n
       PROVE  /\ j \in 0 .. n /\ j - 1 \in 0 .. n
              /\ e.segment[r[j]].base = P[j - 1]
              /\ e.segment[r[j]].offset = m.segment[r[j]].offset
              /\ e.segment[r[j]].s_id = m.segment[r[j]].s_id
              /\ e.segment[r[j]] \in LiveRecords
              /\ P[j - 1] \in Nat
              /\ e.segment[r[j]].base + e.segment[r[j]].offset = P[j]
  <2>1. j \in 0 .. n /\ j - 1 \in 0 .. n
    BY <1>1
  <2>2. e.segment[r[j]] = [m.segment[r[j]] EXCEPT !.base = P[j - 1]]
    BY <1>7, <1>10 DEF Moved
  <2>3. m.segment[r[j]] \in LiveRecords /\ P[j - 1] \in Nat
    BY <1>3, <1>4, <1>8, <2>1
  <2> QED BY <1>8, <2>1, <2>2, <2>3 DEF LiveRecords
<1>14. ASSUME NEW s \in L
       PROVE  /\ e.segment[s].offset = m.segment[s].offset
              /\ e.segment[s].s_id = m.segment[s].s_id
              /\ e.segment[s] \in LiveRecords
  BY <1>4, <1>13
<1>15. Shape(e)
  <2>1. e.segment \in [Objects -> SegmentRecords \cup {NoSegment}]
    BY <1>7, <1>10 DEF Moved
  <2>2. e \in [segment   : [Objects -> SegmentRecords \cup {NoSegment}],
               ram       : Seq(Objects),
               table     : [Pids -> Seq(Objects)],
               hole_list : Seq(Holes),
               remaining : Nat]
    BY <1>1, <1>2, <1>10, <1>12, <2>1
  <2>3. e.segment[Zero] = [base |-> 0, offset |-> ZeroSize, s_id |-> 0]
    <3>1. 1 \in 1 .. n /\ 1 - 1 = 0
      BY <1>1
    <3>2. e.segment[Zero] = [m.segment[Zero] EXCEPT !.base = 0]
      BY <1>1, <1>7, <1>8, <1>10, <3>1 DEF Moved
    <3> QED BY <1>2, <3>2 DEF Shape
  <2> QED BY <1>1, <1>10, <1>14, <2>2, <2>3 DEF Shape
<1>16. Ram(e) /\ Tables(e)
  <2>1. r # <<>>
    BY <1>1 DEF n
  <2>2. Tables(m)
    BY DEF Sound
  <2> QED BY <1>1, <1>10, <2>1, <2>2 DEF Ram, Tables, HasTable
<1>17. Owned(e)
  <2>1. \A s : Contains(e.ram, s) <=> Contains(m.ram, s)
    <3>1. \A s : s \in ToSet(r) <=> Contains(r, s)
      BY <1>1, Members
    <3> QED BY <1>1, <1>3, <1>10, <3>1
  <2>2. Owned(m)
    BY DEF Sound
  <2> QED BY <1>10, <2>1, <2>2 DEF Owned
<1>18. Geometry(e)
  <2>1. ASSUME NEW i \in 1 .. n, NEW j \in 1 .. n, i < j
        PROVE  P[i] <= P[j - 1]
    <3>1. i \in 0 .. n /\ j - 1 \in 0 .. n /\ i <= j - 1
      BY <1>1, <2>1
    <3> QED BY <1>8, <3>1
  <2>2. SegmentsApart(e)
    <3> SUFFICES ASSUME NEW s \in L, NEW t \in L, s # t
                 PROVE  Apart(e.segment[s].base, e.segment[s].offset,
                              e.segment[t].base, e.segment[t].offset)
      BY <1>1, <1>10 DEF SegmentsApart
    <3>1. PICK i \in 1 .. n, j \in 1 .. n : r[i] = s /\ r[j] = t
      BY <1>4
    <3>2. CASE i < j
      BY <1>13, <2>1, <3>1, <3>2 DEF Apart
    <3>3. CASE j < i
      BY <1>13, <2>1, <3>1, <3>3 DEF Apart
    <3>4. i # j
      BY <3>1
    <3> QED BY <1>1, <3>2, <3>3, <3>4
  <2>3. ASSUME NEW s \in L
        PROVE  /\ e.segment[s].base + e.segment[s].offset <= P[n]
               /\ e.segment[s].base \in Nat /\ e.segment[s].offset \in Nat
    <3>1. PICK j \in 1 .. n : r[j] = s
      BY <1>4
    <3>2. n \in 0 .. n /\ j <= n
      BY <1>1
    <3>3. P[j] <= P[n]
      BY <1>8, <1>13, <3>2
    <3> QED BY <1>13, <1>14, <3>1, <3>3 DEF LiveRecords
  <2>4. HolesApart(e.hole_list)
    <3>1. \A j, k \in 1 .. 1 : j = k
      OBVIOUS
    <3> QED BY <1>10, <1>12, <3>1 DEF HolesApart
  <2>5. ASSUME NEW s \in ToSet(e.ram)
        PROVE  ApartFromHoles(e.hole_list, e.segment[s].base, e.segment[s].offset)
    <3>1. s \in L
      BY <1>1, <1>10
    <3>2. Apart(e.segment[s].base, e.segment[s].offset, h.base, h.size)
      BY <1>9, <1>11, <2>3, <3>1 DEF Apart
    <3>3. \A k \in 1 .. 1 : k = 1
      OBVIOUS
    <3> QED BY <1>10, <1>12, <3>2, <3>3 DEF ApartFromHoles
  <2>6. SegmentsInside(e)
    <3>1. P[n] <= MemorySize + 1
      BY <1>2, <1>9, MemoryAssumption
    <3>2. \A s \in L : End(e.segment[s]) <= MemorySize + 1
      BY <1>9, <2>3, <3>1, MemoryAssumption DEF End
    <3> QED BY <1>1, <1>10, <3>2 DEF SegmentsInside
  <2>7. HolesInside(e.hole_list)
    <3>1. \A k \in 1 .. 1 : k = 1
      OBVIOUS
    <3>2. h.base + h.size <= MemorySize + 1
      BY <1>2, <1>9, <1>11, MemoryAssumption
    <3> QED BY <1>10, <1>12, <3>1, <3>2 DEF HolesInside
  <2> QED BY <2>2, <2>4, <2>5, <2>6, <2>7 DEF Geometry
<1>19. Accounts(e)
  <2>1. SumOfHoles(<<h>>) = m.remaining
    <3>1. <<>> \in Seq(Holes) /\ Append(<<>>, h) = <<h>>
      OBVIOUS
    <3>2. SumOfHoles(<<>>) = 0
      BY HoleSumIs, HoleSum!SeqSumEmpty
    <3>3. SumOfHoles(<<h>>) = 0 + h.size
      BY <1>11, <3>1, <3>2, SumOfHolesSteps
    <3> QED BY <1>2, <1>11, <3>3
  <2>2. SumOfSegments(e.segment, L) = SumOfSegments(m.segment, L)
    BY <1>3, <1>14, SumOfSegmentsSteps
  <2> QED BY <1>1, <1>10, <2>1, <2>2 DEF Accounts, Sound, L
<1> QED BY <1>1, <1>10, <1>11, <1>12, <1>14, <1>15, <1>16, <1>17, <1>18, <1>19 DEF Sound, L, e


-----------------------------------------------------------------------------
(* The requests.                                                           *)

(* A segment that is given is given the hole of the algorithm.             *)
LEMMA GivenAsAnswered ==
  ASSUME NEW m, Sound(m), NEW req \in Requests, HasTable(m, req.pid),
         Answer(m, req.size) = "MESSAGE_OK", NEW s \in Free(m)
  PROVE  LET e == AddSegment(m, req, s)
             k == Fit(algorithm, m.hole_list, req.size) IN
         /\ Sound(e)
         /\ k \in 1 .. Len(m.hole_list)
         /\ FitAmong(algorithm, m.hole_list, req.size, k, Len(m.hole_list))
         /\ \A x : Contains(e.ram, x) <=> Contains(m.ram, x) \/ x = s
         /\ e.table = [m.table EXCEPT ![req.pid] = Append(@, s)]
         /\ e.segment = [m.segment EXCEPT ![s] = [base   |-> m.hole_list[k].base,
                                                  offset |-> req.size,
                                                  s_id   |-> req.s_id]]
         /\ \A pid \in Pids : HasTable(e, pid) <=> HasTable(m, pid)
<1> DEFINE k == Fit(algorithm, m.hole_list, req.size)
<1>1. m.hole_list \in Seq(Holes) /\ Len(m.hole_list) \in Nat /\ req.size \in Nat
  <2>1. req.size \in Sizes /\ \A n \in Sizes : n \in Nat
    BY SizesAssumption, MemoryAssumption DEF Requests
  <2> QED BY <2>1, LenProperties DEF Sound, Shape
<1>2. FitAmong(algorithm, m.hole_list, req.size, k, Len(m.hole_list))
  BY <1>1, FitIsRight
<1>3. k # 0
  BY DEF Answer
<1> HIDE DEF k
<1>4. k \in 1 .. Len(m.hole_list) /\ m.hole_list[k].size >= req.size
  BY <1>1, <1>2, <1>3 DEF FitAmong
<1>5. AddSegment(m, req, s) = Given(m, k, req, s)
  BY DEF AddSegment, Given, k
<1> DEFINE e == Given(m, k, req, s)
<1>6. /\ Sound(e)
      /\ e.ram = Append(m.ram, s)
      /\ e.table = [m.table EXCEPT ![req.pid] = Append(@, s)]
      /\ e.segment = [m.segment EXCEPT ![s] = [base   |-> m.hole_list[k].base,
                                               offset |-> req.size,
                                               s_id   |-> req.s_id]]
      /\ \A pid \in Pids : HasTable(e, pid) <=> HasTable(m, pid)
  BY <1>4, CreateKeepsSound
<1>7. \A x : Contains(e.ram, x) <=> Contains(m.ram, x) \/ x = s
  <2>1. m.ram \in Seq(Objects) /\ s \in Objects
    BY DEF Sound, Shape, Free, Objects
  <2>2. \A x : Contains(Append(m.ram, s), x) <=> Contains(m.ram, x) \/ x = s
    BY <2>1, AppendMembers
  <2> HIDE DEF e
  <2> QED BY <1>6, <2>2
<1> HIDE DEF e
<1> QED BY <1>2, <1>4, <1>5, <1>6, <1>7 DEF k, e

(* MEM_INIT_PROCESS keeps the invariant.                                   *)
LEMMA InitProcessKeeps ==
  ASSUME MemoryInv, NEW pid \in Pids, InitProcess(pid)
  PROVE  MemoryInv' /\ structure'.ram = structure.ram
<1> DEFINE m == structure
           e == [m EXCEPT !.table[pid] = <<Zero>>]
<1>1. Sound(m) /\ ~HasTable(m, pid) /\ structure' = e
  BY DEF MemoryInv, InitProcess
<1> HIDE DEF m, MemoryInv
<1>2. m \in [segment   : [Objects -> SegmentRecords \cup {NoSegment}],
             ram       : Seq(Objects),
             table     : [Pids -> Seq(Objects)],
             hole_list : Seq(Holes),
             remaining : Nat]
  BY <1>1 DEF Sound, Shape
<1>3. <<Zero>> \in Seq(Objects) /\ Len(<<Zero>>) = 1 /\ <<Zero>>[1] = Zero /\ <<Zero>> # <<>>
  BY DEF Objects
<1>4. /\ e.segment = m.segment /\ e.ram = m.ram /\ e.hole_list = m.hole_list
      /\ e.remaining = m.remaining
      /\ e.table = [m.table EXCEPT ![pid] = <<Zero>>]
      /\ e \in [segment   : [Objects -> SegmentRecords \cup {NoSegment}],
                ram       : Seq(Objects),
                table     : [Pids -> Seq(Objects)],
                hole_list : Seq(Holes),
                remaining : Nat]
  BY <1>2, <1>3
<1> HIDE DEF e
<1>5. /\ e.table[pid] = <<Zero>>
      /\ \A p \in Pids : p # pid => e.table[p] = m.table[p]
  BY <1>2, <1>4
<1>6. m.table[pid] = <<>>
  BY <1>1 DEF HasTable
<1>7. Shape(e) /\ Ram(e)
  BY <1>1, <1>4 DEF Sound, Shape, Ram
<1>8. Tables(e)
  <2>1. IsInjective(<<Zero>>)
    <3>1. \A j, k \in DOMAIN <<Zero>> : j = k
      OBVIOUS
    <3> QED BY <3>1 DEF IsInjective
  <2>2. Tables(m)
    BY <1>1 DEF Sound
  <2> QED BY <1>3, <1>5, <2>1, <2>2 DEF Tables, HasTable
<1>9. Owned(e)
  <2> SUFFICES ASSUME NEW s \in Segments
               PROVE  /\ Contains(e.ram, s) <=> \E p \in Pids : Contains(e.table[p], s)
                      /\ \A p, q \in Pids :
                           Contains(e.table[p], s) /\ Contains(e.table[q], s) => p = q
    BY DEF Owned
  <2>1. ~Contains(m.table[pid], s) /\ ~Contains(e.table[pid], s)
    <3>1. \A j \in 1 .. 1 : <<Zero>>[j] = Zero
      OBVIOUS
    <3>2. s # Zero /\ \A j \in 1 .. 0 : FALSE
      BY ZeroAssumption
    <3>3. ~Contains(<<Zero>>, s)
      BY <1>3, <3>1, <3>2 DEF Contains
    <3>4. ~Contains(<<>>, s)
      <4>1. Len(<<>>) = 0
        OBVIOUS
      <4> QED BY <3>2, <4>1 DEF Contains
    <3> QED BY <1>5, <1>6, <3>3, <3>4
  <2>2. \A p \in Pids : Contains(e.table[p], s) <=> Contains(m.table[p], s)
    BY <1>5, <2>1
  <2>3. /\ Contains(m.ram, s) <=> \E p \in Pids : Contains(m.table[p], s)
        /\ \A p, q \in Pids : Contains(m.table[p], s) /\ Contains(m.table[q], s) => p = q
    BY <1>1 DEF Sound, Owned
  <2> QED BY <1>4, <2>2, <2>3
<1>10. Geometry(e) /\ Accounts(e)
  BY <1>1, <1>4 DEF Sound, Geometry, Accounts, SegmentsApart, SegmentsInside
<1>11. Sound(e)
  BY <1>7, <1>8, <1>9, <1>10 DEF Sound
<1>12. UNCHANGED <<memory, algorithm, kernel, request>>
  BY DEF InitProcess
<1>13. \A p \in Pids : HasTable(m, p) => HasTable(e, p)
  BY <1>3, <1>5 DEF HasTable
<1>14. Waiting'
  <2>1. kernel # "idle" => request \in Requests /\ HasTable(m, request.pid)
    BY DEF MemoryInv, Waiting, m
  <2>2. kernel # "idle" => HasTable(e, request.pid)
    BY <1>13, <2>1 DEF Requests
  <2>3. Waiting
    BY DEF MemoryInv
  <2> QED BY <1>1, <1>4, <1>12, <2>1, <2>2, <2>3 DEF Waiting, m
<1> QED BY <1>1, <1>4, <1>11, <1>12, <1>14 DEF MemoryInv, m

(* MEM_END_PROCCESS keeps the invariant and gives no segment.              *)
LEMMA EndProcessKeeps ==
  ASSUME MemoryInv, NEW pid \in Pids, EndProcess(pid)
  PROVE  /\ MemoryInv'
         /\ \A s : Contains(structure'.ram, s) => Contains(structure.ram, s)
<1>1. Sound(structure) /\ HasTable(structure, pid)
  BY DEF MemoryInv, EndProcess
<1>2. /\ Sound(structure')
      /\ \A s : Contains(structure'.ram, s) => Contains(structure.ram, s)
  BY <1>1, RemoveSgTableKeepsSound DEF EndProcess
<1> QED BY <1>2 DEF EndProcess, MemoryInv, Waiting

(* MEM_CREATE_SEGMENT keeps the invariant, whatever the answer.            *)
LEMMA CreateSegmentKeeps ==
  ASSUME MemoryInv, NEW pid \in Pids, NEW s_id \in SegmentIds, NEW size \in Sizes,
         CreateSegment(pid, s_id, size)
  PROVE  MemoryInv'
<1> DEFINE req == [pid |-> pid, s_id |-> s_id, size |-> size]
           answer == Answer(structure, size)
<1>1. req \in Requests /\ req.pid = pid /\ req.size = size
  BY DEF Requests
<1>2. Sound(structure) /\ HasTable(structure, pid) /\ kernel = "idle"
  BY DEF MemoryInv, CreateSegment
<1>3. CASE answer = "MESSAGE_OK"
  <2>1. PICK s \in Free(structure) : structure' = AddSegment(structure, req, s)
    BY <1>3 DEF CreateSegment
  <2>2. Sound(structure')
    BY <1>1, <1>2, <1>3, <2>1, GivenAsAnswered
  <2> QED BY <1>2, <1>3, <2>2 DEF CreateSegment, MemoryInv, Waiting
<1>4. CASE answer # "MESSAGE_OK"
  <2>1. /\ structure' = structure /\ request' = req
        /\ kernel' = IF answer = "OUT_OF_MEMORY" THEN "exit" ELSE "compact"
        /\ UNCHANGED <<memory, algorithm>>
    BY <1>4 DEF CreateSegment
  <2>2. kernel' = "compact" => size <= structure.remaining
    <3>1. kernel' = "compact" => ~(structure.remaining < size)
      BY <2>1 DEF Answer
    <3>2. structure.remaining \in Nat /\ size \in Nat
      <4>1. \A n \in Sizes : n \in Nat
        BY SizesAssumption, MemoryAssumption
      <4> QED BY <1>2, <4>1 DEF Sound, Shape
    <3> QED BY <3>1, <3>2
  <2>3. Waiting'
    <3> HIDE DEF req, answer
    <3>1. kernel' = "exit" \/ kernel' = "compact"
      BY <2>1
    <3> QED BY <1>1, <1>2, <2>1, <2>2, <3>1 DEF Waiting
  <2> QED BY <2>1, <2>3 DEF MemoryInv
<1> QED BY <1>3, <1>4

(* MEM_COMPACT_ALL keeps the invariant and the segments of ram.            *)
LEMMA CompactAllKeeps ==
  ASSUME MemoryInv, CompactAll
  PROVE  /\ MemoryInv'
         /\ ToSet(structure'.ram) = ToSet(structure.ram)
<1>1. CASE Len(structure.ram) = 1
  BY <1>1 DEF CompactAll, MemoryInv, Waiting
<1>2. CASE Len(structure.ram) # 1
  <2>1. /\ structure' = CompactMemory(structure) /\ kernel' = "retry"
        /\ UNCHANGED <<memory, algorithm, request>>
    BY <1>2 DEF CompactAll
  <2>2. /\ Sound(structure) /\ request \in Requests /\ HasTable(structure, request.pid)
        /\ request.size <= structure.remaining
    BY DEF MemoryInv, Waiting, CompactAll
  <2>3. structure.remaining # 0
    <3>1. request.size \in Nat \ {0}
      <4>1. request.size \in Sizes /\ \A n \in Sizes : n \in Nat \ {0}
        BY <2>2, SizesAssumption, MemoryAssumption DEF Requests
      <4> QED BY <4>1
    <3>2. structure.remaining \in Nat
      BY <2>2 DEF Sound, Shape
    <3> QED BY <2>2, <3>1, <3>2
  <2>4. /\ Sound(structure')
        /\ Len(structure'.hole_list) = 1
        /\ structure'.hole_list[1].size = structure'.remaining
        /\ structure'.table = structure.table
        /\ structure'.remaining = structure.remaining
        /\ ToSet(structure'.ram) = ToSet(structure.ram)
    BY <2>1, <2>2, <2>3, CompactKeepsSound
  <2>5. Waiting'
    BY <2>1, <2>2, <2>4 DEF Waiting, HasTable
  <2> QED BY <2>1, <2>4, <2>5 DEF MemoryInv
<1> QED BY <1>1, <1>2

(* After the compaction, the one hole is large enough.                     *)
LEMMA RetryFits ==
  ASSUME MemoryInv, kernel = "retry"
  PROVE  Answer(structure, request.size) = "MESSAGE_OK"
<1> DEFINE holes == structure.hole_list
           size == request.size
           k == Fit(algorithm, holes, size)
<1>1. /\ holes \in Seq(Holes) /\ Len(holes) = 1 /\ holes[1].size = structure.remaining
      /\ structure.remaining \in Nat /\ size <= structure.remaining /\ size \in Nat
  <2>1. size \in Sizes /\ \A n \in Sizes : n \in Nat
    BY SizesAssumption, MemoryAssumption DEF Requests, MemoryInv, Waiting
  <2> QED BY <2>1 DEF MemoryInv, Waiting, Sound, Shape
<1>2. FitAmong(algorithm, holes, size, k, 1)
  BY <1>1, FitIsRight
<1>3. k # 0
  <2>1. 1 \in 1 .. 1 /\ ~(holes[1].size < size)
    BY <1>1
  <2> QED BY <1>2, <2>1 DEF FitAmong
<1>4. ~(structure.remaining < size)
  BY <1>1
<1> QED BY <1>3, <1>4 DEF Answer

(* The second MEM_CREATE_SEGMENT, after a compaction, keeps the invariant. *)
LEMMA RetryCreateKeeps ==
  ASSUME MemoryInv, RetryCreate
  PROVE  MemoryInv'
<1>1. /\ Sound(structure) /\ request \in Requests /\ HasTable(structure, request.pid)
      /\ Answer(structure, request.size) = "MESSAGE_OK"
  BY RetryFits DEF MemoryInv, Waiting, RetryCreate
<1>2. PICK s \in Free(structure) : structure' = AddSegment(structure, request, s)
  BY <1>1 DEF RetryCreate
<1>3. Sound(structure')
  BY <1>1, <1>2, GivenAsAnswered
<1> QED BY <1>1, <1>3 DEF RetryCreate, MemoryInv, Waiting

(* MEM_DELETE_SEGMENT keeps the invariant and gives no segment.            *)
LEMMA DeleteSegmentKeeps ==
  ASSUME MemoryInv, NEW pid \in Pids, NEW s_id \in SegmentIds, DeleteSegment(pid, s_id)
  PROVE  /\ MemoryInv'
         /\ \A s : Contains(structure'.ram, s) => Contains(structure.ram, s)
<1> DEFINE k == IndexInTable(structure, pid, s_id)
<1>1. Sound(structure) /\ HasTable(structure, pid)
  BY DEF MemoryInv, DeleteSegment
<1>2. CASE k = 0
  BY <1>2 DEF DeleteSegment, MemoryInv, Waiting
<1>3. CASE k # 0
  <2>1. structure' = DeleteSegmentAt(structure, pid, k) /\ UNCHANGED memory
    BY <1>3 DEF DeleteSegment
  <2>2. structure.table[pid] \in Seq(Objects) /\ structure.table[pid] # <<>>
    BY <1>1 DEF Sound, Shape, HasTable
  <2>3. k \in 2 .. Len(structure.table[pid])
    BY <1>3, <2>2, IndexInTableIs
  <2> HIDE DEF k
  <2>4. /\ Sound(structure')
        /\ \A s : Contains(structure'.ram, s) => Contains(structure.ram, s)
    BY <1>1, <2>1, <2>3, DeleteKeepsSound
  <2> QED BY <2>1, <2>4 DEF DeleteSegment, MemoryInv, Waiting
<1> QED BY <1>2, <1>3

(* new_memory_structure: segment 0, and one hole with the rest of the heap. *)
LEMMA InitSound ==
  ASSUME Init
  PROVE  MemoryInv
<1> DEFINE m == NewMemoryStructure
           h == [base |-> ZeroSize, size |-> MemorySize - ZeroSize]
           sg == [base |-> 0, offset |-> ZeroSize, s_id |-> 0]
<1>1. /\ ZeroSize \in Nat \ {0} /\ MemorySize \in Nat /\ MemorySize - ZeroSize \in Nat \ {0}
      /\ ZeroSize + (MemorySize - ZeroSize) = MemorySize
  BY MemoryAssumption
<1>2. h \in Holes /\ sg \in SegmentRecords /\ sg \in LiveRecords
  BY <1>1 DEF Holes, SegmentRecords, LiveRecords
<1>3. Zero \in Objects /\ \A s \in Segments : s \in Objects /\ s # Zero
  BY ZeroAssumption DEF Objects
<1>4. /\ m.segment \in [Objects -> SegmentRecords \cup {NoSegment}] /\ m.segment[Zero] = sg
      /\ m.ram = <<Zero>> /\ m.table = [pid \in Pids |-> <<>>] /\ m.hole_list = <<h>>
      /\ m.remaining = MemorySize - ZeroSize
      /\ m = [segment |-> m.segment, ram |-> m.ram, table |-> m.table,
              hole_list |-> m.hole_list, remaining |-> m.remaining]
  BY <1>2, <1>3 DEF NewMemoryStructure
<1> HIDE DEF m
<1>5. /\ <<Zero>> \in Seq(Objects) /\ Len(<<Zero>>) = 1 /\ <<Zero>>[1] = Zero
      /\ <<Zero>> # <<>> /\ \A j \in DOMAIN <<Zero>> : j = 1
      /\ \A s : Contains(<<Zero>>, s) <=> s = Zero
      /\ ToSet(<<Zero>>) = {Zero}
  <2>1. /\ <<Zero>> \in Seq(Objects) /\ Len(<<Zero>>) = 1 /\ <<Zero>>[1] = Zero
        /\ <<Zero>> # <<>> /\ \A j \in DOMAIN <<Zero>> : j = 1
    BY <1>3
  <2>2. \A k : k \in 1 .. 1 <=> k = 1
    OBVIOUS
  <2>3. \A s : Contains(<<Zero>>, s) <=> s = Zero
    BY <2>1, <2>2 DEF Contains
  <2>4. ToSet(<<Zero>>) = {Zero}
    BY <2>1, <2>3, Members
  <2> QED BY <2>1, <2>3, <2>4
<1>6. <<h>> \in Seq(Holes) /\ Len(<<h>>) = 1 /\ <<h>>[1] = h
  BY <1>2
<1>7. h.base = ZeroSize /\ h.size = MemorySize - ZeroSize /\ sg.base = 0 /\ sg.offset = ZeroSize
  OBVIOUS
<1> HIDE DEF h, sg
<1>8. Shape(m)
  <2>1. m.table \in [Pids -> Seq(Objects)]
    BY <1>4
  <2>2. m \in [segment   : [Objects -> SegmentRecords \cup {NoSegment}],
               ram       : Seq(Objects),
               table     : [Pids -> Seq(Objects)],
               hole_list : Seq(Holes),
               remaining : Nat]
    BY <1>1, <1>4, <1>5, <1>6, <2>1
  <2> QED BY <1>2, <1>4, <1>5, <2>2 DEF Shape, sg
<1>9. Ram(m) /\ Tables(m)
  <2>1. IsInjective(<<Zero>>)
    BY <1>5 DEF IsInjective
  <2> QED BY <1>4, <1>5, <2>1 DEF Ram, Tables, HasTable
<1>10. Owned(m)
  <2>1. \A s : ~Contains(<<>>, s)
    <3>1. Len(<<>>) = 0 /\ \A k \in 1 .. 0 : FALSE
      OBVIOUS
    <3> QED BY <3>1 DEF Contains
  <2> QED BY <1>3, <1>4, <1>5, <2>1 DEF Owned
<1>11. Geometry(m)
  <2>1. \A k \in 1 .. 1 : k = 1
    OBVIOUS
  <2>2. Apart(sg.base, sg.offset, h.base, h.size)
    BY <1>1, <1>7 DEF Apart
  <2>3. ZeroSize <= MemorySize + 1 /\ h.base + h.size <= MemorySize + 1 /\ 0 + ZeroSize = ZeroSize
    BY <1>1, <1>7
  <2>4. SegmentsApart(m) /\ SegmentsInside(m)
    BY <1>4, <1>5, <1>7, <2>3 DEF SegmentsApart, SegmentsInside, End
  <2>5. HolesApart(m.hole_list) /\ HolesInside(m.hole_list)
    BY <1>4, <1>6, <2>1, <2>3 DEF HolesApart, HolesInside
  <2>6. \A s \in ToSet(m.ram) :
          ApartFromHoles(m.hole_list, m.segment[s].base, m.segment[s].offset)
    BY <1>4, <1>5, <1>6, <2>1, <2>2 DEF ApartFromHoles
  <2> QED BY <2>4, <2>5, <2>6 DEF Geometry
<1>12. Accounts(m)
  <2>1. SumOfHoles(<<h>>) = MemorySize - ZeroSize
    <3>1. <<>> \in Seq(Holes) /\ Append(<<>>, h) = <<h>>
      OBVIOUS
    <3>2. SumOfHoles(<<>>) = 0
      BY HoleSumIs, HoleSum!SeqSumEmpty
    <3>3. SumOfHoles(<<h>>) = 0 + h.size
      BY <1>2, <3>1, <3>2, SumOfHolesSteps
    <3> QED BY <1>1, <1>7, <3>3
  <2>2. SumOfSegments(m.segment, {Zero}) = ZeroSize
    <3>1. IsFiniteSet({Zero}) /\ \A s \in {Zero} : m.segment[s].offset \in Nat
      BY <1>1, <1>4, <1>7, FS_Singleton
    <3>2. SumOfSegments(m.segment, {Zero})
            = m.segment[Zero].offset + SumOfSegments(m.segment, {Zero} \ {Zero})
      BY <3>1, SumOfSegmentsSteps
    <3>3. {Zero} \ {Zero} = {} /\ SumOfSegments(m.segment, {}) = 0
      BY SegmentSumIs, SegmentSum!SetSumEmpty
    <3>4. m.segment[Zero].offset = ZeroSize /\ ZeroSize + 0 = ZeroSize
      BY <1>1, <1>4, <1>7
    <3> QED BY <3>2, <3>3, <3>4
  <2>3. /\ ToSet(m.ram) = {Zero} /\ m.hole_list = <<h>>
        /\ m.remaining = MemorySize - ZeroSize
        /\ (MemorySize - ZeroSize) + ZeroSize = MemorySize
    BY <1>1, <1>4, <1>5
  <2> QED BY <2>1, <2>2, <2>3 DEF Accounts
<1>13. Sound(m)
  BY <1>8, <1>9, <1>10, <1>11, <1>12 DEF Sound
<1> QED BY <1>13 DEF MemoryInv, Init, Waiting, m

-----------------------------------------------------------------------------
(* Every request keeps the invariant.                                      *)
LEMMA NextKeeps ==
  ASSUME MemoryInv, Next
  PROVE  MemoryInv'
<1>1. ASSUME NEW pid \in Pids, InitProcess(pid) PROVE MemoryInv'
  BY <1>1, InitProcessKeeps
<1>2. ASSUME NEW pid \in Pids, EndProcess(pid) PROVE MemoryInv'
  BY <1>2, EndProcessKeeps
<1>3. ASSUME NEW pid \in Pids, NEW s_id \in SegmentIds, NEW size \in Sizes,
             CreateSegment(pid, s_id, size)
      PROVE  MemoryInv'
  BY <1>3, CreateSegmentKeeps
<1>4. ASSUME NEW pid \in Pids, NEW s_id \in SegmentIds, DeleteSegment(pid, s_id)
      PROVE  MemoryInv'
  BY <1>4, DeleteSegmentKeeps
<1>5. CASE CompactAll
  BY <1>5, CompactAllKeeps
<1>6. CASE RetryCreate
  BY <1>6, RetryCreateKeeps
<1> QED BY <1>1, <1>2, <1>3, <1>4, <1>5, <1>6 DEF Next

(* The invariant of every history of requests.                             *)
THEOREM MemoryInvariant == Spec => []MemoryInv
<1>1. Init => MemoryInv
  BY InitSound
<1>2. MemoryInv /\ [Next]_vars => MemoryInv'
  <2> SUFFICES ASSUME MemoryInv, UNCHANGED vars PROVE MemoryInv'
    BY NextKeeps
  <2> QED BY DEF vars, MemoryInv, Waiting
<1> QED BY <1>1, <1>2, PTL DEF Spec

(* The memory structure has its types on every path.                       *)
THEOREM StructureIsTyped == Spec => []TypeOK
<1>1. MemoryInv => TypeOK
  BY DEF MemoryInv, Sound, Shape, Holes, TypeOK
<1> QED BY <1>1, MemoryInvariant, PTL

(* remaining_memory is the sum of the holes, and the rest of the heap is   *)
(* the segments'.                                                          *)
THEOREM RemainingMemoryIsFree == Spec => []RemainingIsFree
<1>1. MemoryInv => RemainingIsFree
  BY DEF MemoryInv, Sound, Accounts, SumOfHoles, SumOfSegments, RemainingIsFree, SizeOf,
         HoleSizes, Live, LiveSegment
<1> QED BY <1>1, MemoryInvariant, PTL

(* No byte of the heap is in two segments or holes.                        *)
THEOREM NoByteIsShared == Spec => []NoOverlap
<1>1. ASSUME NEW b \in Nat, NEW n \in Nat, NEW c \in Nat, NEW k \in Nat, Apart(b, n, c, k)
      PROVE  Cells(b, n) \cap Cells(c, k) = {}
  BY <1>1 DEF Apart, Cells
<1>2. ASSUME MemoryInv PROVE NoOverlap
  <2> DEFINE holes == structure.hole_list
  <2>1. Sound(structure)
    BY <1>2 DEF MemoryInv
  <2>2. /\ DOMAIN holes = 1 .. Len(holes)
        /\ \A k \in 1 .. Len(holes) : holes[k].base \in Nat /\ holes[k].size \in Nat
    <3>1. holes \in Seq(Holes)
      BY <2>1 DEF Sound, Shape
    <3> HIDE DEF holes
    <3>2. \A k \in 1 .. Len(holes) : holes[k] \in Holes
      BY <3>1, ElementOfSeq
    <3> QED BY <3>1, <3>2, LenProperties DEF Holes
  <2>3. \A s \in Live : LiveSegment(s).base \in Nat /\ LiveSegment(s).offset \in Nat
    BY <2>1, RamFacts DEF Live, LiveSegment
  <2>4. /\ SegmentsApart(structure) /\ HolesApart(holes)
        /\ \A s \in Live : ApartFromHoles(holes, LiveSegment(s).base, LiveSegment(s).offset)
    BY <2>1 DEF Sound, Geometry, Live, LiveSegment
  <2> HIDE DEF holes
  <2>5. ASSUME NEW s \in Live, NEW t \in Live, s # t
        PROVE  SegmentCells(s) \cap SegmentCells(t) = {}
    BY <1>1, <2>3, <2>4, <2>5 DEF SegmentsApart, SegmentCells, Live, LiveSegment
  <2>6. ASSUME NEW j \in 1 .. Len(holes), NEW k \in 1 .. Len(holes), j # k
        PROVE  HoleCells(j) \cap HoleCells(k) = {}
    BY <1>1, <2>2, <2>4, <2>6 DEF HolesApart, HoleCells, holes
  <2>7. ASSUME NEW s \in Live, NEW k \in 1 .. Len(holes)
        PROVE  SegmentCells(s) \cap HoleCells(k) = {}
    BY <1>1, <2>2, <2>3, <2>4 DEF ApartFromHoles, SegmentCells, HoleCells, holes
  <2> QED BY <2>2, <2>5, <2>6, <2>7 DEF NoOverlap, holes
<1> QED BY <1>2, MemoryInvariant, PTL

(* However many compactions there are, a segment ends at most one byte     *)
(* after the heap.                                                         *)
THEOREM CompactionLosesOneByteOnce == Spec => []AtMostOneByteOut
<1>1. MemoryInv => AtMostOneByteOut
  BY DEF MemoryInv, Sound, Geometry, SegmentsInside, AtMostOneByteOut, Live, LiveSegment
<1> QED BY <1>1, MemoryInvariant, PTL

(* ram and the tables of the processes hold the same segments, each in the *)
(* table of one process.                                                   *)
THEOREM EverySegmentHasOneOwner == Spec => []TablesMatchRam
<1>1. ASSUME MemoryInv PROVE TablesMatchRam
  <2>1. Sound(structure)
    BY <1>1 DEF MemoryInv
  <2>2. structure.ram[1] = Zero /\ IsInjective(structure.ram)
    BY <2>1 DEF Sound, Ram
  <2>3. ASSUME NEW pid \in Pids, HasTable(structure, pid)
        PROVE  Head(structure.table[pid]) = Zero /\ IsInjective(structure.table[pid])
    <3>1. structure.table[pid] \in Seq(Objects) /\ structure.table[pid] # <<>>
      BY <2>1, <2>3 DEF Sound, Shape, HasTable
    <3>2. Head(structure.table[pid]) = structure.table[pid][1]
      BY <3>1, AppendHeadTail
    <3> QED BY <2>1, <2>3, <3>2 DEF Sound, Tables
  <2>4. ASSUME NEW s \in Segments
        PROVE  Cardinality({pid \in Pids : s \in ToSet(structure.table[pid])})
                 = IF s \in Live THEN 1 ELSE 0
    <3> DEFINE owners == {pid \in Pids : s \in ToSet(structure.table[pid])}
    <3>1. \A pid \in Pids : pid \in owners <=> Contains(structure.table[pid], s)
      <4>1. \A pid \in Pids : structure.table[pid] \in Seq(Objects)
        BY <2>1 DEF Sound, Shape
      <4> QED BY <4>1, Members
    <3>2. s \in Live <=> Contains(structure.ram, s)
      BY <2>1, RamFacts DEF Live
    <3>3. /\ Contains(structure.ram, s) <=> \E pid \in Pids : Contains(structure.table[pid], s)
          /\ \A pid, other \in Pids :
               Contains(structure.table[pid], s) /\ Contains(structure.table[other], s)
                 => pid = other
      BY <2>1 DEF Sound, Owned
    <3>4. owners \subseteq Pids
      OBVIOUS
    <3> HIDE DEF owners
    <3>5. CASE s \in Live
      <4>1. PICK pid \in Pids : owners = {pid}
        BY <3>1, <3>2, <3>3, <3>4, <3>5
      <4>2. Cardinality(owners) = 1
        BY <4>1, FS_Singleton
      <4> QED BY <3>5, <4>2 DEF owners
    <3>6. CASE s \notin Live
      <4>1. owners = {}
        BY <3>1, <3>2, <3>3, <3>4, <3>6
      <4>2. Cardinality(owners) = 0
        BY <4>1, FS_EmptySet
      <4> QED BY <3>6, <4>2 DEF owners
    <3> QED BY <3>5, <3>6
  <2> QED BY <2>2, <2>3, <2>4 DEF TablesMatchRam
<1> QED BY <1>1, MemoryInvariant, PTL

(* The kernel is never told twice in a row to compact.                     *)
THEOREM OneCompactionIsEnough == Spec => []NoConsecutiveCompaction
<1>1. MemoryInv => NoConsecutiveCompaction
  BY RetryFits DEF NoConsecutiveCompaction
<1> QED BY <1>1, MemoryInvariant, PTL

(* What AddSegment puts in ram is in a hole its algorithm would choose.    *)
LEMMA PlacedWhereItFits ==
  ASSUME MemoryInv, NEW req \in Requests, HasTable(structure, req.pid),
         Answer(structure, req.size) = "MESSAGE_OK", NEW given \in Free(structure),
         structure' = AddSegment(structure, req, given),
         NEW s \in Segments, s \notin Live, s \in ToSet(structure'.ram)
  PROVE  FitsIts(algorithm, structure.hole_list,
                 structure'.segment[s].base, structure'.segment[s].offset)
<1> DEFINE holes == structure.hole_list
           k == Fit(algorithm, holes, req.size)
<1>1. Sound(structure) /\ algorithm \in {"BEST", "FIRST", "WORST"}
  BY AlgorithmsAssumption DEF MemoryInv
<1>2. /\ k \in 1 .. Len(holes) /\ DOMAIN holes = 1 .. Len(holes) /\ Len(holes) \in Nat
      /\ FitAmong(algorithm, holes, req.size, k, Len(holes))
      /\ \A x : Contains(structure'.ram, x) <=> Contains(structure.ram, x) \/ x = given
      /\ structure'.segment = [structure.segment EXCEPT
                                 ![given] = [base |-> holes[k].base, offset |-> req.size,
                                             s_id |-> req.s_id]]
  <2>1. holes \in Seq(Holes)
    BY <1>1 DEF Sound, Shape
  <2>2. DOMAIN holes = 1 .. Len(holes) /\ Len(holes) \in Nat
    BY <2>1, LenProperties
  <2> DEFINE e == AddSegment(structure, req, given)
  <2>3. /\ k \in 1 .. Len(holes)
        /\ FitAmong(algorithm, holes, req.size, k, Len(holes))
        /\ \A x : Contains(e.ram, x) <=> Contains(structure.ram, x) \/ x = given
        /\ e.segment = [structure.segment EXCEPT
                          ![given] = [base |-> holes[k].base, offset |-> req.size,
                                      s_id |-> req.s_id]]
    <3>1. Sound(structure) /\ algorithm \in {"BEST", "FIRST", "WORST"}
      BY <1>1
    <3> DEFINE q == Fit(algorithm, structure.hole_list, req.size)
               f == AddSegment(structure, req, given)
    <3>2. q \in 1 .. Len(structure.hole_list)
      BY <3>1, GivenAsAnswered
    <3>3. FitAmong(algorithm, structure.hole_list, req.size, q, Len(structure.hole_list))
      BY <3>1, GivenAsAnswered
    <3>4. \A x : Contains(f.ram, x) <=> Contains(structure.ram, x) \/ x = given
      BY <3>1, GivenAsAnswered
    <3>5. f.segment = [structure.segment EXCEPT
                         ![given] = [base |-> structure.hole_list[q].base,
                                     offset |-> req.size, s_id |-> req.s_id]]
      BY <3>1, GivenAsAnswered, ZenonT(30)
    <3> QED BY <3>2, <3>3, <3>4, <3>5
  <2>4. structure' = e
    OBVIOUS
  <2> HIDE DEF e, k, holes
  <2> QED BY <2>2, <2>3, <2>4
<1> HIDE DEF k, holes
<1>3. s = given
  <2>1. structure.ram \in Seq(Objects) /\ structure'.ram \in Seq(Objects)
    <3>1. Sound(structure')
      BY <1>1, GivenAsAnswered
    <3> QED BY <1>1, <3>1 DEF Sound, Shape
  <2>2. Contains(structure'.ram, s) /\ ~Contains(structure.ram, s)
    BY <2>1, Members DEF Live
  <2> QED BY <1>2, <2>2
<1>4. structure'.segment[s].base = holes[k].base /\ structure'.segment[s].offset = req.size
  <2>1. structure.segment \in [Objects -> SegmentRecords \cup {NoSegment}] /\ s \in Objects
    BY <1>1 DEF Sound, Shape, Objects
  <2> QED BY <1>2, <1>3, <2>1
<1>5. FitsIts(algorithm, holes, holes[k].base, req.size)
  <2>1. k # 0
    BY <1>2
  <2> QED BY <1>1, <1>2, <2>1 DEF FitAmong, FitsIts
<1> QED BY <1>4, <1>5 DEF holes

(* Each segment is placed where ALGORITMO_ASIGNACION says: in a smallest   *)
(* hole that is large enough, in a largest, or in the first.               *)
THEOREM PlacementIsTheConfigured == Spec => PlacedAsConfigured
<1> DEFINE A == \A s \in Segments :
                  s \notin Live /\ s \in ToSet(structure'.ram) =>
                    FitsIts(algorithm, structure.hole_list,
                            structure'.segment[s].base, structure'.segment[s].offset)
<1>1. MemoryInv /\ MemoryInv' /\ [Next]_vars => [A]_vars
  <2> SUFFICES ASSUME MemoryInv, MemoryInv', Next PROVE A
    OBVIOUS
  <2> SUFFICES ASSUME NEW s \in Segments, s \notin Live, s \in ToSet(structure'.ram)
               PROVE  FitsIts(algorithm, structure.hole_list,
                              structure'.segment[s].base, structure'.segment[s].offset)
    OBVIOUS
  <2>1. Contains(structure'.ram, s) /\ ~Contains(structure.ram, s)
    <3>1. structure.ram \in Seq(Objects) /\ structure'.ram \in Seq(Objects)
      BY DEF MemoryInv, Sound, Shape
    <3> QED BY <3>1, Members DEF Live
  <2>2. ASSUME NEW pid \in Pids, InitProcess(pid) PROVE FALSE
    BY <2>1, <2>2, InitProcessKeeps
  <2>3. ASSUME NEW pid \in Pids, EndProcess(pid) PROVE FALSE
    BY <2>1, <2>3, EndProcessKeeps
  <2>4. ASSUME NEW pid \in Pids, NEW s_id \in SegmentIds, NEW size \in Sizes,
               CreateSegment(pid, s_id, size)
        PROVE  FitsIts(algorithm, structure.hole_list,
                       structure'.segment[s].base, structure'.segment[s].offset)
    <3> DEFINE req == [pid |-> pid, s_id |-> s_id, size |-> size]
    <3>1. req \in Requests /\ req.pid = pid /\ req.size = size
      BY DEF Requests
    <3>2. structure' # structure
      BY <2>1
    <3>3. PICK given \in Free(structure) : structure' = AddSegment(structure, req, given)
      BY <2>4, <3>2 DEF CreateSegment
    <3>4. HasTable(structure, pid) /\ Answer(structure, size) = "MESSAGE_OK"
      BY <2>4, <3>2 DEF CreateSegment
    <3> QED BY <3>1, <3>3, <3>4, PlacedWhereItFits
  <2>5. ASSUME NEW pid \in Pids, NEW s_id \in SegmentIds, DeleteSegment(pid, s_id)
        PROVE  FALSE
    BY <2>1, <2>5, DeleteSegmentKeeps
  <2>6. CASE CompactAll
    BY <2>6, CompactAllKeeps DEF Live
  <2>7. CASE RetryCreate
    <3>1. /\ request \in Requests /\ HasTable(structure, request.pid)
          /\ Answer(structure, request.size) = "MESSAGE_OK"
      BY <2>7, RetryFits DEF MemoryInv, Waiting, RetryCreate
    <3>2. PICK given \in Free(structure) : structure' = AddSegment(structure, request, given)
      BY <2>7, <3>1 DEF RetryCreate
    <3> QED BY <3>1, <3>2, PlacedWhereItFits
  <2> QED BY <2>2, <2>3, <2>4, <2>5, <2>6, <2>7 DEF Next
<1>2. Spec => [][A]_vars
  BY <1>1, MemoryInvariant, PTL DEF Spec
<1> QED BY <1>2 DEF PlacedAsConfigured

-----------------------------------------------------------------------------
(* Memoria implements SegmentStore.  TableOf is SegmentsOf for any memory  *)
(* structure.                                                              *)
Records == [s_id : SegmentIds \cup {0}, size : Nat]
TableOf(m, pid) ==
  [k \in 1 .. Len(m.table[pid]) - 1 |->
     LET sg == m.segment[m.table[pid][k + 1]]
     IN  [s_id |-> sg.s_id, size |-> sg.offset]]
StoreTable(m) == [pid \in Pids |-> TableOf(m, pid)]
OwnedBy(m, U) == {s \in Segments : \E pid \in U : Contains(m.table[pid], s)}

SizeOfTable(tables, pid) == SumOfHoles(tables[pid])
TableSum == INSTANCE SumLemmas WITH f <- SizeOfTable

(* What the store counts as used.                                          *)
LEMMA UsedIs == Store!Used = TableSum!SetSum(StoreTable(structure), Pids)
BY DEF Store!Used, Store!TableSize, Store!MapThenSumSet, Store!MapThenFoldSet,
       Store!FoldLeft, Store!Max, TableSum!SetSum, TableSum!MapThenSumSet,
       TableSum!MapThenFoldSet, SizeOfTable, SumOfHoles, FoldLeft, MapThenFoldSet, Max,
       StoreTable, TableOf, SegmentsOf

(* The table of a process, as the store has it.                            *)
LEMMA TableOfIs ==
  ASSUME NEW m, Sound(m), NEW pid \in Pids
  PROVE  LET t == m.table[pid]
             r == TableOf(m, pid) IN
         /\ r \in Seq(Records)
         /\ ~HasTable(m, pid) => r = <<>>
         /\ HasTable(m, pid) => Len(r) = Len(t) - 1 /\ Len(t) >= 1
         /\ \A k \in 1 .. Len(r) : /\ k + 1 \in 2 .. Len(t)
                                   /\ r[k] = [s_id |-> m.segment[t[k + 1]].s_id,
                                              size |-> m.segment[t[k + 1]].offset]
                                   /\ r[k].size = m.segment[t[k + 1]].offset
                                   /\ r[k].s_id = m.segment[t[k + 1]].s_id
<1> DEFINE t == m.table[pid]
           r == TableOf(m, pid)
<1>1. CASE ~HasTable(m, pid)
  <2>1. Len(t) - 1 < 1 /\ 1 .. Len(t) - 1 = {}
    BY <1>1 DEF HasTable
  <2>2. r = <<>>
    BY <2>1 DEF TableOf
  <2>3. <<>> \in Seq(Records) /\ Len(<<>>) = 0 /\ \A k \in 1 .. 0 : FALSE
    OBVIOUS
  <2> QED BY <1>1, <2>2, <2>3
<1>2. CASE HasTable(m, pid)
  <2>1. Len(t) \in Nat /\ Len(t) >= 1 /\ \A k \in 2 .. Len(t) : Contains(m.ram, t[k])
    BY <1>2, TableFacts
  <2>2. ASSUME NEW k \in 1 .. Len(t) - 1
        PROVE  /\ k + 1 \in 2 .. Len(t)
               /\ r[k] = [s_id |-> m.segment[t[k + 1]].s_id,
                          size |-> m.segment[t[k + 1]].offset]
               /\ r[k] \in Records
    <3>1. k + 1 \in 2 .. Len(t)
      BY <2>1
    <3>2. m.segment[t[k + 1]] \in LiveRecords
      BY <2>1, <3>1, RamFacts
    <3>3. r[k] = [s_id |-> m.segment[t[k + 1]].s_id, size |-> m.segment[t[k + 1]].offset]
      BY DEF TableOf
    <3>4. [s_id |-> m.segment[t[k + 1]].s_id, size |-> m.segment[t[k + 1]].offset] \in Records
      <4> DEFINE sg == m.segment[t[k + 1]]
      <4>1. sg \in LiveRecords
        BY <3>2
      <4> HIDE DEF sg
      <4>2. [s_id |-> sg.s_id, size |-> sg.offset] \in Records
        BY <4>1 DEF LiveRecords, Records
      <4> QED BY <4>2 DEF sg
    <3> QED BY <3>1, <3>3, <3>4
  <2>3. r = [k \in 1 .. Len(t) - 1 |-> r[k]]
    BY DEF TableOf
  <2> HIDE DEF r
  <2>4. Len(t) - 1 \in Nat
    BY <2>1
  <2> DEFINE n == Len(t) - 1
  <2>5. \A k \in 1 .. n : r[k] \in Records
    BY <2>2
  <2>6. n \in Nat /\ r = [k \in 1 .. n |-> r[k]]
    BY <2>3, <2>4
  <2>7. n = Len(t) - 1
    OBVIOUS
  <2> HIDE DEF n
  <2>8. r \in Seq(Records) /\ DOMAIN r = 1 .. n
    BY <2>5, <2>6, IsASeq
  <2>9. Len(r) = n
    BY <2>6, <2>8, LenProperties
  <2>10. ASSUME NEW k \in 1 .. Len(r)
         PROVE  /\ k + 1 \in 2 .. Len(t)
                /\ r[k] = [s_id |-> m.segment[t[k + 1]].s_id,
                           size |-> m.segment[t[k + 1]].offset]
                /\ r[k].size = m.segment[t[k + 1]].offset
                /\ r[k].s_id = m.segment[t[k + 1]].s_id
    <3>1. k \in 1 .. Len(t) - 1
      BY <2>7, <2>9
    <3>2. k + 1 \in 2 .. Len(t) /\ r[k] = [s_id |-> m.segment[t[k + 1]].s_id,
                                           size |-> m.segment[t[k + 1]].offset]
      BY <2>2, <3>1
    <3> QED BY <3>2
  <2>11. Len(r) = Len(t) - 1
    BY <2>7, <2>9
  <2>12. HasTable(m, pid) /\ Len(t) >= 1
    BY <1>2, <2>1
  <2> HIDE DEF t
  <2> QED BY <2>8, <2>10, <2>11, <2>12 DEF r, t
<1> QED BY <1>1, <1>2

(* Its segments take what the objects in the table of memory take.         *)
LEMMA TableSizeIs ==
  ASSUME NEW m, Sound(m), NEW pid \in Pids
  PROVE  /\ SumOfHoles(TableOf(m, pid)) = SumOfSegments(m.segment, OwnedBy(m, {pid}))
         /\ SumOfHoles(TableOf(m, pid)) \in Nat
<1> DEFINE t == m.table[pid]
           r == TableOf(m, pid)
           own == OwnedBy(m, {pid})
<1>0. /\ r \in Seq(Records)
      /\ ~HasTable(m, pid) => r = <<>>
      /\ HasTable(m, pid) => Len(r) = Len(t) - 1 /\ Len(t) >= 1
      /\ \A k \in 1 .. Len(r) : r[k].size = m.segment[t[k + 1]].offset
  <2> HIDE DEF r, t
  <2>1. /\ r \in Seq(Records)
        /\ ~HasTable(m, pid) => r = <<>>
        /\ HasTable(m, pid) => Len(r) = Len(t) - 1 /\ Len(t) >= 1
        /\ \A k \in 1 .. Len(r) : /\ k + 1 \in 2 .. Len(t)
                                  /\ r[k] = [s_id |-> m.segment[t[k + 1]].s_id,
                                             size |-> m.segment[t[k + 1]].offset]
                                  /\ r[k].size = m.segment[t[k + 1]].offset
                                  /\ r[k].s_id = m.segment[t[k + 1]].s_id
    BY TableOfIs DEF r, t
  <2> QED BY <2>1
<1>1. \A s : s \in own <=> s \in Segments /\ Contains(t, s)
  BY DEF OwnedBy
<1> HIDE DEF r, own
<1>2. CASE ~HasTable(m, pid)
  <2>1. own = {}
    <3>1. Len(<<>>) = 0 /\ \A k \in 1 .. 0 : FALSE
      OBVIOUS
    <3>2. \A s : ~Contains(t, s)
      BY <1>2, <3>1 DEF HasTable, Contains
    <3> QED BY <1>1, <3>2
  <2>2. SumOfHoles(<<>>) = 0
    BY HoleSumIs, HoleSum!SeqSumEmpty
  <2>3. SumOfSegments(m.segment, {}) = 0
    BY SegmentSumIs, SegmentSum!SetSumEmpty
  <2>4. r = <<>>
    BY <1>0, <1>2
  <2>5. SumOfHoles(r) = SumOfSegments(m.segment, own) /\ SumOfHoles(r) \in Nat
    BY <2>1, <2>2, <2>3, <2>4
  <2> QED BY <2>5 DEF r, own
<1>3. CASE HasTable(m, pid)
  <2> DEFINE rest == Tail(t)
             L == ToSet(m.ram)
  <2>1. /\ t \in Seq(Objects) /\ t # <<>> /\ t[1] = Zero /\ IsInjective(t)
        /\ Len(t) \in Nat /\ Len(t) >= 1
        /\ \A j, k \in 1 .. Len(t) : t[j] = t[k] => j = k
        /\ \A k \in 2 .. Len(t) : t[k] \in Segments /\ Contains(m.ram, t[k])
    BY <1>3, TableFacts DEF HasTable
  <2>2. /\ rest \in Seq(Objects) /\ Len(rest) = Len(t) - 1 /\ Head(t) = Zero
        /\ \A k \in 1 .. Len(t) - 1 : rest[k] = t[k + 1]
    BY <2>1, AppendHeadTail
  <2>3. \A k \in 1 .. Len(t) - 1 : k + 1 \in 2 .. Len(t) /\ k + 1 \in 1 .. Len(t)
    BY <2>1
  <2>4. /\ \A s : s \in L <=> Contains(m.ram, s)
        /\ \A s \in L : m.segment[s].offset \in Nat
    BY RamFacts
  <2>5. \A s : Contains(rest, s) <=> Contains(t, s) /\ s # Zero
    BY <2>1, <2>2, TailMembers
  <2>6. ToSet(rest) = own
    <3>1. \A s : s \in ToSet(rest) <=> Contains(rest, s)
      BY <2>2, Members
    <3>2. \A s : Contains(rest, s) => s \in Segments
      <4>1. \A s : Contains(rest, s) <=> \E k \in 1 .. Len(rest) : rest[k] = s
        BY <2>2, Members
      <4> QED BY <2>1, <2>2, <2>3, <4>1
    <3> QED BY <1>1, <2>5, <3>1, <3>2, ZeroAssumption
  <2> HIDE DEF rest, L, t
  <2>7. rest \in Seq(L) /\ IsInjective(rest) /\ DOMAIN rest = 1 .. Len(t) - 1
    <3>1. DOMAIN rest = 1 .. Len(t) - 1
      BY <2>2, LenProperties
    <3>2. \A k \in 1 .. Len(rest) : rest[k] \in L
      BY <2>1, <2>2, <2>3, <2>4
    <3>3. rest \in Seq(L)
      BY <2>2, <3>2, SeqMonotonic, LenProperties, IsASeq
    <3>4. \A j, k \in 1 .. Len(t) - 1 : rest[j] = rest[k] => j = k
      <4>1. \A j, k \in 1 .. Len(t) - 1 : j + 1 = k + 1 => j = k
        BY <2>1
      <4> QED BY <2>1, <2>2, <2>3, <4>1
    <3> QED BY <3>1, <3>3, <3>4 DEF IsInjective
  <2>8. \A s \in L : SizeIn(m.segment, s) \in Nat
    BY <2>4 DEF SizeIn
  <2>9. /\ SegmentSum!SeqSum(m.segment, rest) = SegmentSum!SetSum(m.segment, ToSet(rest))
        /\ SegmentSum!SeqSum(m.segment, rest) \in Nat
    BY <2>7, <2>8, SegmentSum!SeqSumIsSetSum, SegmentSum!SeqSumType
      DEF SizeIn, IsInjective, SegmentSum!IsInjective, ToSet, SegmentSum!ToSet
  <2>10. PICK F : /\ F[0] = 0
                  /\ \A k \in 1 .. Len(rest) : F[k] = F[k - 1] + SizeIn(m.segment, rest[k])
                  /\ SegmentSum!SeqSum(m.segment, rest) = F[Len(rest)]
    BY <2>7, SegmentSum!SeqSumSteps DEF SizeIn
  <2>11. HoleSum!SeqSum(0, r) = F[Len(r)]
    <3>1. \A k \in 1 .. Len(r) : F[k] = F[k - 1] + r[k].size
      BY <1>0, <1>3, <2>2, <2>10 DEF SizeIn
    <3> QED BY <1>0, <2>10, <3>1, HoleSum!SeqSumIs DEF HoleSize
  <2>12. Len(r) = Len(rest)
    BY <1>0, <1>3, <2>2
  <2> QED BY <2>6, <2>9, <2>10, <2>11, <2>12, HoleSumIs, SegmentSumIs DEF r, own
<1> QED BY <1>2, <1>3

(* What is not used is what remains.                                       *)
LEMMA UsedAndRemaining ==
  ASSUME NEW m, Sound(m)
  PROVE  LET used == TableSum!SetSum(StoreTable(m), Pids) IN
         used \in Nat /\ m.remaining \in Nat /\ used + m.remaining = MemorySize - ZeroSize
<1> DEFINE L == ToSet(m.ram)
           tables == StoreTable(m)
           T == {U \in SUBSET Pids :
                   TableSum!SetSum(tables, U) = SumOfSegments(m.segment, OwnedBy(m, U))}
<1>1. /\ IsFiniteSet(L) /\ \A s : s \in L <=> Contains(m.ram, s)
      /\ \A s \in L : m.segment[s].offset \in Nat
      /\ L \subseteq Objects
  BY RamFacts
<1>2. /\ \A s \in Segments : Contains(m.ram, s) <=> \E pid \in Pids : Contains(m.table[pid], s)
      /\ \A s \in Segments : \A pid, other \in Pids :
           Contains(m.table[pid], s) /\ Contains(m.table[other], s) => pid = other
  BY DEF Sound, Owned
<1>3. ASSUME NEW U \in SUBSET Pids
      PROVE  /\ OwnedBy(m, U) \in SUBSET L /\ IsFiniteSet(OwnedBy(m, U))
             /\ \A s \in OwnedBy(m, U) : m.segment[s].offset \in Nat
  <2>1. OwnedBy(m, U) \in SUBSET L
    BY <1>1, <1>2 DEF OwnedBy
  <2> QED BY <1>1, <2>1, FS_Subset
<1>4. {} \in T
  <2>1. OwnedBy(m, {}) = {}
    BY DEF OwnedBy
  <2>2. TableSum!SetSum(tables, {}) = 0
    BY TableSum!SetSumEmpty
  <2>3. SumOfSegments(m.segment, {}) = 0
    BY SegmentSumIs, SegmentSum!SetSumEmpty
  <2> QED BY <2>1, <2>2, <2>3
<1>5. \A pid \in Pids : /\ tables[pid] = TableOf(m, pid)
                        /\ SizeOfTable(tables, pid)
                             = SumOfSegments(m.segment, OwnedBy(m, {pid}))
                        /\ SizeOfTable(tables, pid) \in Nat
  BY TableSizeIs DEF StoreTable, SizeOfTable
<1> HIDE DEF tables, L
<1>6. ASSUME NEW U \in SUBSET Pids, U # {}, \A x \in U : U \ {x} \in T
      PROVE  U \in T
  <2>1. PICK pid \in U : TRUE
    BY <1>6
  <2> DEFINE V == U \ {pid}
             A == OwnedBy(m, V)
             B == OwnedBy(m, {pid})
  <2>2. V \in SUBSET Pids /\ {pid} \in SUBSET Pids /\ pid \in Pids
    OBVIOUS
  <2>3. TableSum!SetSum(tables, V) = SumOfSegments(m.segment, A)
    BY <1>6
  <2>4. OwnedBy(m, U) = A \cup B /\ A \cap B = {}
    BY <1>2 DEF OwnedBy
  <2>5. /\ IsFiniteSet(A) /\ IsFiniteSet(B)
        /\ \A s \in A \cup B : m.segment[s].offset \in Nat
    BY <1>3, <2>2
  <2> HIDE DEF A, B
  <2>6. SumOfSegments(m.segment, A \cup B)
          = SumOfSegments(m.segment, A) + SumOfSegments(m.segment, B)
    <3>1. \A s \in A \cup B : SizeIn(m.segment, s) \in Nat
      BY <2>5 DEF SizeIn
    <3>2. SegmentSum!SetSum(m.segment, A \cup B)
            = SegmentSum!SetSum(m.segment, A) + SegmentSum!SetSum(m.segment, B)
      BY <2>4, <2>5, <3>1, SegmentSum!SetSumUnion
        DEF SizeIn, IsFiniteSet, SegmentSum!IsFiniteSet
    <3> QED BY <3>2, SegmentSumIs
  <2>7. TableSum!SetSum(tables, U)
          = SizeOfTable(tables, pid) + TableSum!SetSum(tables, V)
    <3>1. IsFiniteSet(U) /\ \A x \in U : SizeOfTable(tables, x) \in Nat
      BY <1>5, PidsAssumption, FS_Subset
    <3>2. \A x \in U : SumOfHoles(tables[x]) \in Nat
      BY <3>1 DEF SizeOfTable
    <3>3. TableSum!IsFiniteSet(U)
      BY <3>1 DEF IsFiniteSet, TableSum!IsFiniteSet
    <3>4. \A e \in U : TableSum!SetSum(tables, U)
                       = SumOfHoles(tables[e]) + TableSum!SetSum(tables, U \ {e})
      BY <3>2, <3>3, TableSum!SetSumRemove DEF SizeOfTable
    <3> QED BY <2>1, <3>4 DEF SizeOfTable
  <2>8. SizeOfTable(tables, pid) = SumOfSegments(m.segment, B)
    BY <1>5, <2>2 DEF B
  <2>9. SumOfSegments(m.segment, A) \in Nat /\ SumOfSegments(m.segment, B) \in Nat
    BY <2>5, SumOfSegmentsSteps
  <2>10. TableSum!SetSum(tables, U)
           = SumOfSegments(m.segment, A) + SumOfSegments(m.segment, B)
    BY <2>3, <2>7, <2>8, <2>9
  <2> QED BY <2>4, <2>6, <2>10
<1>7. T = SUBSET Pids
  <2>1. T \in SUBSET SUBSET Pids
    OBVIOUS
  <2> HIDE DEF T
  <2> QED BY <1>4, <1>6, <2>1, PidsAssumption, TableSum!SubsetInduction
        DEF IsFiniteSet, TableSum!IsFiniteSet
<1>8. TableSum!SetSum(tables, Pids) = SumOfSegments(m.segment, OwnedBy(m, Pids))
  <2>1. Pids \in T
    BY <1>7
  <2> QED BY <2>1
<1>9. OwnedBy(m, Pids) = L \ {Zero} /\ Zero \in L
  <2>1. Zero \in L
    <3>1. 1 \in 1 .. Len(m.ram) /\ m.ram[1] = Zero
      BY RamFacts
    <3> QED BY <1>1, <3>1 DEF Contains
  <2> QED BY <1>1, <1>2, <2>1, ZeroAssumption DEF OwnedBy, Objects
<1>10. /\ SumOfSegments(m.segment, L) = ZeroSize + SumOfSegments(m.segment, L \ {Zero})
       /\ SumOfSegments(m.segment, L \ {Zero}) \in Nat
  <2>1. m.segment[Zero].offset = ZeroSize
    BY DEF Sound, Shape
  <2>2. IsFiniteSet(L \ {Zero}) /\ \A s \in L \ {Zero} : m.segment[s].offset \in Nat
    BY <1>1, FS_RemoveElement
  <2> QED BY <1>1, <1>9, <2>1, <2>2, SumOfSegmentsSteps
<1>11. m.remaining \in Nat /\ m.remaining + SumOfSegments(m.segment, L) = MemorySize
  BY DEF Sound, Shape, Accounts, L
<1> QED BY <1>8, <1>9, <1>10, <1>11, MemoryAssumption DEF tables

-----------------------------------------------------------------------------
(* What the steps of memory do to the tables of the store.                 *)

(* The segments of m that are in the table of pid are in n what they were. *)
SameSegments(m, n, pid) ==
  \A s \in Segments : Contains(m.table[pid], s) =>
    n.segment[s].s_id = m.segment[s].s_id /\ n.segment[s].offset = m.segment[s].offset

(* The table of a process that has one.                                    *)
LEMMA TableOfOwner ==
  ASSUME NEW m, Sound(m), NEW pid \in Pids, HasTable(m, pid)
  PROVE  /\ TableOf(m, pid) \in Seq(Records)
         /\ Len(TableOf(m, pid)) = Len(m.table[pid]) - 1
         /\ \A k \in 1 .. Len(TableOf(m, pid)) :
              TableOf(m, pid)[k] = [s_id |-> m.segment[m.table[pid][k + 1]].s_id,
                                    size |-> m.segment[m.table[pid][k + 1]].offset]
<1> DEFINE r == TableOf(m, pid)
<1>1. /\ r \in Seq(Records) /\ Len(r) = Len(m.table[pid]) - 1
      /\ \A k \in 1 .. Len(r) : r[k] = [s_id |-> m.segment[m.table[pid][k + 1]].s_id,
                                        size |-> m.segment[m.table[pid][k + 1]].offset]
  BY TableOfIs
<1> QED BY <1>1

(* A table that did not change, of segments that did not.                  *)
LEMMA TableOfSame ==
  ASSUME NEW m, NEW n, NEW pid \in Pids, Sound(m), n.table[pid] = m.table[pid],
         SameSegments(m, n, pid)
  PROVE  TableOf(n, pid) = TableOf(m, pid)
<1> DEFINE t == m.table[pid]
<1>1. Len(t) \in Nat
  BY LenProperties DEF Sound, Shape
<1>2. ASSUME NEW k \in 1 .. Len(t) - 1
      PROVE  /\ n.segment[t[k + 1]].s_id = m.segment[t[k + 1]].s_id
             /\ n.segment[t[k + 1]].offset = m.segment[t[k + 1]].offset
  <2>1. k + 1 \in 2 .. Len(t) /\ k + 1 \in 1 .. Len(t)
    BY <1>1
  <2>2. HasTable(m, pid)
    BY <2>1 DEF HasTable
  <2>3. t[k + 1] \in Segments /\ Contains(t, t[k + 1])
    BY <2>1, <2>2, TableFacts
  <2> QED BY <2>3 DEF SameSegments
<1> QED BY <1>2 DEF TableOf

(* A table that got the segment of the object s.                           *)
LEMMA TableOfAppended ==
  ASSUME NEW m, NEW n, NEW pid \in Pids, Sound(m), Sound(n), HasTable(m, pid),
         NEW s \in Objects, n.table[pid] = Append(m.table[pid], s),
         SameSegments(m, n, pid)
  PROVE  TableOf(n, pid)
           = Append(TableOf(m, pid),
                    [s_id |-> n.segment[s].s_id, size |-> n.segment[s].offset])
<1> DEFINE t == m.table[pid]
           u == n.table[pid]
           q == TableOf(m, pid)
           r == TableOf(n, pid)
           e == [s_id |-> n.segment[s].s_id, size |-> n.segment[s].offset]
<1>1. /\ t \in Seq(Objects) /\ Len(t) \in Nat /\ Len(t) >= 1
      /\ \A k \in 2 .. Len(t) : t[k] \in Segments /\ Contains(t, t[k])
  BY TableFacts
<1>2. /\ Len(u) = Len(t) + 1
      /\ \A k \in 1 .. Len(t) + 1 : u[k] = IF k <= Len(t) THEN t[k] ELSE s
      /\ HasTable(n, pid)
  <2>1. /\ Len(Append(t, s)) = Len(t) + 1
        /\ \A k \in 1 .. Len(t) + 1 : Append(t, s)[k] = IF k <= Len(t) THEN t[k] ELSE s
    BY <1>1, AppendHeadTail
  <2>2. u = Append(t, s) /\ Len(<<>>) = 0
    OBVIOUS
  <2> HIDE DEF t, u
  <2> QED BY <1>1, <2>1, <2>2 DEF HasTable, u
<1> HIDE DEF q, r, t, u, e
<1>3. /\ q \in Seq(Records) /\ Len(q) = Len(t) - 1
      /\ \A k \in 1 .. Len(q) : q[k] = [s_id |-> m.segment[t[k + 1]].s_id,
                                        size |-> m.segment[t[k + 1]].offset]
  BY TableOfOwner DEF q, t
<1>4. /\ r \in Seq(Records) /\ Len(r) = Len(u) - 1
      /\ \A k \in 1 .. Len(r) : r[k] = [s_id |-> n.segment[u[k + 1]].s_id,
                                        size |-> n.segment[u[k + 1]].offset]
  <2>1. HasTable(n, pid)
    BY <1>2
  <2> QED BY <2>1, TableOfOwner DEF r, u
<1>5. Len(r) = Len(q) + 1 /\ Len(r) = Len(t) /\ Len(t) \in 1 .. Len(r)
  BY <1>1, <1>2, <1>3, <1>4
<1>6. r[Len(t)] = e
  <2>1. Len(t) + 1 \in 1 .. Len(t) + 1 /\ ~(Len(t) + 1 <= Len(t))
    BY <1>1
  <2>2. u[Len(t) + 1] = s
    BY <1>2, <2>1
  <2> QED BY <1>4, <1>5, <2>2 DEF e
<1>7. e \in Records
  <2>1. \A k \in 1 .. Len(r) : r[k] \in Records
    BY <1>4, ElementOfSeq
  <2> QED BY <1>5, <1>6, <2>1
<1>8. /\ Append(q, e) \in Seq(Records) /\ Len(Append(q, e)) = Len(q) + 1
      /\ \A k \in 1 .. Len(q) + 1 : Append(q, e)[k] = IF k <= Len(q) THEN q[k] ELSE e
  BY <1>3, <1>7, AppendHeadTail
<1>9. ASSUME NEW k \in 1 .. Len(r) PROVE r[k] = Append(q, e)[k]
  <2>1. CASE k = Len(t)
    <3>1. ~(k <= Len(q)) /\ k \in 1 .. Len(q) + 1
      BY <1>1, <1>3, <1>5, <2>1
    <3> QED BY <1>6, <1>8, <2>1, <3>1
  <2>2. CASE k # Len(t)
    <3>1. /\ k <= Len(q) /\ k \in 1 .. Len(q) + 1 /\ k \in 1 .. Len(q)
          /\ k + 1 \in 1 .. Len(t) + 1 /\ k + 1 <= Len(t) /\ k + 1 \in 2 .. Len(t)
      BY <1>1, <1>3, <1>5, <2>2
    <3>2. u[k + 1] = t[k + 1] /\ t[k + 1] \in Segments /\ Contains(t, t[k + 1])
      BY <1>1, <1>2, <3>1
    <3>3. /\ n.segment[t[k + 1]].s_id = m.segment[t[k + 1]].s_id
          /\ n.segment[t[k + 1]].offset = m.segment[t[k + 1]].offset
      BY <3>2 DEF SameSegments, t
    <3>4. r[k] = q[k]
      BY <1>3, <1>4, <3>1, <3>2, <3>3
    <3> QED BY <1>8, <3>1, <3>4
  <2> QED BY <2>1, <2>2
<1>10. r = Append(q, e)
  BY <1>4, <1>5, <1>8, <1>9, SeqEqual
<1> QED BY <1>10 DEF q, r, e

(* A table that lost its entry k.                                          *)
LEMMA TableOfRemoved ==
  ASSUME NEW m, NEW n, NEW pid \in Pids, Sound(m), Sound(n),
         HasTable(m, pid), HasTable(n, pid), NEW k \in 2 .. Len(m.table[pid]),
         n.table[pid] = RemoveAt(m.table[pid], k),
         \A s \in Segments : s # m.table[pid][k] => n.segment[s] = m.segment[s]
  PROVE  /\ TableOf(n, pid) = RemoveAt(TableOf(m, pid), k - 1)
         /\ k - 1 \in 1 .. Len(TableOf(m, pid))
<1> DEFINE t == m.table[pid]
           u == n.table[pid]
           q == TableOf(m, pid)
           r == TableOf(n, pid)
<1>1. /\ t \in Seq(Objects) /\ Len(t) \in Nat /\ Len(t) >= 1
      /\ \A j \in 2 .. Len(t) : t[j] \in Segments
      /\ \A i, j \in 1 .. Len(t) : t[i] = t[j] => i = j
  BY TableFacts
<1> HIDE DEF t
<1>2. /\ k \in 1 .. Len(t) /\ k \in Nat /\ k >= 2 /\ k <= Len(t)
  BY <1>1 DEF t
<1>3. /\ Len(u) = Len(t) - 1
      /\ \A j \in 1 .. Len(t) - 1 : u[j] = IF j < k THEN t[j] ELSE t[j + 1]
  <2>1. u = RemoveAt(t, k)
    BY DEF t
  <2> HIDE DEF u
  <2> QED BY <1>1, <1>2, <2>1, RemoveAtProperties
<1> HIDE DEF q, r, u
<1>4. /\ q \in Seq(Records) /\ Len(q) = Len(t) - 1
      /\ \A j \in 1 .. Len(q) : q[j] = [s_id |-> m.segment[t[j + 1]].s_id,
                                        size |-> m.segment[t[j + 1]].offset]
  BY TableOfOwner DEF q, t
<1>5. /\ r \in Seq(Records) /\ Len(r) = Len(u) - 1
      /\ \A j \in 1 .. Len(r) : r[j] = [s_id |-> n.segment[u[j + 1]].s_id,
                                        size |-> n.segment[u[j + 1]].offset]
  BY TableOfOwner DEF r, u
<1>6. k - 1 \in 1 .. Len(q) /\ Len(r) = Len(q) - 1 /\ Len(q) \in Nat
  BY <1>1, <1>2, <1>3, <1>4, <1>5
<1>7. /\ RemoveAt(q, k - 1) \in Seq(Records)
      /\ Len(RemoveAt(q, k - 1)) = Len(q) - 1
      /\ \A j \in 1 .. Len(q) - 1 :
           RemoveAt(q, k - 1)[j] = IF j < k - 1 THEN q[j] ELSE q[j + 1]
  BY <1>4, <1>6, RemoveAtProperties
<1>8. ASSUME NEW j \in 1 .. Len(r) PROVE r[j] = RemoveAt(q, k - 1)[j]
  <2>1. CASE j < k - 1
    <3>1. /\ j \in 1 .. Len(q) - 1 /\ j \in 1 .. Len(q) /\ j + 1 < k
          /\ j + 1 \in 1 .. Len(t) - 1 /\ j + 1 \in 2 .. Len(t) /\ j + 1 # k
          /\ j + 1 \in 1 .. Len(t)
      BY <1>1, <1>2, <1>3, <1>4, <1>5, <2>1
    <3>2. u[j + 1] = t[j + 1] /\ t[j + 1] \in Segments /\ t[j + 1] # t[k]
      BY <1>1, <1>2, <1>3, <3>1
    <3>3. n.segment[t[j + 1]] = m.segment[t[j + 1]]
      BY <3>2 DEF t
    <3>4. q[j] = [s_id |-> m.segment[t[j + 1]].s_id,
                  size |-> m.segment[t[j + 1]].offset]
      BY <1>4, <3>1
    <3>5. r[j] = q[j]
      BY <1>5, <3>2, <3>3, <3>4
    <3> QED BY <1>7, <2>1, <3>1, <3>5
  <2>2. CASE ~(j < k - 1)
    <3>1. /\ j \in 1 .. Len(q) - 1 /\ j + 1 \in 1 .. Len(q) /\ ~(j + 1 < k)
          /\ j + 1 \in 1 .. Len(t) - 1 /\ j + 2 \in 2 .. Len(t) /\ j + 2 # k
          /\ j + 2 \in 1 .. Len(t) /\ (j + 1) + 1 = j + 2
      BY <1>1, <1>2, <1>3, <1>4, <1>5, <2>2
    <3>2. u[j + 1] = t[j + 2] /\ t[j + 2] \in Segments /\ t[j + 2] # t[k]
      BY <1>1, <1>2, <1>3, <3>1
    <3>3. n.segment[t[j + 2]] = m.segment[t[j + 2]]
      BY <3>2 DEF t
    <3>4. q[j + 1] = [s_id |-> m.segment[t[j + 2]].s_id,
                      size |-> m.segment[t[j + 2]].offset]
      BY <1>4, <3>1
    <3>5. r[j] = q[j + 1]
      BY <1>5, <3>2, <3>3, <3>4
    <3> QED BY <1>7, <2>2, <3>1, <3>5
  <2> QED BY <2>1, <2>2
<1>9. r = RemoveAt(q, k - 1)
  BY <1>5, <1>6, <1>7, <1>8, SeqEqual
<1> QED BY <1>6, <1>9 DEF q, r

-----------------------------------------------------------------------------
(* The state of the store that a state of memory stands for.               *)
StoreOpen(m) == {pid \in Pids : HasTable(m, pid)}
Owed(k, req) == IF k \in {"compact", "retry"} THEN req ELSE NoSegment
Dying(k, req) == IF k = "exit" THEN req.pid ELSE NoSegment
SameStore ==
  /\ StoreOpen(structure') = StoreOpen(structure)
  /\ StoreTable(structure') = StoreTable(structure)
  /\ Owed(kernel', request') = Owed(kernel, request)
  /\ Dying(kernel', request') = Dying(kernel, request)

(* Its variables are those.                                                *)
LEMMA StoreVariables ==
  /\ {pid \in Pids : HasTable(structure, pid)} = StoreOpen(structure)
  /\ [pid \in Pids |-> SegmentsOf(pid)] = StoreTable(structure)
BY DEF StoreOpen, StoreTable, TableOf, SegmentsOf

LEMMA SameStoreStutters ==
  ASSUME SameStore
  PROVE  UNCHANGED Store!vars
<1>1. Store!vars = <<StoreOpen(structure), StoreTable(structure),
                     Owed(kernel, request), Dying(kernel, request)>>
  BY DEF Store!vars, StoreOpen, StoreTable, TableOf, SegmentsOf, Owed, Dying
<1>2. Store!vars' = <<StoreOpen(structure'), StoreTable(structure'),
                      Owed(kernel', request'), Dying(kernel', request')>>
  BY DEF Store!vars, StoreOpen, StoreTable, TableOf, SegmentsOf, Owed, Dying
<1> QED BY <1>1, <1>2 DEF SameStore

LEMMA BeginIs ==
  ASSUME NEW pid \in Pids, pid \notin StoreOpen(structure),
         StoreOpen(structure') = StoreOpen(structure) \cup {pid},
         StoreTable(structure') = StoreTable(structure),
         Owed(kernel', request') = Owed(kernel, request),
         Dying(kernel', request') = Dying(kernel, request)
  PROVE  Store!Begin(pid)
BY DEF Store!Begin, StoreOpen, StoreTable, TableOf, SegmentsOf, Owed, Dying

LEMMA FinishIs ==
  ASSUME NEW pid \in Pids, pid \in StoreOpen(structure),
         Owed(kernel, request) = NoSegment,
         Dying(kernel, request) \in {NoSegment, pid},
         StoreOpen(structure') = StoreOpen(structure) \ {pid},
         StoreTable(structure') = [StoreTable(structure) EXCEPT ![pid] = <<>>],
         Owed(kernel', request') = Owed(kernel, request),
         Dying(kernel', request') = NoSegment
  PROVE  Store!Finish(pid)
BY DEF Store!Finish, StoreOpen, StoreTable, TableOf, SegmentsOf, Owed, Dying

Granted(pid, s_id, size) ==
  /\ StoreOpen(structure') = StoreOpen(structure)
  /\ Dying(kernel', request') = Dying(kernel, request)
  /\ StoreTable(structure') =
       [StoreTable(structure) EXCEPT ![pid] = Append(@, [s_id |-> s_id, size |-> size])]
  /\ Store!Fits(size)

LEMMA GrantNowIs ==
  ASSUME NEW pid \in Pids, NEW s_id, NEW size, pid \in StoreOpen(structure),
         Owed(kernel, request) = NoSegment, Dying(kernel, request) = NoSegment,
         Owed(kernel', request') = Owed(kernel, request),
         Granted(pid, s_id, size)
  PROVE  Store!GrantNow(pid, s_id, size)
BY DEF Store!GrantNow, Store!Grant, Store!Idle, Granted, StoreOpen, StoreTable, TableOf,
       SegmentsOf, Owed, Dying

LEMMA GrantDeferredIs ==
  ASSUME Owed(kernel, request) = request, request # NoSegment,
         Owed(kernel', request') = NoSegment,
         Granted(request.pid, request.s_id, request.size)
  PROVE  Store!GrantDeferred
BY DEF Store!GrantDeferred, Store!Grant, Granted, StoreOpen, StoreTable, TableOf,
       SegmentsOf, Owed, Dying

LEMMA DeferIs ==
  ASSUME NEW pid \in Pids, NEW s_id, NEW size, pid \in StoreOpen(structure),
         Owed(kernel, request) = NoSegment, Dying(kernel, request) = NoSegment,
         StoreOpen(structure') = StoreOpen(structure),
         StoreTable(structure') = StoreTable(structure),
         Owed(kernel', request') = [pid |-> pid, s_id |-> s_id, size |-> size],
         Dying(kernel', request') = Dying(kernel, request),
         Store!Fits(size)
  PROVE  Store!Defer(pid, s_id, size)
BY DEF Store!Defer, Store!Idle, StoreOpen, StoreTable, TableOf, SegmentsOf, Owed, Dying

LEMMA RefuseIs ==
  ASSUME NEW pid \in Pids, NEW size, pid \in StoreOpen(structure),
         Owed(kernel, request) = NoSegment, Dying(kernel, request) = NoSegment,
         StoreOpen(structure') = StoreOpen(structure),
         StoreTable(structure') = StoreTable(structure),
         Owed(kernel', request') = Owed(kernel, request),
         Dying(kernel', request') = pid,
         ~Store!Fits(size)
  PROVE  Store!Refuse(pid, size)
BY DEF Store!Refuse, Store!Idle, StoreOpen, StoreTable, TableOf, SegmentsOf, Owed, Dying

LEMMA DeleteIs ==
  ASSUME NEW pid \in Pids, NEW s_id, pid \in StoreOpen(structure),
         Owed(kernel, request) = NoSegment, Dying(kernel, request) = NoSegment,
         NEW k \in DOMAIN TableOf(structure, pid),
         TableOf(structure, pid)[k].s_id = s_id,
         \A j \in 1 .. k - 1 : TableOf(structure, pid)[j].s_id # s_id,
         StoreTable(structure') =
           [StoreTable(structure) EXCEPT ![pid] = RemoveAt(@, k)],
         StoreOpen(structure') = StoreOpen(structure),
         Owed(kernel', request') = Owed(kernel, request),
         Dying(kernel', request') = Dying(kernel, request)
  PROVE  Store!Delete(pid, s_id)
<1> DEFINE tables == StoreTable(structure)
<1>1. tables[pid] = TableOf(structure, pid)
  BY DEF StoreTable
<1>2. /\ k \in DOMAIN tables[pid] /\ tables[pid][k].s_id = s_id
      /\ \A j \in 1 .. k - 1 : tables[pid][j].s_id # s_id
      /\ StoreTable(structure') = [tables EXCEPT ![pid] = RemoveAt(@, k)]
  BY <1>1
<1>3. \E i \in DOMAIN tables[pid] :
        /\ tables[pid][i].s_id = s_id
        /\ \A j \in 1 .. i - 1 : tables[pid][j].s_id # s_id
        /\ StoreTable(structure') = [tables EXCEPT ![pid] = RemoveAt(@, i)]
  BY <1>2
<1> QED BY <1>3 DEF Store!Delete, Store!Idle, StoreOpen, StoreTable, TableOf,
           SegmentsOf, Owed, Dying, RemoveAt, Store!RemoveAt

(* A size fits when memory has room for it.                                *)
LEMMA FitsIs ==
  ASSUME MemoryInv, NEW size \in Nat
  PROVE  Store!Fits(size) <=> size <= structure.remaining
<1> DEFINE used == TableSum!SetSum(StoreTable(structure), Pids)
<1>1. /\ used \in Nat /\ structure.remaining \in Nat
      /\ used + structure.remaining = MemorySize - ZeroSize
  BY UsedAndRemaining DEF MemoryInv
<1>2. Store!Used = used
  BY UsedIs
<1>3. Store!Fits(size) <=> Store!Used + size <= MemorySize - ZeroSize
  BY DEF Store!Fits
<1>4. MemorySize - ZeroSize \in Nat
  BY MemoryAssumption
<1> HIDE DEF used
<1> QED BY <1>1, <1>2, <1>3, <1>4

-----------------------------------------------------------------------------
(* Each request is a step of the store, or none.                           *)

(* The tables of the store when one process has another.                   *)
LEMMA OneTableChanges ==
  ASSUME NEW m, NEW n, NEW pid \in Pids, Sound(m),
         \A other \in Pids : other # pid =>
           n.table[other] = m.table[other] /\ SameSegments(m, n, other)
  PROVE  StoreTable(n) = [StoreTable(m) EXCEPT ![pid] = TableOf(n, pid)]
<1>1. \A other \in Pids : other # pid => TableOf(n, other) = TableOf(m, other)
  BY TableOfSame
<1> QED BY <1>1 DEF StoreTable

LEMMA InitProcessBegins ==
  ASSUME MemoryInv, NEW pid \in Pids, InitProcess(pid)
  PROVE  Store!Begin(pid)
<1>1. /\ Sound(structure) /\ ~HasTable(structure, pid)
      /\ structure' = [structure EXCEPT !.table[pid] = <<Zero>>]
      /\ UNCHANGED <<kernel, request>>
  BY DEF MemoryInv, InitProcess
<1>2. structure.table \in [Pids -> Seq(Objects)]
  BY <1>1 DEF Sound, Shape
<1>3. /\ structure'.table = [structure.table EXCEPT ![pid] = <<Zero>>]
      /\ structure'.segment = structure.segment
  BY <1>1 DEF Sound, Shape
<1>4. /\ structure'.table[pid] = <<Zero>>
      /\ \A other \in Pids : other # pid =>
           structure'.table[other] = structure.table[other]
  BY <1>2, <1>3
<1>5. StoreOpen(structure') = StoreOpen(structure) \cup {pid}
  BY <1>4 DEF StoreOpen, HasTable
<1>6. pid \notin StoreOpen(structure)
  BY <1>1 DEF StoreOpen
<1>7. TableOf(structure', pid) = TableOf(structure, pid)
  <2>1. Len(<<Zero>>) = 1 /\ Len(<<>>) = 0 /\ 1 .. 1 - 1 = {} /\ 1 .. 0 - 1 = {}
    OBVIOUS
  <2>2. structure.table[pid] = <<>>
    BY <1>1 DEF HasTable
  <2>3. 1 .. Len(structure.table[pid]) - 1 = {} /\ 1 .. Len(structure'.table[pid]) - 1 = {}
    BY <1>4, <2>1, <2>2
  <2> QED BY <2>3 DEF TableOf
<1>8. \A other \in Pids : TableOf(structure', other) = TableOf(structure, other)
  <2> SUFFICES ASSUME NEW other \in Pids, other # pid
               PROVE  TableOf(structure', other) = TableOf(structure, other)
    BY <1>7
  <2>1. SameSegments(structure, structure', other)
    BY <1>3 DEF SameSegments
  <2>2. structure'.table[other] = structure.table[other]
    BY <1>4
  <2> QED BY <1>1, <2>1, <2>2, TableOfSame
<1>9. StoreTable(structure') = StoreTable(structure)
  BY <1>8 DEF StoreTable
<1> QED BY <1>1, <1>5, <1>6, <1>9, BeginIs

LEMMA EndProcessFinishes ==
  ASSUME MemoryInv, NEW pid \in Pids, EndProcess(pid)
  PROVE  Store!Finish(pid)
<1> DEFINE n == RemoveSgTable(structure, pid)
<1>1. /\ Sound(structure) /\ HasTable(structure, pid) /\ structure' = n
      /\ kernel = "idle" \/ (kernel = "exit" /\ pid = request.pid)
      /\ kernel' = "idle" /\ request' = NoSegment
  BY DEF MemoryInv, EndProcess
<1>2. /\ Sound(n) /\ ~HasTable(n, pid)
      /\ \A other \in Pids : other # pid => n.table[other] = structure.table[other]
      /\ \A s : Contains(n.ram, s) => n.segment[s] = structure.segment[s]
  BY <1>1, RemoveSgTableKeepsSound
<1> HIDE DEF n
<1>3. \A other \in Pids : other # pid => SameSegments(structure, n, other)
  <2> SUFFICES ASSUME NEW other \in Pids, other # pid,
                      NEW s \in Segments, Contains(structure.table[other], s)
               PROVE  n.segment[s] = structure.segment[s]
    BY DEF SameSegments
  <2>1. Contains(n.table[other], s)
    BY <1>2
  <2>2. Contains(n.ram, s)
    BY <1>2, <2>1 DEF Sound, Owned
  <2> QED BY <1>2, <2>2
<1>4. TableOf(n, pid) = <<>>
  BY <1>2, TableOfIs
<1>5. StoreTable(n) = [StoreTable(structure) EXCEPT ![pid] = <<>>]
  BY <1>1, <1>2, <1>3, <1>4, OneTableChanges
<1>6. StoreOpen(n) = StoreOpen(structure) \ {pid} /\ pid \in StoreOpen(structure)
  BY <1>1, <1>2 DEF StoreOpen, HasTable
<1>7. /\ Owed(kernel, request) = NoSegment /\ Owed(kernel', request') = NoSegment
      /\ Dying(kernel, request) \in {NoSegment, pid}
      /\ Dying(kernel', request') = NoSegment
  BY <1>1 DEF Owed, Dying
<1> QED BY <1>1, <1>5, <1>6, <1>7, FinishIs

(* A segment that is given is appended to its table, and there was room.   *)
LEMMA GivenIsGranted ==
  ASSUME MemoryInv, NEW req \in Requests, HasTable(structure, req.pid),
         Answer(structure, req.size) = "MESSAGE_OK", NEW s \in Free(structure),
         structure' = AddSegment(structure, req, s),
         Dying(kernel', request') = Dying(kernel, request)
  PROVE  Granted(req.pid, req.s_id, req.size)
<1> DEFINE m == structure
           n == AddSegment(structure, req, s)
           k == Fit(algorithm, m.hole_list, req.size)
           pid == req.pid
<1>1. Sound(m) /\ pid \in Pids /\ structure' = n
  BY DEF MemoryInv, Requests
<1>2. /\ Sound(n)
      /\ \A x : Contains(n.ram, x) <=> Contains(m.ram, x) \/ x = s
      /\ n.table = [m.table EXCEPT ![pid] = Append(@, s)]
      /\ n.segment = [m.segment EXCEPT ![s] = [base   |-> m.hole_list[k].base,
                                               offset |-> req.size,
                                               s_id   |-> req.s_id]]
      /\ \A other \in Pids : HasTable(n, other) <=> HasTable(m, other)
  BY <1>1, GivenAsAnswered
<1>3. /\ m.table \in [Pids -> Seq(Objects)]
      /\ m.segment \in [Objects -> SegmentRecords \cup {NoSegment}]
  BY <1>1 DEF Sound, Shape
<1>4. s \in Objects /\ s \in Segments /\ ~Contains(m.ram, s)
  BY <1>1, RamFacts DEF Free, Objects
<1> HIDE DEF m, n, k
<1>5. /\ n.table[pid] = Append(m.table[pid], s)
      /\ \A other \in Pids : other # pid => n.table[other] = m.table[other]
  BY <1>1, <1>2, <1>3
<1>6. /\ n.segment[s].s_id = req.s_id /\ n.segment[s].offset = req.size
      /\ \A x \in Objects : x # s => n.segment[x] = m.segment[x]
  BY <1>2, <1>3, <1>4
<1>7. \A other \in Pids : SameSegments(m, n, other)
  <2> SUFFICES ASSUME NEW other \in Pids, NEW x \in Segments, Contains(m.table[other], x)
               PROVE  n.segment[x] = m.segment[x]
    BY DEF SameSegments
  <2>1. Contains(m.ram, x)
    BY <1>1 DEF Sound, Owned
  <2> QED BY <1>4, <1>6, <2>1 DEF Objects
<1>8. TableOf(n, pid) = Append(TableOf(m, pid), [s_id |-> req.s_id, size |-> req.size])
  <2>1. HasTable(m, pid) /\ Sound(m) /\ Sound(n) /\ pid \in Pids /\ s \in Objects
    BY <1>1, <1>2, <1>4 DEF m
  <2>2. n.table[pid] = Append(m.table[pid], s) /\ SameSegments(m, n, pid)
    BY <1>1, <1>5, <1>7
  <2> HIDE DEF pid
  <2>3. TableOf(n, pid)
          = Append(TableOf(m, pid),
                   [s_id |-> n.segment[s].s_id, size |-> n.segment[s].offset])
    BY <2>1, <2>2, TableOfAppended
  <2> QED BY <1>6, <2>3
<1>9. StoreTable(n) = [StoreTable(m) EXCEPT ![pid] =
                         Append(@, [s_id |-> req.s_id, size |-> req.size])]
  <2>1. StoreTable(n) = [StoreTable(m) EXCEPT ![pid] = TableOf(n, pid)]
    <3>1. \A other \in Pids : other # pid =>
            n.table[other] = m.table[other] /\ SameSegments(m, n, other)
      BY <1>5, <1>7
    <3>2. Sound(m) /\ pid \in Pids
      BY <1>1
    <3> HIDE DEF pid
    <3> QED BY <3>1, <3>2, OneTableChanges
  <2>2. StoreTable(m)[pid] = TableOf(m, pid)
    BY <1>1 DEF StoreTable
  <2> QED BY <1>8, <2>1, <2>2
<1>10. StoreOpen(n) = StoreOpen(m)
  BY <1>2 DEF StoreOpen
<1>11. Store!Fits(req.size)
  <2>1. ~(structure.remaining < req.size)
    BY DEF Answer
  <2>2. structure.remaining \in Nat /\ req.size \in Nat
    <3>1. req.size \in Sizes /\ \A i \in Sizes : i \in Nat
      BY SizesAssumption, MemoryAssumption DEF Requests
    <3> QED BY <1>1, <3>1 DEF Sound, Shape, m
  <2> QED BY <2>1, <2>2, FitsIs
<1> QED BY <1>1, <1>9, <1>10, <1>11 DEF Granted, m

(* MEM_CREATE_SEGMENT grants, defers or refuses.                           *)
LEMMA CreateSegmentAnswers ==
  ASSUME MemoryInv, NEW pid \in Pids, NEW s_id \in SegmentIds, NEW size \in Sizes,
         CreateSegment(pid, s_id, size)
  PROVE  \/ Store!GrantNow(pid, s_id, size)
         \/ Store!Defer(pid, s_id, size)
         \/ Store!Refuse(pid, size)
<1> DEFINE req == [pid |-> pid, s_id |-> s_id, size |-> size]
           answer == Answer(structure, size)
<1>1. req \in Requests /\ req.pid = pid /\ req.size = size /\ req.s_id = s_id
  BY DEF Requests
<1>2. /\ Sound(structure) /\ HasTable(structure, pid) /\ kernel = "idle"
      /\ size \in Nat /\ structure.remaining \in Nat
  <2>1. Sound(structure) /\ HasTable(structure, pid) /\ kernel = "idle"
    BY DEF MemoryInv, CreateSegment
  <2>2. \A i \in Sizes : i \in Nat
    BY SizesAssumption, MemoryAssumption
  <2> QED BY <2>1, <2>2 DEF Sound, Shape
<1>3. /\ pid \in StoreOpen(structure)
      /\ Owed(kernel, request) = NoSegment /\ Dying(kernel, request) = NoSegment
  BY <1>2 DEF StoreOpen, Owed, Dying
<1>4. CASE answer = "MESSAGE_OK"
  <2>1. PICK s \in Free(structure) : structure' = AddSegment(structure, req, s)
    BY <1>4 DEF CreateSegment
  <2>2. UNCHANGED <<kernel, request>>
    BY <1>4 DEF CreateSegment
  <2> HIDE DEF req
  <2>3. Granted(pid, s_id, size)
    BY <1>1, <1>2, <1>4, <2>1, <2>2, GivenIsGranted
  <2> QED BY <1>3, <2>2, <2>3, GrantNowIs
<1>5. CASE answer # "MESSAGE_OK"
  <2>1. /\ structure' = structure /\ request' = req
        /\ kernel' = IF answer = "OUT_OF_MEMORY" THEN "exit" ELSE "compact"
    BY <1>5 DEF CreateSegment
  <2>2. CASE answer = "OUT_OF_MEMORY"
    <3>1. structure.remaining < size
      BY <2>2 DEF Answer
    <3>2. ~Store!Fits(size)
      BY <1>2, <3>1, FitsIs
    <3>3. Dying(kernel', request') = pid /\ Owed(kernel', request') = NoSegment
      BY <1>1, <2>1, <2>2 DEF Dying, Owed
    <3> QED BY <1>3, <2>1, <3>2, <3>3, RefuseIs
  <2>3. CASE answer # "OUT_OF_MEMORY"
    <3>1. ~(structure.remaining < size)
      BY <2>3 DEF Answer
    <3>2. Store!Fits(size)
      BY <1>2, <3>1, FitsIs
    <3>3. Owed(kernel', request') = req /\ Dying(kernel', request') = NoSegment
      BY <2>1, <2>3 DEF Dying, Owed
    <3> QED BY <1>3, <2>1, <3>2, <3>3, DeferIs
  <2> QED BY <2>2, <2>3
<1> QED BY <1>4, <1>5

(* A compaction does not show.                                             *)
LEMMA CompactAllStutters ==
  ASSUME MemoryInv, CompactAll
  PROVE  SameStore
<1>1. CASE Len(structure.ram) = 1
  <2>1. UNCHANGED <<structure, kernel, request>>
    BY <1>1 DEF CompactAll
  <2> QED BY <2>1 DEF SameStore
<1>2. CASE Len(structure.ram) # 1
  <2> DEFINE n == CompactMemory(structure)
  <2>1. /\ structure' = n /\ kernel' = "retry" /\ kernel = "compact"
        /\ request' = request
    BY <1>2 DEF CompactAll
  <2>2. /\ Sound(structure) /\ request \in Requests
        /\ request.size <= structure.remaining
    BY <2>1 DEF MemoryInv, Waiting
  <2>3. structure.remaining # 0
    <3>1. request.size \in Nat \ {0}
      <4>1. request.size \in Sizes /\ \A i \in Sizes : i \in Nat \ {0}
        BY <2>2, SizesAssumption, MemoryAssumption DEF Requests
      <4> QED BY <4>1
    <3>2. structure.remaining \in Nat
      BY <2>2 DEF Sound, Shape
    <3> QED BY <2>2, <3>1, <3>2
  <2>4. /\ n.table = structure.table
        /\ \A s \in ToSet(structure.ram) :
             /\ n.segment[s].s_id = structure.segment[s].s_id
             /\ n.segment[s].offset = structure.segment[s].offset
    BY <2>2, <2>3, CompactKeepsSound
  <2> HIDE DEF n
  <2>5. \A pid \in Pids : SameSegments(structure, n, pid)
    <3> SUFFICES ASSUME NEW pid \in Pids, NEW s \in Segments,
                        Contains(structure.table[pid], s)
                 PROVE  s \in ToSet(structure.ram)
      BY <2>4 DEF SameSegments
    <3>1. Contains(structure.ram, s)
      BY <2>2 DEF Sound, Owned
    <3> QED BY <2>2, <3>1, RamFacts
  <2>6. \A pid \in Pids : TableOf(n, pid) = TableOf(structure, pid)
    BY <2>2, <2>4, <2>5, TableOfSame
  <2>7. StoreTable(n) = StoreTable(structure) /\ StoreOpen(n) = StoreOpen(structure)
    BY <2>4, <2>6 DEF StoreTable, StoreOpen, HasTable
  <2> QED BY <2>1, <2>7 DEF SameStore, Owed, Dying
<1> QED BY <1>1, <1>2

(* What was deferred is granted.                                           *)
LEMMA RetryCreateGrants ==
  ASSUME MemoryInv, RetryCreate
  PROVE  Store!GrantDeferred
<1>1. /\ request \in Requests /\ HasTable(structure, request.pid) /\ kernel = "retry"
      /\ Answer(structure, request.size) = "MESSAGE_OK"
  BY RetryFits DEF MemoryInv, Waiting, RetryCreate
<1>2. PICK s \in Free(structure) : structure' = AddSegment(structure, request, s)
  BY <1>1 DEF RetryCreate
<1>3. kernel' = "idle" /\ request' = NoSegment
  BY <1>1 DEF RetryCreate
<1>4. /\ Dying(kernel', request') = Dying(kernel, request)
      /\ Owed(kernel, request) = request /\ Owed(kernel', request') = NoSegment
  BY <1>1, <1>3 DEF Owed, Dying
<1>5. request # NoSegment
  BY <1>1, NoSegmentAssumption DEF Requests
<1>6. Granted(request.pid, request.s_id, request.size)
  BY <1>1, <1>2, <1>4, GivenIsGranted
<1> QED BY <1>4, <1>5, <1>6, GrantDeferredIs

(* MEM_DELETE_SEGMENT takes the first segment of the id, or the module     *)
(* ends.                                                                   *)
LEMMA DeleteSegmentDeletes ==
  ASSUME MemoryInv, NEW pid \in Pids, NEW s_id \in SegmentIds, DeleteSegment(pid, s_id)
  PROVE  Store!Delete(pid, s_id) \/ SameStore
<1> DEFINE m == structure
           k == IndexInTable(structure, pid, s_id)
           t == structure.table[pid]
           q == TableOf(structure, pid)
<1>1. /\ Sound(m) /\ HasTable(m, pid) /\ kernel = "idle"
      /\ UNCHANGED <<kernel, request>>
  BY DEF MemoryInv, DeleteSegment
<1>2. CASE k = 0
  <2>1. structure' = structure
    BY <1>2 DEF DeleteSegment
  <2> QED BY <1>1, <2>1 DEF SameStore
<1>3. CASE k # 0
  <2> DEFINE n == DeleteSegmentAt(m, pid, k)
  <2>1. structure' = n
    BY <1>3 DEF DeleteSegment
  <2>2. t \in Seq(Objects) /\ t # <<>> /\ Len(t) \in Nat
    BY <1>1, TableFacts DEF HasTable
  <2>3. /\ k \in 2 .. Len(t) /\ m.segment[t[k]].s_id = s_id
        /\ \A j \in 2 .. k - 1 : m.segment[t[j]].s_id # s_id
    BY <1>3, <2>2, IndexInTableIs
  <2> HIDE DEF k
  <2>4. /\ Sound(n) /\ HasTable(n, pid)
        /\ n.table = [m.table EXCEPT ![pid] = RemoveAt(@, k)]
        /\ n.segment = [m.segment EXCEPT ![m.table[pid][k]] = NoSegment]
    BY <1>1, <2>3, DeleteKeepsSound
  <2>5. /\ m.table \in [Pids -> Seq(Objects)]
        /\ m.segment \in [Objects -> SegmentRecords \cup {NoSegment}]
    BY <1>1 DEF Sound, Shape
  <2> HIDE DEF n
  <2>6. /\ n.table[pid] = RemoveAt(t, k)
        /\ \A other \in Pids : other # pid => n.table[other] = m.table[other]
        /\ \A s \in Segments : s # t[k] => n.segment[s] = m.segment[s]
    BY <2>4, <2>5 DEF Objects
  <2>7. TableOf(n, pid) = RemoveAt(q, k - 1) /\ k - 1 \in 1 .. Len(q)
    BY <1>1, <2>3, <2>4, <2>6, TableOfRemoved
  <2>8. \A other \in Pids : other # pid => SameSegments(m, n, other)
    <3> SUFFICES ASSUME NEW other \in Pids, other # pid, NEW s \in Segments,
                        Contains(m.table[other], s)
                 PROVE  s # t[k]
      BY <2>6 DEF SameSegments
    <3>1. t[k] \in Segments /\ Contains(m.table[pid], t[k])
      BY <1>1, <2>3, TableFacts
    <3> QED BY <1>1, <3>1 DEF Sound, Owned
  <2>9. StoreTable(n) = [StoreTable(m) EXCEPT ![pid] = RemoveAt(@, k - 1)]
    <3>1. StoreTable(n) = [StoreTable(m) EXCEPT ![pid] = TableOf(n, pid)]
      BY <1>1, <2>6, <2>8, OneTableChanges
    <3>2. StoreTable(m)[pid] = q
      BY DEF StoreTable
    <3> HIDE DEF q
    <3> QED BY <2>7, <3>1, <3>2
  <2>10. StoreOpen(n) = StoreOpen(m) /\ pid \in StoreOpen(m)
    BY <1>1, <2>4, <2>6 DEF StoreOpen, HasTable
  <2>11. /\ q \in Seq(Records) /\ Len(q) = Len(t) - 1
         /\ \A j \in 1 .. Len(q) : q[j].s_id = m.segment[t[j + 1]].s_id
    BY <1>1, TableOfIs
  <2>12. q[k - 1].s_id = s_id /\ \A j \in 1 .. (k - 1) - 1 : q[j].s_id # s_id
    <3> HIDE DEF q, t
    <3>1. (k - 1) + 1 = k
      BY <2>2, <2>3
    <3>2. \A j \in 1 .. (k - 1) - 1 : j \in 1 .. Len(q) /\ j + 1 \in 2 .. k - 1
      BY <2>2, <2>3, <2>11
    <3> QED BY <2>3, <2>7, <2>11, <3>1, <3>2
  <2>13. k - 1 \in DOMAIN q
    BY <2>7, <2>11, LenProperties
  <2>14. /\ Owed(kernel, request) = NoSegment /\ Dying(kernel, request) = NoSegment
         /\ Owed(kernel', request') = Owed(kernel, request)
         /\ Dying(kernel', request') = Dying(kernel, request)
    BY <1>1 DEF Owed, Dying
  <2> QED BY <2>1, <2>9, <2>10, <2>12, <2>13, <2>14, DeleteIs
<1> QED BY <1>2, <1>3

-----------------------------------------------------------------------------
(* What memory promises the kernel (SegmentStore): it refuses a segment    *)
(* only when the sizes of all of them leave no room for it, a segment it   *)
(* defers until memory is compacted is given, and holes, placement and     *)
(* compaction do not show.                                                 *)
THEOREM MemoryIsAStore == Spec => ImplementsStore
<1>1. Init => Store!Init
  <2> SUFFICES ASSUME Init PROVE Store!Init
    OBVIOUS
  <2>1. kernel = "idle" /\ structure.table = [pid \in Pids |-> <<>>]
    BY DEF Init, NewMemoryStructure
  <2>2. StoreOpen(structure) = {}
    BY <2>1 DEF StoreOpen, HasTable
  <2>3. \A pid \in Pids : TableOf(structure, pid) = <<>>
    <3> SUFFICES ASSUME NEW pid \in Pids PROVE TableOf(structure, pid) = <<>>
      OBVIOUS
    <3>1. structure.table[pid] = <<>>
      BY <2>1
    <3>2. Len(<<>>) = 0 /\ 1 .. 0 - 1 = {}
      OBVIOUS
    <3>3. 1 .. Len(structure.table[pid]) - 1 = {}
      BY <3>1, <3>2
    <3> QED BY <3>3 DEF TableOf
  <2>4. StoreTable(structure) = [pid \in Pids |-> <<>>]
    BY <2>3 DEF StoreTable
  <2>5. Owed(kernel, request) = NoSegment /\ Dying(kernel, request) = NoSegment
    BY <2>1 DEF Owed, Dying
  <2> QED BY <2>2, <2>4, <2>5 DEF Store!Init, StoreOpen, StoreTable, TableOf,
             SegmentsOf, Owed, Dying
<1>2. MemoryInv /\ [Next]_vars => [Store!Next]_(Store!vars)
  <2> SUFFICES ASSUME MemoryInv, [Next]_vars PROVE [Store!Next]_(Store!vars)
    OBVIOUS
  <2>1. CASE UNCHANGED vars
    <3>1. SameStore
      BY <2>1 DEF vars, SameStore
    <3> QED BY <3>1, SameStoreStutters
  <2>2. ASSUME NEW pid \in Pids, InitProcess(pid) PROVE Store!Next
    BY <2>2, InitProcessBegins DEF Store!Next
  <2>3. ASSUME NEW pid \in Pids, EndProcess(pid) PROVE Store!Next
    BY <2>3, EndProcessFinishes DEF Store!Next
  <2>4. ASSUME NEW pid \in Pids, NEW s_id \in SegmentIds, NEW size \in Sizes,
               CreateSegment(pid, s_id, size)
        PROVE  Store!Next
    BY <2>4, CreateSegmentAnswers DEF Store!Next
  <2>5. ASSUME NEW pid \in Pids, NEW s_id \in SegmentIds, DeleteSegment(pid, s_id)
        PROVE  [Store!Next]_(Store!vars)
    <3>1. Store!Delete(pid, s_id) => Store!Next
      BY DEF Store!Next
    <3> QED BY <2>5, <3>1, DeleteSegmentDeletes, SameStoreStutters
  <2>6. CASE CompactAll
    BY <2>6, CompactAllStutters, SameStoreStutters
  <2>7. CASE RetryCreate
    BY <2>7, RetryCreateGrants DEF Store!Next
  <2> QED BY <2>1, <2>2, <2>3, <2>4, <2>5, <2>6, <2>7 DEF Next
<1>3. Spec => []MemoryInv
  BY MemoryInvariant
<1> QED BY <1>1, <1>2, <1>3, PTL DEF Spec, ImplementsStore, Store!Spec

-----------------------------------------------------------------------------
(* The bytes (MemoriaData).  What a process wrote in a segment is there,   *)
(* at each offset, but for the first byte of the segment, which may be the *)
(* terminator of a text that ends just before it.                          *)
Intact(sg, bytes, w) ==
  \A o \in DOMAIN w :
    /\ o < sg.offset
    /\ bytes[sg.base + o] = w[o] \/ (o = 0 /\ bytes[sg.base] = NUL)
(* The inductive invariant of the bytes: that of the layout, the types of  *)
(* the data, and every live segment but segment 0, which the processes     *)
(* share, is intact.                                                       *)
BytesInv ==
  /\ MemoryInv /\ DataTypeOK
  /\ \A s \in Live \ {Zero} : Intact(LiveSegment(s), heap, written[s])

BytesOp(segment, acc, s) ==
  [ heap |-> [x \in Addresses |->
                IF x \in Cells(acc.end, segment[s].offset)
                  THEN acc.heap[segment[s].base + (x - acc.end)]
                  ELSE acc.heap[x]],
    end  |-> acc.end + segment[s].offset ]
Carrying == INSTANCE FoldLemmas WITH op <- BytesOp

(* The bytes that compact_memory moves.                                    *)
LEMMA CompactedHeapIs ==
  CompactedHeap = Carrying!Folded(structure.segment, [heap |-> heap, end |-> ZeroSize],
                                  Tail(SortedRam(structure))).heap
BY DEF CompactedHeap, MoveBytes, Carrying!Folded, FoldLeft,
       MapThenFoldSet, Carrying!MapThenFoldSet, Max, Carrying!Greatest, BytesOp

(* No segment moves up: in the order of their bases, those before it end   *)
(* where it starts or below.                                               *)
LEMMA EndsBelow ==
  ASSUME NEW m, Sound(m), NEW r, r = SortedRam(m), NEW P, Ends(P, m, r)
  PROVE  /\ \A k \in 1 .. Len(r) : P[k - 1] <= m.segment[r[k]].base
         /\ \A j, k \in 1 .. Len(r) : j < k =>
              m.segment[r[j]].base + m.segment[r[j]].offset <= m.segment[r[k]].base
<1> DEFINE n == Len(r)
           base(k) == m.segment[r[k]].base
           size(k) == m.segment[r[k]].offset
<1>1. /\ n \in Nat /\ n >= 1
      /\ \A k \in 1 .. n : r[k] \in ToSet(m.ram)
      /\ \A j, k \in 1 .. n : j < k => base(j) < base(k)
  <2>1. /\ r \in Seq(Objects) /\ Len(r) = Len(m.ram) /\ ToSet(r) = ToSet(m.ram)
        /\ \A j, k \in 1 .. n : j < k => base(j) < base(k)
    BY SortedRamIs
  <2>2. \A k \in 1 .. n : r[k] \in ToSet(r)
    BY <2>1, LenProperties DEF ToSet
  <2> QED BY <2>1, <2>2, RamFacts
<1>2. \A k \in 1 .. n : base(k) \in Nat /\ size(k) \in Nat \ {0}
  BY <1>1, RamFacts
<1>3. /\ P[0] = 0 /\ \A k \in 1 .. n : P[k] = P[k - 1] + size(k)
      /\ \A k \in 0 .. n : P[k] \in Nat
  BY DEF Ends
<1>4. \A j, k \in 1 .. n : j < k =>
        Apart(base(j), size(j), base(k), size(k))
  <2> SUFFICES ASSUME NEW j \in 1 .. n, NEW k \in 1 .. n, j < k
               PROVE  Apart(base(j), size(j), base(k), size(k))
    OBVIOUS
  <2>1. base(j) < base(k) /\ base(j) \in Nat /\ base(k) \in Nat
    BY <1>1, <1>2
  <2>2. r[j] # r[k]
    BY <2>1
  <2> QED BY <1>1, <2>2 DEF Sound, Geometry, SegmentsApart
<1> HIDE DEF base, size, n
<1>5. \A j, k \in 1 .. n : j < k => base(j) + size(j) <= base(k)
  <2> SUFFICES ASSUME NEW j \in 1 .. n, NEW k \in 1 .. n, j < k
               PROVE  base(j) + size(j) <= base(k)
    OBVIOUS
  <2>1. /\ base(j) < base(k) /\ base(j) \in Nat /\ base(k) \in Nat
        /\ size(j) \in Nat \ {0} /\ size(k) \in Nat \ {0}
    BY <1>1, <1>2
  <2>2. base(j) + size(j) <= base(k) \/ base(k) + size(k) <= base(j)
    BY <1>4 DEF Apart
  <2> QED BY <2>1, <2>2
<1> DEFINE T == {k \in Nat : k + 1 <= n => P[k] <= base(k + 1)}
<1>6. 0 \in T
  <2>1. base(1) \in Nat
    BY <1>1, <1>2
  <2> QED BY <1>3, <2>1
<1>7. ASSUME NEW k \in T PROVE k + 1 \in T
  <2> DEFINE i == k + 1
  <2>1. SUFFICES ASSUME i + 1 <= n PROVE P[i] <= base(i + 1)
    OBVIOUS
  <2>2. /\ k \in Nat /\ i \in 1 .. n /\ i + 1 \in 1 .. n /\ i < i + 1 /\ i - 1 = k
        /\ k \in 0 .. n /\ i <= n
    BY <1>1, <2>1
  <2>3. P[k] <= base(i)
    BY <2>2
  <2> HIDE DEF i
  <2>4. P[i] = P[k] + size(i) /\ P[k] \in Nat
    BY <1>3, <2>2
  <2>5. base(i) + size(i) <= base(i + 1) /\ base(i) \in Nat /\ size(i) \in Nat
        /\ base(i + 1) \in Nat
    BY <1>2, <1>5, <2>2
  <2> QED BY <2>3, <2>4, <2>5
<1>8. T = Nat
  <2>1. T \in SUBSET Nat
    OBVIOUS
  <2> HIDE DEF T
  <2> QED BY <1>6, <1>7, <2>1, Moving!NatSetInduction
<1>9. ASSUME NEW k \in 1 .. n PROVE P[k - 1] <= base(k)
  <2>1. k - 1 \in Nat /\ (k - 1) + 1 = k /\ (k - 1) + 1 <= n
    BY <1>1
  <2>2. k - 1 \in T
    BY <1>8, <2>1
  <2> QED BY <2>1, <2>2
<1> QED BY <1>5, <1>9 DEF base, size, n

(* What the fold has when the first k segments of r are moved: the bytes   *)
(* of each are where it is.                                                *)
Letters == SegmentIds \cup {NUL}
At(P, m, r, k, j) == IF j <= k THEN P[j - 1] ELSE m.segment[r[j]].base
Carried(acc, bytes, P, m, r, k) ==
  /\ acc.end = P[k]
  /\ acc.heap \in [Addresses -> Letters]
  /\ \A j \in 1 .. Len(r), o \in Nat : o < m.segment[r[j]].offset =>
       acc.heap[At(P, m, r, k, j) + o] = bytes[m.segment[r[j]].base + o]

(* One segment is moved, over bytes that belong to none of the others.     *)
LEMMA BytesStepKeeps ==
  ASSUME NEW m, Sound(m), NEW r, r = SortedRam(m), NEW P, Ends(P, m, r), NEW bytes,
         NEW k \in Nat, k + 1 <= Len(r), NEW acc, Carried(acc, bytes, P, m, r, k)
  PROVE  Carried(BytesOp(m.segment, acc, r[k + 1]), bytes, P, m, r, k + 1)
<1> DEFINE n == Len(r)
           i == k + 1
           base(j) == m.segment[r[j]].base
           size(j) == m.segment[r[j]].offset
           e == BytesOp(m.segment, acc, r[i])
<1>1. /\ n \in Nat /\ i \in 1 .. n /\ i - 1 = k /\ k \in 0 .. n /\ i \in 0 .. n
  <2>1. r \in Seq(Objects)
    BY SortedRamIs
  <2> QED BY <2>1, LenProperties
<1>2. /\ \A j \in 1 .. n : base(j) \in Nat /\ size(j) \in Nat /\ base(j) + size(j) <= MemorySize + 1
  <2>1. r \in Seq(Objects) /\ ToSet(r) = ToSet(m.ram)
    BY SortedRamIs
  <2>2. \A j \in 1 .. n : r[j] \in ToSet(m.ram)
    BY <2>1, LenProperties DEF ToSet
  <2>3. \A s \in ToSet(m.ram) : m.segment[s].base + m.segment[s].offset <= MemorySize + 1
    BY DEF Sound, Geometry, SegmentsInside, End
  <2> QED BY <2>2, <2>3, RamFacts
<1>3. /\ \A j \in 1 .. n : P[j] = P[j - 1] + size(j)
      /\ \A j \in 0 .. n : P[j] \in Nat
      /\ \A j, l \in 0 .. n : j <= l => P[j] <= P[l]
  BY DEF Ends
<1>4. /\ P[k] <= base(i)
      /\ \A j, l \in 1 .. n : j < l => base(j) + size(j) <= base(l)
  BY <1>1, EndsBelow
<1>5. /\ acc.end = P[k] /\ acc.heap \in [Addresses -> Letters]
      /\ \A j \in 1 .. n, o \in Nat : o < size(j) =>
           acc.heap[At(P, m, r, k, j) + o] = bytes[base(j) + o]
  BY DEF Carried
<1>6. /\ e.end = P[k] + size(i)
      /\ e.heap = [x \in Addresses |-> IF x \in Cells(P[k], size(i))
                                         THEN acc.heap[base(i) + (x - P[k])]
                                         ELSE acc.heap[x]]
  BY <1>5 DEF BytesOp
<1>7. \A j \in 1 .. n, l \in Nat : At(P, m, r, l, j) = IF j <= l THEN P[j - 1] ELSE base(j)
  BY DEF At
<1> HIDE DEF n, base, size, e
<1>8. \A x : x \in Cells(P[k], size(i)) <=> x \in Int /\ P[k] <= x /\ x < P[k] + size(i)
  <2>1. P[k] \in Nat /\ size(i) \in Nat
    BY <1>1, <1>2, <1>3
  <2> QED BY <2>1 DEF Cells
<1>9. \A x : x \in Addresses <=> x \in Nat /\ x <= MemorySize
  BY MemoryAssumption DEF Addresses
<1>10. /\ P[k] \in Nat /\ size(i) \in Nat /\ base(i) \in Nat /\ MemorySize \in Nat
       /\ base(i) + size(i) <= MemorySize + 1 /\ P[k] <= base(i)
  BY <1>1, <1>2, <1>3, <1>4, MemoryAssumption
<1> HIDE DEF i
<1>11. e.end = P[i]
  BY <1>1, <1>3, <1>6
<1>12. e.heap \in [Addresses -> Letters]
  <2>1. ASSUME NEW x \in Addresses, x \in Cells(P[k], size(i))
        PROVE  base(i) + (x - P[k]) \in Addresses
    <3>1. x \in Int /\ P[k] <= x /\ x < P[k] + size(i)
      BY <1>8, <2>1
    <3>2. base(i) + (x - P[k]) \in Nat /\ base(i) + (x - P[k]) <= MemorySize
      <4> DEFINE a == P[k]
                 b == base(i)
                 c == size(i)
      <4>1. /\ a \in Nat /\ b \in Nat /\ c \in Nat /\ MemorySize \in Nat
            /\ b + c <= MemorySize + 1
            /\ x \in Int /\ a <= x /\ x < a + c
        BY <1>10, <3>1
      <4> HIDE DEF a, b, c
      <4>2. b + (x - a) \in Nat /\ b + (x - a) <= MemorySize
        BY <4>1
      <4> QED BY <4>2 DEF a, b
    <3> QED BY <1>9, <3>2
  <2>2. \A x \in Addresses : acc.heap[x] \in Letters
    BY <1>5
  <2> QED BY <1>6, <2>1, <2>2
<1>13. ASSUME NEW j \in 1 .. n, NEW o \in Nat, o < size(j)
       PROVE  e.heap[At(P, m, r, i, j) + o] = bytes[base(j) + o]
  <2>1. base(j) \in Nat /\ size(j) \in Nat /\ base(j) + size(j) <= MemorySize + 1
        /\ j \in Nat /\ i \in Nat /\ j - 1 \in 0 .. n /\ j \in 0 .. n
    BY <1>1, <1>2
  <2>2. CASE j = i
    <3>1. At(P, m, r, i, j) = P[k] /\ At(P, m, r, k, j) = base(i)
      BY <1>1, <1>7, <2>1, <2>2
    <3>2. P[k] + o \in Cells(P[k], size(i)) /\ P[k] + o \in Addresses
          /\ base(i) + ((P[k] + o) - P[k]) = base(i) + o
      <4> DEFINE x == P[k] + o
      <4>1. o < size(i)
        BY <1>13, <2>2
      <4>2. /\ x \in Nat /\ P[k] <= x /\ x < P[k] + size(i) /\ x <= MemorySize
            /\ base(i) + (x - P[k]) = base(i) + o
        <5> DEFINE a == P[k]
                   b == base(i)
                   c == size(i)
        <5>1. /\ a \in Nat /\ b \in Nat /\ c \in Nat /\ MemorySize \in Nat /\ a <= b
              /\ b + c <= MemorySize + 1 /\ o \in Nat /\ o < c /\ x = a + o
          BY <1>4, <1>10, <4>1
        <5> HIDE DEF a, b, c, x
        <5>2. x \in Nat /\ a <= x /\ x < a + c /\ x <= MemorySize /\ b + (x - a) = b + o
          BY <5>1
        <5> QED BY <5>2 DEF a, b, c
      <4> HIDE DEF x
      <4>3. x \in Cells(P[k], size(i)) /\ x \in Addresses
        BY <1>8, <1>9, <4>2
      <4> QED BY <4>2, <4>3 DEF x
    <3>3. e.heap[P[k] + o] = acc.heap[base(i) + o]
      BY <1>6, <3>2
    <3>4. acc.heap[base(i) + o] = bytes[base(j) + o]
      BY <1>5, <1>13, <3>1
    <3> QED BY <3>1, <3>3, <3>4
  <2>3. CASE j # i
    <3> DEFINE x == At(P, m, r, k, j) + o
    <3>1. At(P, m, r, i, j) = At(P, m, r, k, j)
      BY <1>1, <1>7, <2>1, <2>3
    <3>2. x \in Addresses /\ x \notin Cells(P[k], size(i))
      <4>1. CASE j < i
        <5>1. x = P[j - 1] + o
          BY <1>1, <1>7, <2>1, <4>1
        <5>2. P[j] = P[j - 1] + size(j) /\ P[j - 1] \in Nat /\ P[j] \in Nat /\ P[j] <= P[k]
          BY <1>1, <1>3, <2>1, <4>1
        <5>3. x \in Nat /\ x < P[k] /\ x <= MemorySize
          <6> DEFINE a == P[j - 1]
                     b == P[j]
                     c == size(j)
          <6>1. /\ b = a + c /\ a \in Nat /\ b \in Nat /\ b <= P[k] /\ c \in Nat
                /\ o < c /\ x = a + o
            BY <1>13, <2>1, <5>1, <5>2
          <6>2. P[k] \in Nat /\ P[k] <= MemorySize + 1 /\ MemorySize \in Nat
            <7> DEFINE f == P[k]
                       g == base(i)
                       l == size(i)
            <7>1. /\ f \in Nat /\ g \in Nat /\ l \in Nat /\ MemorySize \in Nat
                  /\ f <= g /\ g + l <= MemorySize + 1
              BY <1>10
            <7> HIDE DEF f, g, l
            <7>2. f \in Nat /\ f <= MemorySize + 1
              BY <7>1
            <7> QED BY <7>1, <7>2 DEF f
          <6> DEFINE g == P[k]
          <6>3. /\ b = a + c /\ a \in Nat /\ b \in Nat /\ b <= g /\ c \in Nat
                /\ o < c /\ x = a + o /\ g \in Nat /\ g <= MemorySize + 1
                /\ MemorySize \in Nat /\ o \in Nat
            BY <6>1, <6>2
          <6> HIDE DEF x, a, b, c, g
          <6>4. x \in Nat /\ x < b
            BY <6>3
          <6>5. x < g /\ x <= MemorySize
            BY <6>3, <6>4
          <6> QED BY <6>4, <6>5 DEF g
        <5> HIDE DEF x
        <5>4. x \in Addresses
          BY <1>9, <5>3
        <5>5. ~(P[k] <= x)
          <6> DEFINE g == P[k]
          <6>1. x \in Nat /\ x < g /\ g \in Nat
            BY <1>10, <5>3
          <6> HIDE DEF g
          <6>2. ~(g <= x)
            BY <6>1
          <6> QED BY <6>2 DEF g
        <5> QED BY <1>8, <5>4, <5>5
      <4>2. CASE i < j
        <5>1. x = base(j) + o
          BY <1>1, <1>7, <2>1, <4>2
        <5>2. base(i) + size(i) <= base(j)
          BY <1>1, <1>4, <4>2
        <5>3. x \in Nat /\ ~(x < P[k] + size(i)) /\ x <= MemorySize
          <6> DEFINE a == base(j)
                     c == size(j)
          <6>1. /\ a \in Nat /\ c \in Nat /\ o < c /\ x = a + o
                /\ a + c <= MemorySize + 1 /\ base(i) + size(i) <= a
            BY <1>13, <2>1, <5>1, <5>2
          <6> HIDE DEF x, a, c
          <6> QED BY <1>10, <6>1
        <5> HIDE DEF x
        <5> QED BY <1>8, <1>9, <1>10, <5>3
      <4> QED BY <2>1, <2>3, <4>1, <4>2
    <3>3. e.heap[x] = acc.heap[x]
      BY <1>6, <3>2
    <3>4. acc.heap[x] = bytes[base(j) + o]
      BY <1>5, <1>13
    <3> QED BY <3>1, <3>3, <3>4
  <2> QED BY <2>2, <2>3
<1> QED BY <1>11, <1>12, <1>13 DEF Carried, e, n, i, base, size

(* All the bytes of the segments are moved with them.                      *)
LEMMA CompactCarries ==
  ASSUME NEW P, Sound(structure), Ends(P, structure, SortedRam(structure)),
         heap \in [Addresses -> Letters]
  PROVE  LET r == SortedRam(structure) IN
         /\ CompactedHeap \in [Addresses -> Letters]
         /\ \A j \in 1 .. Len(r), o \in Nat : o < structure.segment[r[j]].offset =>
              CompactedHeap[P[j - 1] + o] = heap[structure.segment[r[j]].base + o]
<1> DEFINE m == structure
           r == SortedRam(m)
           n == Len(r)
           rest == Tail(r)
           start == [heap |-> heap, end |-> ZeroSize]
<1>1. /\ n \in Nat /\ n >= 1 /\ r \in Seq(Objects) /\ r[1] = Zero
      /\ rest \in Seq(Objects) /\ Len(rest) = n - 1
      /\ \A k \in 1 .. n - 1 : rest[k] = r[k + 1]
  <2>1. r \in Seq(Objects) /\ n = Len(m.ram) /\ r[1] = Zero /\ Len(m.ram) >= 1
    BY SortedRamIs, RamFacts
  <2>2. r # <<>>
    BY <2>1, LenProperties
  <2> QED BY <2>1, <2>2, AppendHeadTail
<1>2. PICK F : Carrying!Folding(F, m.segment, start, rest)
  <2> HIDE DEF start, rest
  <2> QED BY <1>1, Carrying!FoldSteps
<1>3. /\ F[0] = start
      /\ \A k \in 1 .. Len(rest) : F[k] = BytesOp(m.segment, F[k - 1], rest[k])
      /\ Carrying!Folded(m.segment, start, rest) = F[Len(rest)]
  BY <1>2 DEF Carrying!Folding
<1> DEFINE T == {k \in Nat : k + 1 <= n => Carried(F[k], heap, P, m, r, k + 1)}
<1>4. 0 \in T
  <2>1. F[0].heap = heap /\ F[0].end = P[1] /\ P[0] = 0
    BY <1>3 DEF Ends
  <2>2. \A j \in 1 .. n : At(P, m, r, 1, j) = m.segment[r[j]].base
    <3> SUFFICES ASSUME NEW j \in 1 .. n
                 PROVE  At(P, m, r, 1, j) = m.segment[r[j]].base
      OBVIOUS
    <3>1. CASE j <= 1
      <4>1. j = 1 /\ j - 1 = 0
        BY <1>1, <3>1
      <4>2. m.segment[r[j]].base = 0
        BY <1>1, <4>1 DEF Sound, Shape
      <4> QED BY <2>1, <3>1, <4>1, <4>2 DEF At
    <3>2. CASE ~(j <= 1)
      BY <3>2 DEF At
    <3> QED BY <3>1, <3>2
  <2>3. Carried(F[0], heap, P, m, r, 1)
    BY <2>1, <2>2 DEF Carried
  <2> QED BY <2>3
<1> HIDE DEF rest, n, start
<1>5. ASSUME NEW k \in T PROVE k + 1 \in T
  <2>1. SUFFICES ASSUME (k + 1) + 1 <= n
                 PROVE  Carried(F[k + 1], heap, P, m, r, (k + 1) + 1)
    OBVIOUS
  <2>2. /\ k \in Nat /\ k + 1 \in Nat /\ k + 1 \in 1 .. n - 1 /\ (k + 1) - 1 = k
        /\ k + 1 <= n
    BY <1>1, <2>1
  <2>3. Carried(F[k], heap, P, m, r, k + 1)
    BY <2>2
  <2>4. F[k + 1] = BytesOp(m.segment, F[k], r[(k + 1) + 1])
    BY <1>1, <1>3, <2>2
  <2> HIDE DEF m, r
  <2>5. Carried(BytesOp(m.segment, F[k], r[(k + 1) + 1]), heap, P, m, r, (k + 1) + 1)
    BY <2>1, <2>2, <2>3, BytesStepKeeps DEF n, m, r
  <2> QED BY <2>4, <2>5
<1>6. T = Nat
  <2>1. T \in SUBSET Nat
    OBVIOUS
  <2> HIDE DEF T
  <2> QED BY <1>4, <1>5, <2>1, Moving!NatSetInduction
<1>7. n - 1 \in Nat /\ (n - 1) + 1 = n
  BY <1>1
<1>8. Carried(F[n - 1], heap, P, m, r, n)
  BY <1>6, <1>7
<1>9. CompactedHeap = F[n - 1].heap
  BY <1>1, <1>3, CompactedHeapIs DEF start, rest
<1>10. \A j \in 1 .. n : At(P, m, r, n, j) = P[j - 1]
  BY <1>1 DEF At
<1> QED BY <1>8, <1>9, <1>10 DEF Carried, n

(* No other request moves a segment or changes its size.                   *)
LEMMA SegmentsStay ==
  ASSUME MemoryInv, Next, ~(kernel = "compact" /\ kernel' = "retry"),
         NEW s \in Live, s \in ToSet(structure'.ram)
  PROVE  structure'.segment[s] = structure.segment[s]
<1>1. /\ Sound(structure) /\ s \in Objects /\ Contains(structure.ram, s)
      /\ structure.segment \in [Objects -> SegmentRecords \cup {NoSegment}]
  <2>1. Sound(structure)
    BY DEF MemoryInv
  <2> QED BY <2>1, RamFacts DEF Live, Sound, Shape
<1>2. ASSUME NEW req \in Requests, HasTable(structure, req.pid),
             Answer(structure, req.size) = "MESSAGE_OK", NEW x \in Free(structure),
             structure' = AddSegment(structure, req, x)
      PROVE  structure'.segment[s] = structure.segment[s]
  <2> DEFINE e == AddSegment(structure, req, x)
             record == [base   |-> structure.hole_list[
                                     Fit(algorithm, structure.hole_list, req.size)].base,
                        offset |-> req.size, s_id |-> req.s_id]
  <2>1. structure'.segment = [structure.segment EXCEPT ![x] = record]
    <3>1. e.segment = [structure.segment EXCEPT ![x] = record]
      BY <1>1, <1>2, GivenAsAnswered
    <3> HIDE DEF e, record
    <3> QED BY <1>2, <3>1 DEF e
  <2> HIDE DEF e, record
  <2>2. x # s
    BY DEF Free, Live
  <2> QED BY <1>1, <2>1, <2>2
<1>3. ASSUME NEW pid \in Pids, InitProcess(pid)
      PROVE  structure'.segment[s] = structure.segment[s]
  BY <1>3 DEF InitProcess
<1>4. ASSUME NEW pid \in Pids, EndProcess(pid)
      PROVE  structure'.segment[s] = structure.segment[s]
  <2>1. structure' = RemoveSgTable(structure, pid) /\ HasTable(structure, pid)
    BY <1>4 DEF EndProcess
  <2>2. /\ Sound(structure')
        /\ \A x : Contains(structure'.ram, x) => structure'.segment[x] = structure.segment[x]
    BY <1>1, <2>1, RemoveSgTableKeepsSound
  <2>3. Contains(structure'.ram, s)
    BY <2>2, RamFacts
  <2> QED BY <2>2, <2>3
<1>5. ASSUME NEW pid \in Pids, NEW s_id \in SegmentIds, NEW size \in Sizes,
             CreateSegment(pid, s_id, size)
      PROVE  structure'.segment[s] = structure.segment[s]
  <2> DEFINE req == [pid |-> pid, s_id |-> s_id, size |-> size]
  <2>1. HasTable(structure, pid) /\ req \in Requests /\ req.pid = pid /\ req.size = size
    BY <1>5 DEF CreateSegment, Requests
  <2>2. CASE Answer(structure, size) = "MESSAGE_OK"
    <3>1. PICK x \in Free(structure) : structure' = AddSegment(structure, req, x)
      BY <1>5, <2>2 DEF CreateSegment
    <3> HIDE DEF req
    <3> QED BY <1>2, <2>1, <2>2, <3>1
  <2>3. CASE Answer(structure, size) # "MESSAGE_OK"
    BY <1>5, <2>3 DEF CreateSegment
  <2> QED BY <2>2, <2>3
<1>6. ASSUME NEW pid \in Pids, NEW s_id \in SegmentIds, DeleteSegment(pid, s_id)
      PROVE  structure'.segment[s] = structure.segment[s]
  <2> DEFINE k == IndexInTable(structure, pid, s_id)
  <2>1. HasTable(structure, pid)
    BY <1>6 DEF DeleteSegment
  <2>2. CASE k = 0
    BY <1>6, <2>2 DEF DeleteSegment
  <2>3. CASE k # 0
    <3>1. structure' = DeleteSegmentAt(structure, pid, k)
      BY <1>6, <2>3 DEF DeleteSegment
    <3>2. k \in 2 .. Len(structure.table[pid])
      <4>1. structure.table[pid] \in Seq(Objects) /\ structure.table[pid] # <<>>
        BY <1>1, <2>1, TableFacts DEF HasTable
      <4> QED BY <2>3, <4>1, IndexInTableIs
    <3> HIDE DEF k
    <3>3. /\ Sound(structure')
          /\ structure'.segment
               = [structure.segment EXCEPT ![structure.table[pid][k]] = NoSegment]
          /\ \A x : Contains(structure'.ram, x) => x # structure.table[pid][k]
      <4> DEFINE d == DeleteSegmentAt(structure, pid, k)
      <4>1. /\ Sound(d)
            /\ d.segment = [structure.segment EXCEPT ![structure.table[pid][k]] = NoSegment]
            /\ \A x : Contains(d.ram, x) <=>
                        Contains(structure.ram, x) /\ x # structure.table[pid][k]
        BY <1>1, <2>1, <3>2, DeleteKeepsSound
      <4> HIDE DEF d
      <4> QED BY <3>1, <4>1 DEF d
    <3>4. Contains(structure'.ram, s)
      BY <3>3, RamFacts
    <3> QED BY <1>1, <3>3, <3>4
  <2> QED BY <2>2, <2>3
<1>7. CASE CompactAll
  BY <1>7 DEF CompactAll
<1>8. CASE RetryCreate
  <2>1. /\ request \in Requests /\ HasTable(structure, request.pid)
        /\ Answer(structure, request.size) = "MESSAGE_OK"
    BY <1>8, RetryFits DEF MemoryInv, Waiting, RetryCreate
  <2>2. PICK x \in Free(structure) : structure' = AddSegment(structure, request, x)
    BY <1>8, <2>1 DEF RetryCreate
  <2> QED BY <1>2, <2>1, <2>2
<1> QED BY <1>3, <1>4, <1>5, <1>6, <1>7, <1>8 DEF Next

(* Where the bytes of a segment are, they stay with it.                    *)
BytesStay ==
  /\ heap' \in [Addresses -> Letters]
  /\ \A s \in Live : s \in ToSet(structure'.ram) =>
       /\ structure'.segment[s].offset = structure.segment[s].offset
       /\ \A o \in Nat : o < structure.segment[s].offset =>
            heap'[structure'.segment[s].base + o] = heap[structure.segment[s].base + o]

(* Compaction moves them, and every other request leaves them alone.       *)
LEMMA LayoutKeepsBytes ==
  ASSUME MemoryInv, DataTypeOK, Layout
  PROVE  BytesStay
<1> DEFINE m == structure
           r == SortedRam(structure)
<1>1. heap \in [Addresses -> Letters] /\ Sound(m)
  BY DEF DataTypeOK, Letters, MemoryInv
<1>2. CASE kernel = "compact" /\ kernel' = "retry"
  <2>1. heap' = CompactedHeap
    BY <1>2 DEF Layout
  <2>2. CompactAll
    BY <1>2 DEF Layout, Next, InitProcess, EndProcess, CreateSegment, DeleteSegment,
                RetryCreate
  <2>3. structure' = CompactMemory(m)
    BY <1>2, <2>2 DEF CompactAll
  <2>4. /\ r \in Seq(Objects) /\ IsInjective(r) /\ ToSet(r) = ToSet(m.ram)
        /\ Len(r) \in Nat /\ Len(r) >= 1 /\ r[1] = Zero /\ DOMAIN r = 1 .. Len(r)
    BY <1>1, SortedRamIs, RamFacts, LenProperties
  <2> HIDE DEF r
  <2>5. r \in Seq(ToSet(m.ram)) /\ Shape(m)
    <3>1. \A j \in 1 .. Len(r) : r[j] \in ToSet(m.ram)
      BY <2>4 DEF ToSet
    <3> QED BY <1>1, <2>4, <3>1, LenProperties, IsASeq DEF Sound
  <2>6. PICK P : Ends(P, m, r)
    BY <2>4, <2>5, EndsExist
  <2>7. PICK acc : /\ Moved(acc, P, m, r, Len(r))
                   /\ CompactMemory(m) =
                        [m EXCEPT !.segment = acc.segment,
                                  !.ram = r,
                                  !.hole_list = <<LastHole(P[Len(r)], m.remaining)>>]
    BY <2>4, <2>5, <2>6, CompactMoves DEF r
  <2>8. structure'.segment = acc.segment
    <3>1. m = [segment |-> m.segment, ram |-> m.ram, table |-> m.table,
               hole_list |-> m.hole_list, remaining |-> m.remaining]
      BY <2>5 DEF Shape
    <3>2. CompactMemory(m).segment = acc.segment
      BY <2>7, <3>1
    <3> QED BY <2>3, <3>2
  <2>9. /\ CompactedHeap \in [Addresses -> Letters]
        /\ \A j \in 1 .. Len(r), o \in Nat : o < m.segment[r[j]].offset =>
             CompactedHeap[P[j - 1] + o] = heap[m.segment[r[j]].base + o]
    BY <1>1, <2>6, CompactCarries DEF r
  <2>10. ASSUME NEW s \in Live
         PROVE  /\ structure'.segment[s].offset = structure.segment[s].offset
                /\ \A o \in Nat : o < structure.segment[s].offset =>
                     heap'[structure'.segment[s].base + o]
                       = heap[structure.segment[s].base + o]
    <3>1. PICK j \in 1 .. Len(r) : r[j] = s
      BY <2>4 DEF Live, ToSet
    <3>2. acc.segment[s] = [m.segment[s] EXCEPT !.base = P[j - 1]]
      BY <2>7, <3>1 DEF Moved
    <3>3. m.segment[s] = [base |-> m.segment[s].base, offset |-> m.segment[s].offset,
                          s_id |-> m.segment[s].s_id]
      BY <1>1, RamFacts DEF LiveRecords, Live
    <3>4. structure'.segment[s].base = P[j - 1]
          /\ structure'.segment[s].offset = m.segment[s].offset
      BY <2>8, <3>2, <3>3
    <3> QED BY <2>1, <2>9, <3>1, <3>4
  <2> QED BY <2>1, <2>9, <2>10 DEF BytesStay
<1>3. CASE ~(kernel = "compact" /\ kernel' = "retry")
  <2>1. heap' = heap /\ Next
    BY <1>3 DEF Layout
  <2>2. ASSUME NEW s \in Live, s \in ToSet(structure'.ram)
        PROVE  structure'.segment[s] = structure.segment[s]
    BY <1>3, <2>1, <2>2, SegmentsStay
  <2> QED BY <1>1, <2>1, <2>2 DEF BytesStay
<1> QED BY <1>2, <1>3

(* The segment that write_memory finds is one of the process, of that id.  *)
LEMMA SegmentFound ==
  ASSUME NEW m, Sound(m), NEW pid \in Pids, HasTable(m, pid), NEW s_id \in SegmentIds,
         NEW s \in GetSegmentById(m, pid, s_id)
  PROVE  s \in ToSet(m.ram) /\ s # Zero /\ m.segment[s].s_id = s_id
<1> DEFINE t == m.table[pid]
           I == {j \in 1 .. Len(t) : m.segment[t[j]].s_id = s_id}
<1>1. /\ Len(t) \in Nat /\ Len(t) >= 1 /\ t[1] = Zero
      /\ \A k \in 2 .. Len(t) : t[k] \in Segments /\ Contains(m.ram, t[k])
  BY TableFacts
<1>2. GetSegmentById(m, pid, s_id)
        = {t[j] : j \in {IF I # {} THEN Min(I) ELSE 0} \ {0}}
  BY DEF GetSegmentById, SelectInSeq
<1>3. I # {} => Min(I) \in I
  <2>1. I \in SUBSET Nat
    OBVIOUS
  <2> HIDE DEF I
  <2> QED BY <2>1, MinMember
<1> HIDE DEF t, I
<1>4. PICK j \in I : s = t[j]
  BY <1>2, <1>3
<1>5. j \in 1 .. Len(t) /\ m.segment[s].s_id = s_id
  BY <1>4 DEF I
<1>6. j # 1
  <2>1. m.segment[Zero].s_id = 0
    BY DEF Sound, Shape
  <2> QED BY <1>1, <1>4, <1>5, <2>1, ZeroAssumption
<1>7. s \in Segments /\ Contains(m.ram, s)
  <2>1. j \in 2 .. Len(t)
    BY <1>1, <1>5, <1>6
  <2> QED BY <1>1, <1>4, <2>1
<1> QED BY <1>5, <1>7, RamFacts, ZeroAssumption

(* What write_memory puts in the segment, where w was: the letters and, if *)
(* there is room for it, the terminator.                                   *)
PutOver(w, v, sg, offset, n) ==
  LET put == Cells(offset, n + 1) \cap Cells(0, sg.offset) IN
  /\ DOMAIN v = DOMAIN w \cup put
  /\ \A o \in DOMAIN v : v[o] = IF o = offset + n THEN NUL
                               ELSE IF o \in put THEN sg.s_id ELSE w[o]

(* What was written is what is there.                                      *)
LEMMA WrittenSegmentIsIntact ==
  ASSUME NEW sg \in LiveRecords, End(sg) <= MemorySize + 1, NEW bytes, NEW w,
         Intact(sg, bytes, w), DOMAIN w \subseteq Nat,
         NEW offset \in Nat, NEW n \in Nat, FitsInSegment(sg, offset, n),
         NEW v, PutOver(w, v, sg, offset, n)
  PROVE  Intact(sg, Copied(bytes, sg, offset, n), v) /\ DOMAIN v \subseteq Nat
<1> DEFINE base == sg.base
           size == sg.offset
           put == Cells(offset, n + 1) \cap Cells(0, size)
           e == Copied(bytes, sg, offset, n)
<1>1. /\ base \in Nat /\ size \in Nat \ {0} /\ base + size <= MemorySize + 1
      /\ offset + n <= size /\ MemorySize \in Nat
  BY MemoryAssumption DEF LiveRecords, End, FitsInSegment
<1>2. \A o : o \in put <=> o \in Nat /\ offset <= o /\ o <= offset + n /\ o < size
  BY <1>1 DEF Cells
<1>3. e = [x \in Addresses |-> IF x \in Cells(base + offset, n) THEN sg.s_id
                               ELSE IF x = base + offset + n THEN NUL ELSE bytes[x]]
  BY DEF Copied
<1>4. /\ DOMAIN v = DOMAIN w \cup put
      /\ \A o \in DOMAIN v : v[o] = IF o = offset + n THEN NUL
                                   ELSE IF o \in put THEN sg.s_id ELSE w[o]
  BY DEF PutOver
<1>5. \A o \in DOMAIN v : o \in Nat /\ o < size
  BY <1>1, <1>2, <1>4 DEF Intact
<1> HIDE DEF base, size, put, e
<1>6. ASSUME NEW o \in Nat, o < size
      PROVE  /\ base + o \in Addresses
             /\ base + o \in Cells(base + offset, n) <=> offset <= o /\ o < offset + n
             /\ base + o = base + offset + n <=> o = offset + n
  BY <1>1, <1>6 DEF Addresses, Cells
<1>7. ASSUME NEW o \in DOMAIN v
      PROVE  e[base + o] = v[o] \/ (o = 0 /\ e[base] = NUL)
  <2>1. o \in Nat /\ o < size /\ base + o \in Addresses
    BY <1>5, <1>6
  <2>2. v[o] = IF o = offset + n THEN NUL ELSE IF o \in put THEN sg.s_id ELSE w[o]
    BY <1>4
  <2>3. CASE o = offset + n
    <3>1. base + o = base + offset + n /\ ~(base + o \in Cells(base + offset, n))
      BY <1>6, <2>1, <2>3
    <3>2. e[base + o] = NUL
      BY <1>3, <2>1, <3>1
    <3> QED BY <2>2, <2>3, <3>2
  <2>4. CASE o # offset + n /\ o \in put
    <3>1. offset <= o /\ o < offset + n
      BY <1>2, <2>1, <2>4
    <3>2. base + o \in Cells(base + offset, n)
      BY <1>6, <2>1, <3>1
    <3> QED BY <1>3, <2>1, <2>2, <2>4, <3>2
  <2>5. CASE o # offset + n /\ o \notin put
    <3>1. ~(offset <= o /\ o < offset + n)
      BY <1>2, <2>1, <2>5
    <3>2. e[base + o] = bytes[base + o]
      BY <1>3, <1>6, <2>1, <2>5, <3>1
    <3>3. o \in DOMAIN w
      BY <1>4, <2>5
    <3>4. bytes[base + o] = w[o] \/ (o = 0 /\ bytes[base] = NUL)
      BY <3>3 DEF Intact, base
    <3>5. o = 0 => base + o = base
      BY <1>1
    <3> QED BY <2>2, <2>5, <3>2, <3>4, <3>5
  <2> QED BY <2>3, <2>4, <2>5
<1> QED BY <1>5, <1>7 DEF Intact, base, size, e

(* Of another segment it may hit the first byte, with the terminator.      *)
LEMMA OtherSegmentIsIntact ==
  ASSUME NEW sg \in LiveRecords, NEW tg \in LiveRecords, End(tg) <= MemorySize + 1,
         Apart(sg.base, sg.offset, tg.base, tg.offset),
         NEW bytes, NEW w, Intact(tg, bytes, w), DOMAIN w \subseteq Nat,
         NEW offset \in Nat, NEW n \in Nat, FitsInSegment(sg, offset, n)
  PROVE  Intact(tg, Copied(bytes, sg, offset, n), w)
<1> DEFINE a == sg.base
           c == sg.offset
           b == tg.base
           d == tg.offset
           e == Copied(bytes, sg, offset, n)
<1>1. /\ a \in Nat /\ c \in Nat /\ b \in Nat /\ d \in Nat /\ MemorySize \in Nat
      /\ b + d <= MemorySize + 1 /\ offset + n <= c
      /\ a + c <= b \/ b + d <= a
  BY MemoryAssumption DEF LiveRecords, End, FitsInSegment, Apart
<1>2. e = [x \in Addresses |-> IF x \in Cells(a + offset, n) THEN sg.s_id
                               ELSE IF x = a + offset + n THEN NUL ELSE bytes[x]]
  BY DEF Copied
<1> HIDE DEF a, b, c, d, e
<1>3. ASSUME NEW o \in Nat, o < d
      PROVE  /\ b + o \in Addresses
             /\ b + o \notin Cells(a + offset, n)
             /\ b + o = a + offset + n => o = 0
  BY <1>1, <1>3 DEF Addresses, Cells
<1>4. ASSUME NEW o \in DOMAIN w
      PROVE  o < d /\ (e[b + o] = w[o] \/ (o = 0 /\ e[b] = NUL))
  <2>1. o \in Nat /\ o < d /\ (bytes[b + o] = w[o] \/ (o = 0 /\ bytes[b] = NUL))
    BY DEF Intact, b, d
  <2>2. o = 0 => b + o = b
    BY <1>1
  <2>3. /\ b + o = a + offset + n => o = 0
        /\ e[b + o] = IF b + o = a + offset + n THEN NUL ELSE bytes[b + o]
    BY <1>2, <1>3, <2>1
  <2> QED BY <2>1, <2>2, <2>3
<1> QED BY <1>4 DEF Intact, b, d, e

(* MEM_WRITE_ADDRESS leaves what was written in the other segments, but    *)
(* for a first byte.                                                       *)
LEMMA WriteMemoryKeeps ==
  ASSUME BytesInv, NEW pid \in Pids, NEW s_id \in SegmentIds, WriteMemory(pid, s_id)
  PROVE  BytesInv'
<1> DEFINE m == structure
<1>1. /\ MemoryInv /\ Sound(m) /\ heap \in [Addresses -> Letters]
      /\ DOMAIN written = Objects /\ \A s \in Objects : DOMAIN written[s] \subseteq Nat
      /\ HasTable(m, pid)
      /\ \A s \in Live \ {Zero} : Intact(m.segment[s], heap, written[s])
  BY DEF BytesInv, MemoryInv, DataTypeOK, Letters, WriteMemory, LiveSegment
<1>2. UNCHANGED vars
  BY DEF WriteMemory
<1>3. MemoryInv'
  BY <1>1, <1>2 DEF vars, MemoryInv, Waiting, HasTable
<1>4. PICK s \in GetSegmentById(m, pid, s_id), offset \in Distances, n \in Distances :
        LET sg == m.segment[s]
            put == Cells(offset, n + 1) \cap Cells(0, sg.offset) IN
        /\ FitsInSegment(sg, offset, n)
        /\ heap' = Copied(heap, sg, offset, n)
        /\ written' = [written EXCEPT ![s] =
             [o \in DOMAIN written[s] \cup put |->
                IF o = offset + n THEN NUL
                ELSE IF o \in put THEN s_id ELSE written[s][o]]]
  BY DEF WriteMemory
<1> DEFINE sg == m.segment[s]
           put == Cells(offset, n + 1) \cap Cells(0, sg.offset)
           v == [o \in DOMAIN written[s] \cup put |->
                   IF o = offset + n THEN NUL
                   ELSE IF o \in put THEN s_id ELSE written[s][o]]
<1>5. /\ s \in Live /\ s # Zero /\ sg.s_id = s_id /\ s \in Objects
      /\ \A t \in Live : t \in Objects /\ m.segment[t] \in LiveRecords
                         /\ End(m.segment[t]) <= MemorySize + 1
      /\ \A t \in Live : t # s =>
           Apart(sg.base, sg.offset, m.segment[t].base, m.segment[t].offset)
  <2>1. s \in Live /\ s # Zero /\ sg.s_id = s_id
    BY <1>1, SegmentFound DEF Live
  <2>2. \A t \in Live : t \in Objects /\ m.segment[t] \in LiveRecords
    BY <1>1, RamFacts DEF Live
  <2> QED BY <1>1, <2>1, <2>2 DEF Live, Sound, Geometry, SegmentsInside, SegmentsApart
<1>6. /\ offset \in Nat /\ n \in Nat /\ FitsInSegment(sg, offset, n)
      /\ heap' = Copied(heap, sg, offset, n)
      /\ written' = [written EXCEPT ![s] = v]
  BY <1>4, MemoryAssumption DEF Distances
<1> HIDE DEF sg
<1>7. Intact(sg, heap', v) /\ DOMAIN v \subseteq Nat
  <2>1. PutOver(written[s], v, sg, offset, n)
    BY <1>5 DEF PutOver
  <2> HIDE DEF v, put
  <2>2. /\ sg \in LiveRecords /\ End(sg) <= MemorySize + 1
        /\ Intact(sg, heap, written[s]) /\ DOMAIN written[s] \subseteq Nat
    BY <1>1, <1>5 DEF sg
  <2> QED BY <1>6, <2>1, <2>2, WrittenSegmentIsIntact
<1> HIDE DEF v, put
<1>8. /\ DOMAIN written' = Objects /\ written'[s] = v
      /\ \A t \in Objects : t # s => written'[t] = written[t]
  BY <1>1, <1>5, <1>6
<1>9. ASSUME NEW t \in Live \ {Zero} PROVE Intact(m.segment[t], heap', written'[t])
  <2>1. CASE t = s
    BY <1>7, <1>8, <2>1 DEF sg
  <2>2. CASE t # s
    <3>1. /\ sg \in LiveRecords /\ m.segment[t] \in LiveRecords
          /\ End(m.segment[t]) <= MemorySize + 1
          /\ Apart(sg.base, sg.offset, m.segment[t].base, m.segment[t].offset)
          /\ Intact(m.segment[t], heap, written[t]) /\ DOMAIN written[t] \subseteq Nat
          /\ written'[t] = written[t]
      BY <1>1, <1>5, <1>8, <2>2 DEF sg
    <3> QED BY <1>6, <3>1, OtherSegmentIsIntact
  <2> QED BY <2>1, <2>2
<1>10. heap' \in [Addresses -> Letters]
  <2>1. sg.s_id \in Letters /\ NUL \in Letters
    BY <1>5 DEF Letters
  <2> QED BY <1>1, <1>6, <2>1 DEF Copied
<1>11. DataTypeOK'
  BY <1>7, <1>8, <1>10, <1>1 DEF DataTypeOK, Letters
<1>12. structure' = m
  BY <1>2 DEF vars
<1> QED BY <1>3, <1>9, <1>11, <1>12 DEF BytesInv, Live, LiveSegment

(* Every other request keeps what was written in the segments that stay.   *)
LEMMA LayoutKeeps ==
  ASSUME BytesInv, Layout
  PROVE  BytesInv'
<1>1. /\ MemoryInv /\ DataTypeOK /\ Next /\ BytesStay
      /\ \A s \in Objects : DOMAIN written[s] \subseteq Nat
      /\ \A s \in Live \ {Zero} : Intact(structure.segment[s], heap, written[s])
  BY LayoutKeepsBytes DEF BytesInv, Layout, LiveSegment, DataTypeOK
<1>2. MemoryInv'
  BY <1>1, NextKeeps
<1>3. written' = [s \in Objects |->
        IF s \in ToSet(structure'.ram) /\ s \in Live THEN written[s] ELSE Blank]
  BY DEF Layout
<1>4. DataTypeOK'
  BY <1>1, <1>3 DEF DataTypeOK, BytesStay, Letters, Blank
<1>5. ASSUME NEW s \in ToSet(structure'.ram), s # Zero
      PROVE  Intact(structure'.segment[s], heap', written'[s])
  <2>1. s \in Objects
    <3>1. Sound(structure')
      BY <1>2 DEF MemoryInv
    <3> QED BY <3>1, RamFacts
  <2>2. CASE s \in Live
    <3>1. written'[s] = written[s] /\ Intact(structure.segment[s], heap, written[s])
          /\ DOMAIN written[s] \subseteq Nat
      BY <1>1, <1>3, <1>5, <2>1, <2>2
    <3>2. /\ structure'.segment[s].offset = structure.segment[s].offset
          /\ structure.segment[s].offset \in Nat \ {0}
          /\ structure.segment[s].base \in Nat
          /\ \A o \in Nat : o < structure.segment[s].offset =>
               heap'[structure'.segment[s].base + o] = heap[structure.segment[s].base + o]
      <4>1. Sound(structure)
        BY <1>1 DEF MemoryInv
      <4> QED BY <1>1, <1>5, <2>2, <4>1, RamFacts DEF BytesStay, Live
    <3>3. structure'.segment[s].base \in Nat
      <4>1. Sound(structure')
        BY <1>2 DEF MemoryInv
      <4> QED BY <4>1, RamFacts
    <3>4. heap'[structure'.segment[s].base] = heap[structure.segment[s].base]
      <4>1. 0 \in Nat /\ 0 < structure.segment[s].offset
        BY <3>2
      <4>2. structure'.segment[s].base + 0 = structure'.segment[s].base
            /\ structure.segment[s].base + 0 = structure.segment[s].base
        BY <3>2, <3>3
      <4> QED BY <3>2, <4>1, <4>2
    <3> QED BY <3>1, <3>2, <3>4 DEF Intact
  <2>3. CASE s \notin Live
    BY <1>3, <2>1, <2>3 DEF Intact, Blank
  <2> QED BY <2>2, <2>3
<1> QED BY <1>2, <1>4, <1>5 DEF BytesInv, Live, LiveSegment

(* The contents of memory, whoever writes and however often it is          *)
(* compacted.                                                              *)
THEOREM BytesInvariant == DataSpec => []BytesInv
<1>1. DataInit => BytesInv
  <2> SUFFICES ASSUME DataInit PROVE BytesInv
    OBVIOUS
  <2>1. MemoryInv
    BY InitSound DEF DataInit
  <2>2. DataTypeOK
    BY DEF DataInit, DataTypeOK, Blank
  <2>3. ASSUME NEW s \in Live \ {Zero} PROVE Intact(LiveSegment(s), heap, written[s])
    <3>1. s \in Objects
      BY <2>1, RamFacts DEF Live, MemoryInv
    <3> QED BY <3>1 DEF DataInit, Intact, Blank
  <2> QED BY <2>1, <2>2, <2>3 DEF BytesInv
<1>2. BytesInv /\ [DataNext]_dataVars => BytesInv'
  <2> SUFFICES ASSUME BytesInv, [DataNext]_dataVars PROVE BytesInv'
    OBVIOUS
  <2>1. CASE Layout
    BY <2>1, LayoutKeeps
  <2>2. ASSUME NEW pid \in Pids, NEW s_id \in SegmentIds, WriteMemory(pid, s_id)
        PROVE  BytesInv'
    BY <2>2, WriteMemoryKeeps
  <2>3. CASE UNCHANGED dataVars
    BY <2>3 DEF dataVars, vars, BytesInv, MemoryInv, Waiting, HasTable, DataTypeOK, Live,
                LiveSegment
  <2> QED BY <2>1, <2>2, <2>3 DEF DataNext
<1> QED BY <1>1, <1>2, PTL DEF DataSpec

(* Type correctness of the contents.                                       *)
THEOREM ContentsAreTyped == DataSpec => []DataTypeOK
<1>1. BytesInv => DataTypeOK
  BY DEF BytesInv
<1> QED BY <1>1, BytesInvariant, PTL

(* A process reads what it wrote, but for the first byte of a segment.     *)
THEOREM WhatIsWrittenIsRead == DataSpec => []OnlyTheFirstByteIsCut
<1>1. BytesInv => OnlyTheFirstByteIsCut
  <2> SUFFICES ASSUME BytesInv, NEW s \in Live \ {Zero}, NEW o \in DOMAIN written[s]
               PROVE  Kept(s, o) \/ Cut(s, o)
    BY DEF OnlyTheFirstByteIsCut
  <2> DEFINE sg == LiveSegment(s)
             w == written[s][o]
  <2>1. /\ o < sg.offset
        /\ heap[sg.base + o] = w \/ (o = 0 /\ heap[sg.base] = NUL)
    BY DEF BytesInv, Intact
  <2>2. o \in Nat /\ sg.offset \in Nat /\ sg.base \in Nat
    <3>1. s \in Objects /\ sg.offset \in Nat /\ sg.base \in Nat
      BY RamFacts DEF BytesInv, MemoryInv, Live, LiveSegment
    <3> QED BY <3>1 DEF BytesInv, DataTypeOK
  <2> HIDE DEF sg, w
  <2>3. ReadMemory(sg, o, 1) = <<heap[sg.base + o]>>
    <3>1. FitsInSegment(sg, o, 1)
      BY <2>1, <2>2 DEF FitsInSegment
    <3>2. \A k \in 1 .. 1 : sg.base + o + k - 1 = sg.base + o
      BY <2>2
    <3>3. [k \in 1 .. 1 |-> heap[sg.base + o + k - 1]] = <<heap[sg.base + o]>>
      BY <3>2
    <3> QED BY <3>1, <3>3 DEF ReadMemory
  <2>4. o = 0 => sg.base + o = sg.base
    BY <2>2
  <2> QED BY <2>1, <2>3, <2>4 DEF Kept, Cut, sg, w
<1> QED BY <1>1, BytesInvariant, PTL
=============================================================================
