-------------------------- MODULE FileSystemProofs --------------------------
(***************************************************************************)
(* Theorems about the file system, for disks and blocks of any size, any   *)
(* files, letters, sizes and lengths, careful or killed.                   *)
(***************************************************************************)
EXTENDS FileSystemInvariant, QueueLemmas, TLAPS, SequenceTheorems, WellFoundedInduction

-----------------------------------------------------------------------------
(* Words and blocks.                                                       *)

LEMMA DiskIs ==
  /\ BlockWords \in Nat /\ BlockWords >= 1 /\ BlockCount \in Nat /\ BlockCount >= 1
  /\ 0 \in Blocks /\ Blocks \subseteq Nat /\ -1 \notin Blocks /\ Empty \notin Blocks
  /\ Empty # -1
  BY DiskAssumption, NullAssumption DEF Blocks

(* Blocks follow each other.                                               *)
LEMMA Ahead ==
  ASSUME NEW W \in Nat, NEW b \in Nat, NEW c \in Nat, b < c
  PROVE  b * W \in Nat /\ c * W \in Nat /\ b * W + W <= c * W
  OBVIOUS

LEMMA DivMod ==
  ASSUME NEW o \in Nat
  PROVE  /\ o \div BlockWords \in Nat /\ o % BlockWords \in 0 .. BlockWords - 1
         /\ o = ((o \div BlockWords) * BlockWords) + (o % BlockWords)
<1>0. BlockWords \in Nat /\ BlockWords > 0
  BY DiskIs
<1>1. o \div BlockWords \in Int
  BY <1>0
<1>2. o % BlockWords \in 0 .. BlockWords - 1
  BY <1>0
<1>3. o = (BlockWords * (o \div BlockWords)) + (o % BlockWords)
  BY <1>0
<1>4. o \div BlockWords >= 0
  <2>1. SUFFICES ASSUME o \div BlockWords <= -1 PROVE FALSE
    BY <1>1
  <2>2. BlockWords * (o \div BlockWords) <= -BlockWords
    BY <1>0, <1>1, <2>1
  <2>3. BlockWords * (o \div BlockWords) \in Int
    BY <1>0, <1>1
  <2> QED BY <1>0, <1>2, <1>3, <2>2, <2>3
<1>5. BlockWords * (o \div BlockWords) = (o \div BlockWords) * BlockWords
  BY <1>0, <1>1
<1> QED BY <1>1, <1>2, <1>3, <1>4, <1>5

(* The k-th word of block b is on the disk, and in no other block.         *)
LEMMA WordPlace ==
  ASSUME NEW b \in Blocks, NEW k \in 1 .. BlockWords
  PROVE  /\ b * BlockWords + k - 1 \in Words
         /\ \A c \in Blocks : b * BlockWords + k - 1 \in WordsOf(c) <=> c = b
<1>0. /\ BlockWords \in Nat /\ BlockCount \in Nat /\ b \in Nat /\ b < BlockCount /\ k \in Nat
      /\ 1 <= k /\ k <= BlockWords
  BY DiskIs DEF Blocks
<1> DEFINE s == b * BlockWords
<1>1. s \in Nat /\ s + BlockWords <= BlockCount * BlockWords /\ BlockCount * BlockWords \in Nat
  BY <1>0, Ahead
<1>2. ASSUME NEW c \in Blocks PROVE s + k - 1 \in WordsOf(c) <=> c = b
  <2>0. c \in Nat /\ c * BlockWords \in Nat
    BY <1>0, DiskIs
  <2>1. CASE c = b
    BY <1>0, <1>1, <2>1 DEF WordsOf
  <2>2. CASE c < b
    <3>1. c * BlockWords + BlockWords <= s
      BY <1>0, <2>0, <2>2, Ahead
    <3> HIDE DEF s
    <3> QED BY <1>0, <1>1, <2>0, <2>2, <3>1 DEF WordsOf
  <2>3. CASE b < c
    <3>1. s + BlockWords <= c * BlockWords
      BY <1>0, <2>0, <2>3, Ahead
    <3> HIDE DEF s
    <3> QED BY <1>0, <1>1, <2>0, <2>3, <3>1 DEF WordsOf
  <2> QED BY <1>0, <2>0, <2>1, <2>2, <2>3
<1> HIDE DEF s
<1>3. s + k - 1 \in Words
  BY <1>0, <1>1 DEF Words
<1> QED BY <1>2, <1>3 DEF s

(* Two places are the same word only if they are the same place.           *)
LEMMA SamePlace ==
  ASSUME NEW b \in Blocks, NEW k \in 1 .. BlockWords, NEW c \in Blocks, NEW j \in 1 .. BlockWords,
         b * BlockWords + k - 1 = c * BlockWords + j - 1
  PROVE  b = c /\ k = j
<1>1. c * BlockWords + j - 1 \in WordsOf(c)
  BY WordPlace
<1>2. b = c
  BY <1>1, WordPlace
<1>3. b * BlockWords \in Nat
  BY DiskIs
<1> QED BY <1>2, <1>3

(* The first words of a block.                                             *)
LEMMA FirstWords ==
  ASSUME NEW b \in Blocks, NEW n \in 0 .. BlockWords, NEW c \in Blocks, NEW k \in 1 .. BlockWords
  PROVE  /\ c * BlockWords + k - 1 \in (b * BlockWords) .. (b * BlockWords + n - 1) <=>
              c = b /\ k <= n
         /\ (b * BlockWords) .. (b * BlockWords + n - 1) \subseteq Words
<1>0. /\ BlockWords \in Nat /\ b * BlockWords \in Nat /\ c * BlockWords \in Nat
  BY DiskIs
<1>1. (b * BlockWords) .. (b * BlockWords + n - 1) \subseteq WordsOf(b)
  BY <1>0 DEF WordsOf
<1>2. c * BlockWords + k - 1 \in WordsOf(b) <=> b = c
  BY WordPlace
<1>3. WordsOf(b) \subseteq Words
  <2> SUFFICES ASSUME NEW w \in WordsOf(b) PROVE w \in Words
    OBVIOUS
  <2>1. w - b * BlockWords + 1 \in 1 .. BlockWords
        /\ b * BlockWords + (w - b * BlockWords + 1) - 1 = w
    BY <1>0 DEF WordsOf
  <2> QED BY <2>1, WordPlace
<1> QED BY <1>0, <1>1, <1>2, <1>3

-----------------------------------------------------------------------------
(* What a disk is, and what its operations do to it, word by word.         *)
Values == Blocks \cup {-1} \cup UNION {ToSet(Letters[f]) : f \in Files}
Disks == [bitmap : SUBSET Blocks, words : [Words -> Values], ok : BOOLEAN]

LEMMA ValuesAre ==
  /\ 0 \in Values /\ -1 \in Values /\ Blocks \subseteq Values
  /\ \A f \in Files : \A o \in Nat :
       Letter(f, o) \in Values \ (Blocks \cup {-1})
<1>1. ASSUME NEW f \in Files, NEW o \in Nat
      PROVE  Letter(f, o) \in Values \ (Blocks \cup {-1})
  <2> DEFINE n == Len(Letters[f])
  <2>1. Letters[f] \in Seq(ToSet(Letters[f])) /\ n \in Nat /\ n > 0
    BY LettersAssumption, EmptySeq, LenProperties
  <2>2. (o % n) + 1 \in 1 .. n
    <3> HIDE DEF n
    <3>1. o % n \in 0 .. n - 1
      BY <2>1
    <3> QED BY <2>1, <3>1
  <2>3. Letter(f, o) \in ToSet(Letters[f])
    BY <2>1, <2>2, ElementOfSeq DEF Letter
  <2> QED BY <2>3, LettersAssumption, DiskIs DEF Values, Blocks
<1> QED BY <1>1, DiskIs DEF Values

LEMMA WordType ==
  ASSUME NEW words \in [Words -> Values], NEW b \in Blocks, NEW k \in 1 .. BlockWords
  PROVE  WordIn(words, b, k) \in Values
  BY WordPlace DEF WordIn

LEMMA ClearedIs ==
  ASSUME NEW d \in Disks, NEW b
  PROVE  /\ Cleared(d, b) \in Disks /\ Cleared(d, b).bitmap = d.bitmap
         /\ Cleared(d, b).ok => d.ok /\ b \in Blocks
         /\ b \in Blocks => \A c \in Blocks, k \in 1 .. BlockWords :
              WordIn(Cleared(d, b).words, c, k) = IF c = b THEN 0 ELSE WordIn(d.words, c, k)
         /\ b \in Blocks => Cleared(d, b).ok = d.ok
<1>1. CASE b \notin Blocks
  BY <1>1 DEF Cleared, Disks
<1>2. CASE b \in Blocks
  <2> DEFINE e == Cleared(d, b)
  <2>1. e = [d EXCEPT !.words = [w \in Words |-> IF w \in WordsOf(b) THEN 0 ELSE d.words[w]]]
    BY <1>2 DEF Cleared
  <2>2. e.bitmap = d.bitmap /\ e.ok = d.ok
        /\ e.words = [w \in Words |-> IF w \in WordsOf(b) THEN 0 ELSE d.words[w]]
    BY <2>1 DEF Disks
  <2>3. e \in Disks
    BY <2>1, ValuesAre DEF Disks
  <2> HIDE DEF e
  <2>4. ASSUME NEW c \in Blocks, NEW k \in 1 .. BlockWords
        PROVE  WordIn(e.words, c, k) = IF c = b THEN 0 ELSE WordIn(d.words, c, k)
    BY <1>2, <2>2, WordPlace DEF WordIn
  <2> QED BY <1>2, <2>2, <2>3, <2>4 DEF e
<1> QED BY <1>1, <1>2

(* The blocks B of d given back make e.                                    *)
Wiped(d, e, B) ==
  /\ e \in Disks
  /\ e.ok => /\ d.ok /\ B \subseteq Blocks /\ e.bitmap = d.bitmap \ B
             /\ \A c \in Blocks, k \in 1 .. BlockWords :
                  WordIn(e.words, c, k) = IF c \in B THEN 0 ELSE WordIn(d.words, c, k)

LEMMA WipedTwice ==
  ASSUME NEW d, NEW e, NEW f, NEW A, NEW B, Wiped(d, e, A), Wiped(e, f, B)
  PROVE  Wiped(d, f, A \cup B)
  BY DEF Wiped

LEMMA FreedIs ==
  ASSUME NEW d \in Disks, NEW b
  PROVE  Wiped(d, Freed(d, b), {b})
<1> DEFINE c == Cleared(d, b)
<1>1. /\ c \in Disks /\ c.bitmap = d.bitmap /\ (c.ok => d.ok /\ b \in Blocks)
      /\ b \in Blocks => \A x \in Blocks, k \in 1 .. BlockWords :
              WordIn(c.words, x, k) = IF x = b THEN 0 ELSE WordIn(d.words, x, k)
  BY ClearedIs
<1>2. Freed(d, b) = [c EXCEPT !.bitmap = c.bitmap \ {b}]
  BY DEF Freed
<1> HIDE DEF c
<1>3. /\ Freed(d, b) \in Disks /\ Freed(d, b).bitmap = d.bitmap \ {b}
      /\ Freed(d, b).ok = c.ok /\ Freed(d, b).words = c.words
  BY <1>1, <1>2 DEF Disks
<1> QED BY <1>1, <1>3 DEF Wiped

FreeOp(c, d, b) == Freed(d, b)
Freeing == INSTANCE FoldLemmas WITH op <- FreeOp

LEMMA AllFreedIs ==
  ASSUME NEW d \in Disks, NEW S, NEW list \in Seq(S)
  PROVE  Wiped(d, AllFreed(d, list), ToSet(list))
<1>1. AllFreed(d, list) = Freeing!Folded(0, d, list)
  BY DEF AllFreed, Freeing!Folded, FoldLeft, MapThenFoldSet,
         Freeing!MapThenFoldSet, Max, Freeing!Greatest, FreeOp
<1>2. PICK F : Freeing!Folding(F, 0, d, list)
  BY Freeing!FoldSteps
<1>3. /\ F[0] = d /\ AllFreed(d, list) = F[Len(list)]
      /\ \A k \in 1 .. Len(list) : F[k] = Freed(F[k - 1], list[k])
  BY <1>1, <1>2 DEF Freeing!Folding, FreeOp
<1>4. Len(list) \in Nat /\ DOMAIN list = 1 .. Len(list)
  BY LenProperties
<1> DEFINE Prefix(k) == {list[j] : j \in 1 .. k}
           T == {k \in Nat : k <= Len(list) => Wiped(d, F[k], Prefix(k))}
<1>5. 0 \in T
  <2>1. Prefix(0) = {}
    OBVIOUS
  <2> QED BY <1>3, <2>1 DEF Wiped
<1>6. ASSUME NEW k \in T PROVE k + 1 \in T
  <2>1. SUFFICES ASSUME k + 1 <= Len(list) PROVE Wiped(d, F[k + 1], Prefix(k + 1))
    OBVIOUS
  <2>2. k + 1 \in 1 .. Len(list) /\ (k + 1) - 1 = k /\ Wiped(d, F[k], Prefix(k))
    BY <1>4, <2>1
  <2>3. F[k + 1] = Freed(F[k], list[k + 1]) /\ F[k] \in Disks
    BY <1>3, <2>2 DEF Wiped
  <2>4. Wiped(F[k], F[k + 1], {list[k + 1]})
    BY <2>3, FreedIs
  <2>5. Prefix(k + 1) = Prefix(k) \cup {list[k + 1]}
    <3>1. 1 .. k + 1 = (1 .. k) \cup {k + 1}
      OBVIOUS
    <3> QED BY <3>1
  <2> HIDE DEF Prefix
  <2> QED BY <2>2, <2>4, <2>5, WipedTwice
<1>7. T = Nat
  <2>1. T \in SUBSET Nat
    OBVIOUS
  <2> HIDE DEF T
  <2> QED BY <1>5, <1>6, <2>1, Freeing!NatSetInduction
<1>8. Prefix(Len(list)) = ToSet(list)
  BY <1>4 DEF ToSet
<1>9. Len(list) \in T
  BY <1>4, <1>7
<1>10. Wiped(d, F[Len(list)], Prefix(Len(list)))
  BY <1>4, <1>9
<1> QED BY <1>3, <1>8, <1>10

-----------------------------------------------------------------------------
(* Blocks taken from those that are free.                                  *)

LEMMA MinIs ==
  ASSUME NEW U \in SUBSET Nat, U # {}
  PROVE  Min(U) \in U /\ \A y \in U : Min(U) <= y
<1>1. IsWellFoundedOn(OpToRel(<, Nat), Nat)
  BY NatLessThanWellFounded
<1>2. PICK x \in U : \A y \in U : <<y, x>> \notin OpToRel(<, Nat)
  BY <1>1, WFMin
<1>3. ASSUME NEW y \in U PROVE x <= y
  <2>1. SUFFICES ASSUME y < x PROVE FALSE
    OBVIOUS
  <2>2. <<y, x>> \in OpToRel(<, Nat)
    BY <2>1 DEF OpToRel
  <2> QED BY <1>2, <2>2
<1> QED BY <1>3 DEF Min

(* The blocks B are those of e that were free in d.                        *)
Taken(d, e, B) ==
  /\ e \in Disks /\ e.words = d.words /\ e.ok = d.ok
  /\ B \subseteq Blocks \ d.bitmap /\ e.bitmap = d.bitmap \cup B

LEMMA NextBitIs ==
  ASSUME NEW d \in Disks
  PROVE  /\ NextBit(d).block \in (Blocks \ d.bitmap) \cup {-1}
         /\ Taken(d, NextBit(d).disk, {NextBit(d).block} \cap Blocks)
         /\ 0 \in NextBit(d).disk.bitmap
<1>1. CASE FreeBlocks(d) = {}
  BY <1>1, DiskIs DEF NextBit, Taken, FreeBlocks
<1>2. CASE FreeBlocks(d) # {}
  <2> DEFINE b == Min(FreeBlocks(d))
  <2>1. b \in Blocks \ d.bitmap /\ \A y \in Blocks \ d.bitmap : b <= y
    BY <1>2, MinIs, DiskIs DEF FreeBlocks
  <2>2. NextBit(d) = [disk |-> BitSet(d, b), block |-> b]
    BY <1>2 DEF NextBit
  <2> HIDE DEF b
  <2>3. BitSet(d, b) = [d EXCEPT !.bitmap = d.bitmap \cup {b}]
    BY DEF BitSet
  <2>4. Taken(d, BitSet(d, b), {b})
    BY <2>1, <2>3 DEF Taken, Disks
  <2>5. {b} \cap Blocks = {b} /\ NextBit(d).block = b /\ NextBit(d).disk = BitSet(d, b)
    BY <2>1, <2>2
  <2>6. 0 \in d.bitmap \/ b = 0
    <3>1. 0 \in Blocks /\ Blocks \subseteq Nat
      BY DiskIs
    <3> QED BY <2>1, <3>1
  <2>7. BitSet(d, b).bitmap = d.bitmap \cup {b}
    BY <2>3 DEF Disks
  <2> QED BY <2>1, <2>4, <2>5, <2>6, <2>7
<1> QED BY <1>1, <1>2

(* A pointer that is set is kept, one that is not is a free block or -1.   *)
LEMMA AllocatedIs ==
  ASSUME NEW d \in Disks, NEW p \in Pointers
  PROVE  /\ p # Empty => Allocated(d, p).block = p
         /\ p = Empty => Allocated(d, p).block \in (Blocks \ d.bitmap) \cup {-1}
         /\ Allocated(d, p).block \in Blocks \cup {-1}
         /\ Taken(d, Allocated(d, p).disk,
                  IF p = Empty THEN {Allocated(d, p).block} \cap Blocks ELSE {})
         /\ p = Empty => 0 \in Allocated(d, p).disk.bitmap
<1>1. CASE p = Empty
  BY <1>1, NextBitIs DEF Allocated
<1>2. CASE p # Empty
  BY <1>2 DEF Allocated, Taken, Pointers
<1> QED BY <1>1, <1>2

(* What the loop that takes blocks has after k of them.                    *)
Accs == [disk : Disks, list : Seq(Values)]
Longer(d, list, acc, k) ==
  /\ acc \in Accs /\ Len(acc.list) = Len(list) + k
  /\ \A j \in 1 .. Len(list) : acc.list[j] = list[j]
  /\ \A j \in Len(list) + 1 .. Len(list) + k :
       acc.list[j] \in (Blocks \ d.bitmap) \cup {-1}
  /\ \A j, l \in Len(list) + 1 .. Len(list) + k :
       acc.list[j] = acc.list[l] /\ acc.list[j] \in Blocks => j = l
  /\ Taken(d, acc.disk, {b \in Blocks : \E j \in Len(list) + 1 .. Len(list) + k : acc.list[j] = b})

ExtendOp(c, acc, k) ==
  LET next == NextBit(acc.disk) IN [disk |-> next.disk, list |-> Append(acc.list, next.block)]
Extending == INSTANCE FoldLemmas WITH op <- ExtendOp

LEMMA LongerStep ==
  ASSUME NEW d \in Disks, NEW list \in Seq(Values), NEW acc, NEW k \in Nat,
         Longer(d, list, acc, k), NEW x
  PROVE  Longer(d, list, ExtendOp(0, acc, x), k + 1)
<1> DEFINE n == Len(list)
           r == NextBit(acc.disk)
           e == ExtendOp(0, acc, x)
<1>0. n \in Nat /\ acc.disk \in Disks /\ acc.list \in Seq(Values) /\ Len(acc.list) = n + k
  BY LenProperties DEF Longer, Accs
<1>1. r.block \in (Blocks \ acc.disk.bitmap) \cup {-1} /\ r.block \in Values
      /\ Taken(acc.disk, r.disk, {r.block} \cap Blocks)
  BY <1>0, NextBitIs, ValuesAre
<1>2. e = [disk |-> r.disk, list |-> Append(acc.list, r.block)]
  BY DEF ExtendOp
<1> HIDE DEF r
<1>3. e.disk = r.disk /\ e.list = Append(acc.list, r.block)
  BY <1>2
<1>4. /\ e \in Accs /\ Len(e.list) = n + (k + 1)
      /\ \A j \in 1 .. n + k : e.list[j] = acc.list[j]
      /\ e.list[n + k + 1] = r.block
  <2>1. /\ e.list \in Seq(Values) /\ Len(e.list) = Len(acc.list) + 1
        /\ \A j \in 1 .. Len(acc.list) + 1 :
             e.list[j] = IF j <= Len(acc.list) THEN acc.list[j] ELSE r.block
    <3>1. acc.list \in Seq(Values) /\ r.block \in Values
      BY <1>0, <1>1
    <3> HIDE DEF e
    <3> QED BY <1>3, <3>1, AppendHeadTail
  <2>2. e \in Accs
    BY <1>1, <1>2, <1>3, <2>1 DEF Accs, Taken
  <2> HIDE DEF e, n
  <2> QED BY <1>0, <2>1, <2>2
<1> HIDE DEF n, e
<1> DEFINE B == {b \in Blocks : \E j \in n + 1 .. n + k : acc.list[j] = b}
           C == {b \in Blocks : \E j \in n + 1 .. n + (k + 1) : e.list[j] = b}
<1>5. /\ \A j \in 1 .. n : acc.list[j] = list[j]
      /\ \A j \in n + 1 .. n + k : acc.list[j] \in (Blocks \ d.bitmap) \cup {-1}
      /\ \A j, l \in n + 1 .. n + k : acc.list[j] = acc.list[l] /\ acc.list[j] \in Blocks => j = l
      /\ Taken(d, acc.disk, B)
  BY DEF Longer, n
<1>6. \A j \in n + 1 .. n + (k + 1) :
        \/ j \in n + 1 .. n + k /\ j \in 1 .. n + k /\ j # n + k + 1
        \/ j = n + k + 1
  BY <1>0
<1>7. C = B \cup ({r.block} \cap Blocks)
  <2>1. \A b \in C : b \in B \cup ({r.block} \cap Blocks)
    BY <1>4, <1>6
  <2>2. \A b \in B : b \in C
    <3> SUFFICES ASSUME NEW j \in n + 1 .. n + k PROVE j \in n + 1 .. n + (k + 1) /\ e.list[j] = acc.list[j]
      OBVIOUS
    <3> QED BY <1>0, <1>4
  <2>3. r.block \in Blocks => r.block \in C
    <3>1. n + k + 1 \in n + 1 .. n + (k + 1)
      BY <1>0
    <3> QED BY <1>4, <3>1
  <2> QED BY <2>1, <2>2, <2>3
<1> HIDE DEF B, C
<1>8. Taken(d, e.disk, C)
  BY <1>1, <1>3, <1>5, <1>7 DEF Taken
<1>9. \A j \in n + 1 .. n + (k + 1) : e.list[j] \in (Blocks \ d.bitmap) \cup {-1}
  <2>1. r.block \in (Blocks \ d.bitmap) \cup {-1}
    BY <1>1, <1>5 DEF Taken
  <2> QED BY <1>4, <1>5, <1>6, <2>1
<1>10. \A j, l \in n + 1 .. n + (k + 1) : e.list[j] = e.list[l] /\ e.list[j] \in Blocks => j = l
  <2>1. \A j \in n + 1 .. n + k : acc.list[j] \in Blocks => acc.list[j] # r.block
    BY <1>1, <1>5 DEF Taken, B
  <2> QED BY <1>4, <1>5, <1>6, <2>1
<1>11. \A j \in 1 .. n : e.list[j] = list[j]
  BY <1>0, <1>4, <1>5
<1> QED BY <1>4, <1>8, <1>9, <1>10, <1>11 DEF Longer, n, e, C

LEMMA ExtendedIs ==
  ASSUME NEW d \in Disks, NEW list \in Seq(Values), NEW n \in Nat
  PROVE  Longer(d, list, Extended(d, list, n), n)
<1> DEFINE base == [disk |-> d, list |-> list]
           ks == [k \in 1 .. n |-> k]
<1>1. ks \in Seq(Nat) /\ Len(ks) = n
  OBVIOUS
<1>2. Extended(d, list, n) = Extending!Folded(0, base, ks)
  BY DEF Extended, Extending!Folded, FoldLeft, MapThenFoldSet,
         Extending!MapThenFoldSet, Max, Extending!Greatest, ExtendOp
<1> HIDE DEF ks
<1>3. PICK F : Extending!Folding(F, 0, base, ks)
  BY <1>1, Extending!FoldSteps
<1>4. /\ F[0] = base /\ Extended(d, list, n) = F[n]
      /\ \A k \in 1 .. n : F[k] = ExtendOp(0, F[k - 1], ks[k])
  BY <1>1, <1>2, <1>3 DEF Extending!Folding
<1> DEFINE T == {k \in Nat : k <= n => Longer(d, list, F[k], k)}
<1>5. 0 \in T
  <2>1. Len(list) \in Nat /\ base \in Accs /\ base.disk = d /\ base.list = list
    BY LenProperties DEF Accs
  <2>2. Taken(d, d, {})
    BY DEF Taken
  <2>3. {b \in Blocks : \E j \in Len(list) + 1 .. Len(list) + 0 : base.list[j] = b} = {}
    BY <2>1
  <2> HIDE DEF base
  <2>4. Len(list) + 1 .. Len(list) + 0 = {} /\ Len(base.list) = Len(list) + 0
    BY <2>1
  <2>5. Longer(d, list, base, 0)
    BY <2>1, <2>2, <2>3, <2>4 DEF Longer
  <2> QED BY <1>4, <2>5
<1>6. ASSUME NEW k \in T PROVE k + 1 \in T
  <2>1. SUFFICES ASSUME k + 1 <= n PROVE Longer(d, list, F[k + 1], k + 1)
    OBVIOUS
  <2>2. k + 1 \in 1 .. n /\ (k + 1) - 1 = k /\ Longer(d, list, F[k], k)
    BY <2>1
  <2> QED BY <1>4, <2>2, LongerStep
<1>7. T = Nat
  <2>1. T \in SUBSET Nat
    OBVIOUS
  <2> HIDE DEF T
  <2> QED BY <1>5, <1>6, <2>1, Extending!NatSetInduction
<1>8. n \in T
  BY <1>7
<1> QED BY <1>4, <1>8

-----------------------------------------------------------------------------
(* get_bf_ip and set_bf_ip.                                                *)

PointerOp(c, list, word) == AddPointer(list, word)
Reading == INSTANCE FoldLemmas WITH op <- PointerOp

(* The list after each word of the block.                                  *)
LEMMA GetSteps ==
  ASSUME NEW words \in [Words -> Values], NEW b \in Blocks
  PROVE  \E F : /\ F[0] = <<>> /\ GetBfIp(words, b) = F[BlockWords]
                /\ \A k \in 1 .. BlockWords : F[k] = AddPointer(F[k - 1], WordIn(words, b, k))
<1> DEFINE s == [k \in 1 .. BlockWords |-> words[b * BlockWords + k - 1]]
<1>0. BlockWords \in Nat
  BY DiskIs
<1>1. \A k \in 1 .. BlockWords : s[k] = WordIn(words, b, k) /\ s[k] \in Values
  BY WordType DEF WordIn
<1>2. s \in Seq(Values) /\ Len(s) = BlockWords
  BY <1>0, <1>1
<1>3. GetBfIp(words, b) = Reading!Folded(0, <<>>, s)
  BY DEF GetBfIp, Reading!Folded, FoldLeft, MapThenFoldSet,
         Reading!MapThenFoldSet, Max, Reading!Greatest, PointerOp
<1> HIDE DEF s
<1>4. PICK F : Reading!Folding(F, 0, <<>>, s)
  BY <1>2, Reading!FoldSteps
<1> QED BY <1>1, <1>2, <1>3, <1>4 DEF Reading!Folding, PointerOp

(* Every pointer it finds is a word of the block that is not 0.            *)
LEMMA GetMembers ==
  ASSUME NEW words \in [Words -> Values], NEW b \in Blocks
  PROVE  /\ GetBfIp(words, b) \in Seq(Values) /\ Len(GetBfIp(words, b)) \in 0 .. BlockWords
         /\ \A j \in 1 .. Len(GetBfIp(words, b)) :
              /\ GetBfIp(words, b)[j] # 0
              /\ \E k \in 1 .. BlockWords : GetBfIp(words, b)[j] = WordIn(words, b, k)
<1>0. BlockWords \in Nat
  BY DiskIs
<1>1. PICK F : /\ F[0] = <<>> /\ GetBfIp(words, b) = F[BlockWords]
               /\ \A k \in 1 .. BlockWords : F[k] = AddPointer(F[k - 1], WordIn(words, b, k))
  BY GetSteps
<1> DEFINE Good(l, k) ==
             /\ l \in Seq(Values) /\ Len(l) \in 0 .. k
             /\ \A j \in 1 .. Len(l) :
                  l[j] # 0 /\ \E i \in 1 .. BlockWords : l[j] = WordIn(words, b, i)
           T == {k \in Nat : k <= BlockWords => Good(F[k], k)}
<1>2. 0 \in T
  <2>1. <<>> \in Seq(Values) /\ Len(<<>>) = 0
    OBVIOUS
  <2>2. Good(<<>>, 0)
    BY <2>1
  <2> QED BY <1>1, <2>2
<1>3. ASSUME NEW k \in T PROVE k + 1 \in T
  <2>1. SUFFICES ASSUME k + 1 <= BlockWords PROVE Good(F[k + 1], k + 1)
    OBVIOUS
  <2> DEFINE l == F[k]
             x == WordIn(words, b, k + 1)
  <2>2. k \in Nat /\ k + 1 \in 1 .. BlockWords /\ (k + 1) - 1 = k /\ Good(l, k)
    BY <1>0, <2>1
  <2>3. F[k + 1] = AddPointer(l, x) /\ x \in Values
    BY <1>1, <2>2, WordType
  <2>4. /\ l \in Seq(Values) /\ Len(l) \in 0 .. k
        /\ \A j \in 1 .. Len(l) :
             l[j] # 0 /\ \E i \in 1 .. BlockWords : l[j] = WordIn(words, b, i)
    BY <2>2
  <2> HIDE DEF l
  <2>5. CASE x = 0
    <3>1. F[k + 1] = l
      BY <2>3, <2>5 DEF AddPointer
    <3> QED BY <2>2, <2>4, <3>1
  <2>6. CASE x # 0
    <3> DEFINE m == Append(l, x)
    <3>1. F[k + 1] = m
      BY <2>3, <2>6 DEF AddPointer
    <3>2. /\ m \in Seq(Values) /\ Len(m) = Len(l) + 1
          /\ \A j \in 1 .. Len(l) + 1 : m[j] = IF j <= Len(l) THEN l[j] ELSE x
      <4> HIDE DEF x
      <4> QED BY <2>3, <2>4, AppendHeadTail
    <3> HIDE DEF m
    <3>3. Len(m) \in 0 .. k + 1
      BY <2>2, <2>4, <3>2
    <3>4. ASSUME NEW j \in 1 .. Len(m)
          PROVE  m[j] # 0 /\ \E i \in 1 .. BlockWords : m[j] = WordIn(words, b, i)
      <4>1. CASE j <= Len(l)
        BY <2>4, <3>2, <4>1
      <4>2. CASE ~(j <= Len(l))
        <5>1. m[j] = x
          BY <3>2, <4>2
        <5> QED BY <2>2, <2>6, <5>1
      <4> QED BY <4>1, <4>2
    <3> QED BY <3>1, <3>2, <3>3, <3>4
  <2> QED BY <2>5, <2>6
<1>4. T = Nat
  <2>1. T \in SUBSET Nat
    OBVIOUS
  <2> HIDE DEF T
  <2> QED BY <1>2, <1>3, <2>1, Reading!NatSetInduction
<1>5. BlockWords \in T
  BY <1>0, <1>4
<1>6. Good(F[BlockWords], BlockWords)
  BY <1>0, <1>5
<1> QED BY <1>1, <1>6

(* From a packed block it is the words that are set.                       *)
LEMMA GetPacked ==
  ASSUME NEW words \in [Words -> Values], NEW b \in Blocks, NEW n \in 0 .. BlockWords,
         Packed(words, b, n)
  PROVE  /\ GetBfIp(words, b) \in Seq(Values) /\ Len(GetBfIp(words, b)) = n
         /\ \A k \in 1 .. n : GetBfIp(words, b)[k] = WordIn(words, b, k)
<1>0. BlockWords \in Nat /\ n \in Nat /\ n <= BlockWords
  BY DiskIs
<1>1. PICK F : /\ F[0] = <<>> /\ GetBfIp(words, b) = F[BlockWords]
               /\ \A k \in 1 .. BlockWords : F[k] = AddPointer(F[k - 1], WordIn(words, b, k))
  BY GetSteps
<1> DEFINE Least(k) == IF k <= n THEN k ELSE n
           Good(l, k) == /\ l \in Seq(Values) /\ Len(l) = Least(k)
                         /\ \A j \in 1 .. Least(k) : l[j] = WordIn(words, b, j)
           T == {k \in Nat : k <= BlockWords => Good(F[k], k)}
<1>2. 0 \in T
  <2>1. <<>> \in Seq(Values) /\ Len(<<>>) = 0 /\ Least(0) = 0
    BY <1>0
  <2>2. Good(<<>>, 0)
    BY <2>1
  <2> QED BY <1>1, <2>2
<1>3. ASSUME NEW k \in T PROVE k + 1 \in T
  <2>1. SUFFICES ASSUME k + 1 <= BlockWords PROVE Good(F[k + 1], k + 1)
    OBVIOUS
  <2> DEFINE l == F[k]
             x == WordIn(words, b, k + 1)
  <2>2. k \in Nat /\ k + 1 \in 1 .. BlockWords /\ (k + 1) - 1 = k /\ Good(l, k)
    BY <1>0, <2>1
  <2>3. F[k + 1] = AddPointer(l, x) /\ x \in Values
    BY <1>1, <2>2, WordType
  <2>4. /\ l \in Seq(Values) /\ Len(l) = Least(k)
        /\ \A j \in 1 .. Least(k) : l[j] = WordIn(words, b, j)
    BY <2>2
  <2>5. x # 0 <=> k + 1 <= n
    BY <2>2 DEF Packed
  <2> HIDE DEF l
  <2>6. CASE ~(k + 1 <= n)
    <3>1. F[k + 1] = l /\ Least(k + 1) = Least(k)
      BY <1>0, <2>2, <2>3, <2>5, <2>6 DEF AddPointer
    <3> QED BY <2>4, <3>1
  <2>7. CASE k + 1 <= n
    <3> DEFINE m == Append(l, x)
    <3>1. F[k + 1] = m /\ Least(k) = k /\ Least(k + 1) = k + 1
      BY <1>0, <2>2, <2>3, <2>5, <2>7 DEF AddPointer
    <3>2. /\ m \in Seq(Values) /\ Len(m) = Len(l) + 1
          /\ \A j \in 1 .. Len(l) + 1 : m[j] = IF j <= Len(l) THEN l[j] ELSE x
      <4> HIDE DEF x
      <4> QED BY <2>3, <2>4, AppendHeadTail
    <3> HIDE DEF m
    <3>3. Len(l) = k
      BY <2>4, <3>1
    <3>4. ASSUME NEW j \in 1 .. k + 1 PROVE m[j] = WordIn(words, b, j)
      <4>1. CASE j <= k
        BY <2>2, <2>4, <3>1, <3>2, <3>3, <4>1
      <4>2. CASE j = k + 1
        BY <2>2, <3>2, <3>3, <4>2
      <4> QED BY <2>2, <4>1, <4>2
    <3> QED BY <3>1, <3>2, <3>3, <3>4
  <2> QED BY <2>6, <2>7
<1>4. T = Nat
  <2>1. T \in SUBSET Nat
    OBVIOUS
  <2> HIDE DEF T
  <2> QED BY <1>2, <1>3, <2>1, Reading!NatSetInduction
<1>5. BlockWords \in T
  BY <1>0, <1>4
<1>6. Least(BlockWords) = n
  BY <1>0
<1> QED BY <1>0, <1>1, <1>5, <1>6

(* A list that fits overwrites the first words of a block of the disk, and *)
(* one that is not empty does not go into a block -1.                      *)
LEMMA SetIs ==
  ASSUME NEW d \in Disks, NEW b \in Blocks \cup {-1}, NEW list \in Seq(Values),
         Len(list) \in 1 .. BlockWords
  PROVE  /\ SetBfIp(d, b, list) \in Disks /\ SetBfIp(d, b, list).bitmap = d.bitmap
         /\ SetBfIp(d, b, list).ok => d.ok /\ b \in Blocks
         /\ b \in Blocks => \A c \in Blocks, k \in 1 .. BlockWords :
              WordIn(SetBfIp(d, b, list).words, c, k) =
                IF c = b /\ k <= Len(list) THEN list[k] ELSE WordIn(d.words, c, k)
<1> DEFINE first == b * BlockWords
           n == Len(list)
           place == first .. (first + n - 1)
           e == SetBfIp(d, b, list)
<1>0. BlockWords \in Nat /\ n \in 1 .. BlockWords
  BY DiskIs
<1>1. CASE b = -1
  <2>1. first = -BlockWords
    BY <1>0, <1>1
  <2>2. first \in place /\ first < 0
    <3> HIDE DEF n, first
    <3> QED BY <1>0, <2>1, DiskIs
  <2>3. ~(place \subseteq Words)
    BY <2>2 DEF Words
  <2>4. e = [d EXCEPT !.ok = FALSE]
    BY <2>3 DEF SetBfIp
  <2> QED BY <1>1, <2>4, DiskIs DEF Disks
<1>2. CASE b \in Blocks
  <2>1. /\ place \subseteq Words
        /\ \A c \in Blocks, k \in 1 .. BlockWords :
             c * BlockWords + k - 1 \in place <=> c = b /\ k <= n
    BY <1>0, <1>2, FirstWords
  <2> DEFINE new == [w \in Words |-> IF w \in place THEN list[w - first + 1] ELSE d.words[w]]
  <2>2. e = [d EXCEPT !.words = new]
    BY <2>1 DEF SetBfIp
  <2>3. first \in Nat
    BY <1>2, DiskIs
  <2>4. \A w \in place : w - first + 1 \in 1 .. n
    <3> HIDE DEF n, first
    <3> QED BY <1>0, <2>3
  <2>5. \A k \in 1 .. n : list[k] \in Values
    BY ElementOfSeq
  <2> HIDE DEF n
  <2>6. new \in [Words -> Values]
    BY <2>4, <2>5 DEF Disks
  <2>7. e.bitmap = d.bitmap /\ e.ok = d.ok /\ e.words = new /\ e \in Disks
    BY <2>2, <2>6 DEF Disks
  <2> HIDE DEF e, place
  <2>8. ASSUME NEW c \in Blocks, NEW k \in 1 .. BlockWords
        PROVE  WordIn(new, c, k) = IF c = b /\ k <= n THEN list[k] ELSE WordIn(d.words, c, k)
    <3>1. c * BlockWords + k - 1 \in Words
      BY WordPlace
    <3>2. CASE c = b /\ k <= n
      <4> DEFINE w == c * BlockWords + k - 1
      <4>1. w - first + 1 = k
        BY <1>0, <2>3, <3>2
      <4>2. w \in place /\ w \in Words
        BY <2>1, <3>1, <3>2
      <4>3. new[w] = list[w - first + 1]
        <5> HIDE DEF w, first
        <5> QED BY <4>2
      <4> QED BY <3>2, <4>1, <4>3 DEF WordIn
    <3>3. CASE ~(c = b /\ k <= n)
      BY <2>1, <3>1, <3>3 DEF WordIn
    <3> QED BY <3>2, <3>3
  <2> QED BY <1>2, <2>7, <2>8 DEF e, n
<1> QED BY <1>1, <1>2

-----------------------------------------------------------------------------
(* Sizes in blocks.                                                        *)
LEMMA BlocksForIs ==
  ASSUME NEW size \in Nat
  PROVE  /\ BlocksFor(size) \in Nat
         /\ size = 0 => BlocksFor(size) = 0
         /\ size > 0 /\ size <= BlockWords => BlocksFor(size) = 1
         /\ size > BlockWords => BlocksFor(size) >= 2
         /\ size <= BlocksFor(size) * BlockWords
<1>0. BlockWords \in Nat /\ BlockWords >= 1
  BY DiskIs
<1> DEFINE n == size + BlockWords - 1
           q == n \div BlockWords
           r == n % BlockWords
<1>1. n \in Nat /\ BlocksFor(size) = q
  BY <1>0 DEF BlocksFor
<1>2. q \in Nat /\ r \in 0 .. BlockWords - 1 /\ n = (q * BlockWords) + r
  <2> HIDE DEF n
  <2> QED BY <1>1, DivMod
<1> HIDE DEF q, r
<1>3. q * BlockWords \in Nat /\ size <= q * BlockWords /\ q * BlockWords < size + BlockWords
  BY <1>0, <1>2
<1>4. size = 0 => q = 0
  <2> SUFFICES ASSUME size = 0, q >= 1 PROVE FALSE
    BY <1>2
  <2>1. q * BlockWords >= BlockWords
    BY <1>0, <1>2
  <2> QED BY <1>0, <1>3, <2>1
<1>5. size > 0 => q >= 1
  <2> SUFFICES ASSUME size > 0, q = 0 PROVE FALSE
    BY <1>2
  <2> QED BY <1>0, <1>3
<1>6. size <= BlockWords => q <= 1
  <2> SUFFICES ASSUME size <= BlockWords, q >= 2 PROVE FALSE
    BY <1>2
  <2>1. q * BlockWords >= 2 * BlockWords
    BY <1>0, <1>2
  <2> QED BY <1>0, <1>3, <2>1
<1>7. size > BlockWords => q >= 2
  <2> SUFFICES ASSUME size > BlockWords, q <= 1 PROVE FALSE
    BY <1>2
  <2>1. q * BlockWords <= BlockWords
    <3>1. q = 0 \/ q = 1
      BY <1>2
    <3> QED BY <1>0, <3>1
  <2> QED BY <1>0, <1>3, <2>1
<1> QED BY <1>1, <1>2, <1>3, <1>4, <1>5, <1>6, <1>7

(* A position within n blocks is in the first, or in one of the others.    *)
LEMMA PositionIs ==
  ASSUME NEW n \in Nat, NEW o \in Nat, o < n * BlockWords
  PROVE  /\ o \div BlockWords \in 0 .. n - 1
         /\ o < BlockWords <=> o \div BlockWords = 0
<1>0. BlockWords \in Nat /\ BlockWords >= 1 /\ n * BlockWords \in Nat
  BY DiskIs
<1> DEFINE q == o \div BlockWords
           r == o % BlockWords
<1>1. q \in Nat /\ r \in 0 .. BlockWords - 1 /\ o = (q * BlockWords) + r
  BY DivMod
<1> HIDE DEF q, r
<1>2. q * BlockWords \in Nat
  BY <1>0, <1>1
<1>3. q < n
  <2> SUFFICES ASSUME q >= n PROVE FALSE
    BY <1>1
  <2>1. q * BlockWords >= n * BlockWords
    BY <1>0, <1>1
  <2> QED BY <1>0, <1>1, <1>2, <2>1
<1>4. q >= 1 => o >= BlockWords
  <2> SUFFICES ASSUME q >= 1 PROVE q * BlockWords >= BlockWords
    BY <1>0, <1>1, <1>2
  <2> QED BY <1>0, <1>1
<1>5. q = 0 => o < BlockWords
  BY <1>0, <1>1
<1>6. q \in 0 .. n - 1
  BY <1>1, <1>3
<1> QED BY <1>0, <1>1, <1>4, <1>5, <1>6 DEF q

-----------------------------------------------------------------------------
(* What a truncation does, of a file whose header is h on a disk d: e and  *)
(* the header new.  Tight' is what holds of the files when it is done.     *)
Free(d) == Blocks \ d.bitmap
NoPointers(words) ==
  \A k \in 1 .. BlockWords : WordIn(words, 0, k) \notin (-1 .. BlockCount - 1) \ {0}
ListOf(d, h) == GetBfIp(d.words, AsInt(h.indirect))
Resizable(d, h, size) ==
  /\ d \in Disks /\ d.ok
  /\ \A b \in Free(d), k \in 1 .. BlockWords : Careful \/ b # 0 => WordIn(d.words, b, k) = 0
  /\ NoPointers(d.words)
  /\ Sound(d.words, h) /\ (Tight' => Exact(d.words, h))
  /\ Own(d.words, h) \subseteq d.bitmap
  /\ size \in Nat /\ BlocksFor(size) <= BlockWords + 1
  /\ ~Careful => size >= h.size
  /\ size # h.size /\ size > BlockWords =>
       ~ZeroListed(d, h, size) /\ (Tight' => ~UnsetRead(d, h))

Resized(d, h, size, e, new) ==
  LET Mine == Own(d.words, h) \cup Free(d) IN
  /\ e \in Disks /\ new.size = size /\ Sound(e.words, new) /\ (Tight' => Exact(e.words, new))
  /\ Own(e.words, new) \subseteq Mine \cap e.bitmap
  /\ \A b \in Blocks \ Mine :
       b \in e.bitmap /\ \A k \in 1 .. BlockWords : WordIn(e.words, b, k) = WordIn(d.words, b, k)
  /\ Careful => e.bitmap \cap Mine \subseteq Own(e.words, new)
  /\ \A b \in Free(e), k \in 1 .. BlockWords : Careful \/ b # 0 => WordIn(e.words, b, k) = 0
  /\ NoPointers(e.words)
  /\ ~Careful => Sound(e.words, h) /\ Own(e.words, h) \subseteq Mine \cap e.bitmap
  /\ Careful => \A o \in Nat :
       LET b == BlockAt(d.words, h, o) IN
       /\ o < BlocksFor(h.size) * BlockWords /\ o < BlocksFor(size) * BlockWords
       /\ b \in Blocks /\ Held(d.words, h, o)
       => /\ BlockAt(e.words, new, o) = b /\ Held(e.words, new, o)
          /\ \A k \in 1 .. BlockWords : WordIn(e.words, b, k) = WordIn(d.words, b, k)

(* What ToManyBlocks does: the blocks T of the pointer block went back,    *)
(* the pointer block ib has now n pointers.                                *)
Kept(d, h, e, k) ==
  h.indirect \in Blocks /\ WordIn(d.words, h.indirect, k) = WordIn(e.words, h.indirect, k)
Relinked(d, h, size, e, db, ib, n, T) ==
  /\ e \in Disks /\ db \in Blocks \cup {-1} /\ ib \in Blocks \cup {-1}
  /\ IF h.direct = Empty THEN db \in Free(d) \cup {-1} ELSE db = h.direct
  /\ IF h.indirect = Empty THEN ib \in Free(d) \cup {-1} ELSE ib = h.indirect
  /\ db \in Blocks => db # ib
  /\ ib # 0 /\ n \in 0 .. BlockWords
  /\ \A b \in T : /\ h.indirect \in Blocks /\ b \in Blocks \ {0}
                  /\ \E k \in 1 .. BlockWords : WordIn(d.words, h.indirect, k) = b
  /\ \A c \in Blocks \ {ib}, k \in 1 .. BlockWords :
       WordIn(e.words, c, k) = IF c \in T THEN 0 ELSE WordIn(d.words, c, k)
  /\ ib \in Blocks =>
       /\ Packed(e.words, ib, n)
       /\ \A k \in 1 .. n : LET x == WordIn(e.words, ib, k) IN
            x \in Blocks => \/ Kept(d, h, e, k) /\ x \notin T
                            \/ x \in Free(d) \ {db, ib}
       /\ \A k, j \in 1 .. n :
            WordIn(e.words, ib, k) = WordIn(e.words, ib, j) /\ WordIn(e.words, ib, k) \in Blocks =>
              k = j
       /\ h.indirect \in Blocks => \A k \in 1 .. BlockWords :
            LET x == WordIn(d.words, h.indirect, k) IN
            /\ k <= n /\ x # 0 => WordIn(e.words, ib, k) = x
            /\ k > n /\ x \in Blocks \ {0} => x \in T
  /\ Tight' \/ h.indirect # Empty => ib \in Blocks /\ n = BlocksFor(size) - 1
  /\ e.bitmap = (d.bitmap \ T) \cup
       {b \in Free(d) : \/ b = db \/ b = ib
                        \/ ib \in Blocks /\ \E k \in 1 .. n : WordIn(e.words, ib, k) = b}

LEMMA RelinkedIsResized ==
  ASSUME NEW d, NEW h, NEW size, Resizable(d, h, size), size > BlockWords,
         NEW e, NEW db, NEW ib, NEW n, NEW T, Relinked(d, h, size, e, db, ib, n, T)
  PROVE  Resized(d, h, size, e, [size |-> size, direct |-> db, indirect |-> ib])
<1> DEFINE new == [size |-> size, direct |-> db, indirect |-> ib]
           Mine == Own(d.words, h) \cup Free(d)
<1>0. /\ BlockWords \in Nat /\ BlockWords >= 1 /\ 0 \in Blocks /\ Blocks \subseteq Nat
      /\ -1 \notin Blocks /\ Empty \notin Blocks /\ Empty # -1
  BY DiskIs
<1>1. new.size = size /\ new.direct = db /\ new.indirect = ib
  OBVIOUS
<1>2. /\ e \in Disks /\ db \in Blocks \cup {-1} /\ ib \in Blocks \cup {-1}
      /\ (IF h.direct = Empty THEN db \in Free(d) \cup {-1} ELSE db = h.direct)
      /\ (IF h.indirect = Empty THEN ib \in Free(d) \cup {-1} ELSE ib = h.indirect)
      /\ db \in Blocks => db # ib
      /\ ib # 0 /\ n \in 0 .. BlockWords
  BY DEF Relinked
<1>3. /\ d \in Disks /\ size \in Nat /\ BlocksFor(size) <= BlockWords + 1
      /\ Own(d.words, h) \subseteq d.bitmap /\ Distinct(d.words, h)
      /\ h \in Headers /\ h.size \in Nat /\ (h.direct = Empty <=> h.size = 0)
      /\ (h.indirect = Empty <=> h.size <= BlockWords) /\ h.indirect # 0
      /\ BlocksFor(h.size) <= BlockWords + 1
  BY DEF Resizable, Sound, Headers
<1> HIDE DEF new
<1>4. T \subseteq Own(d.words, h) /\ T \subseteq Blocks \ {0} /\ db \notin T /\ ib \notin T
  <2>1. ASSUME NEW b \in T
        PROVE  b \in Own(d.words, h) /\ b \in Blocks \ {0} /\ b # db /\ b # ib
    <3>1. /\ h.indirect \in Blocks /\ b \in Blocks \ {0}
          /\ \E k \in 1 .. BlockWords : WordIn(d.words, h.indirect, k) = b
      BY DEF Relinked
    <3>2. b \in Own(d.words, h)
      BY <3>1 DEF Own, Named
    <3>3. b # h.direct /\ b # h.indirect
      BY <1>3, <3>1 DEF Distinct
    <3>4. b \in d.bitmap
      BY <1>3, <3>2
    <3> QED BY <1>0, <1>2, <3>1, <3>2, <3>3, <3>4 DEF Free
  <2> QED BY <2>1
<1>5. /\ db \in Blocks => db \in Mine
      /\ ib \in Blocks => ib \in Mine
  <2>1. h.direct \in Blocks => h.direct \in Own(d.words, h)
    BY DEF Own, Named
  <2>2. h.indirect \in Blocks => h.indirect \in Own(d.words, h)
    BY DEF Own, Named
  <2> QED BY <1>0, <1>2, <2>1, <2>2
<1>6. ASSUME ib \in Blocks
      PROVE  /\ Packed(e.words, ib, n)
             /\ \A k \in 1 .. n : LET x == WordIn(e.words, ib, k) IN
                  x \in Blocks => \/ Kept(d, h, e, k) /\ x \notin T
                                  \/ x \in Free(d) \ {db, ib}
             /\ \A k, j \in 1 .. n :
                  WordIn(e.words, ib, k) = WordIn(e.words, ib, j)
                  /\ WordIn(e.words, ib, k) \in Blocks => k = j
             /\ h.indirect \in Blocks => \A k \in 1 .. BlockWords :
                  LET x == WordIn(d.words, h.indirect, k) IN
                  /\ k <= n /\ x # 0 => WordIn(e.words, ib, k) = x
                  /\ k > n /\ x \in Blocks \ {0} => x \in T
  BY <1>6 DEF Relinked
<1>7. ASSUME ib \in Blocks, NEW k \in 1 .. BlockWords, WordIn(e.words, ib, k) \in Blocks \ {0}
      PROVE  /\ k \in 1 .. n
             /\ WordIn(e.words, ib, k) \in Mine \ T
             /\ WordIn(e.words, ib, k) # db /\ WordIn(e.words, ib, k) # ib
             /\ \A j \in 1 .. BlockWords : WordIn(e.words, ib, j) = WordIn(e.words, ib, k) => j = k
  <2> DEFINE x == WordIn(e.words, ib, k)
  <2>1. \A j \in 1 .. BlockWords : WordIn(e.words, ib, j) # 0 => j \in 1 .. n
    BY <1>2, <1>6, <1>7 DEF Packed
  <2>2. k \in 1 .. n
    BY <1>7, <2>1
  <2>3. \/ Kept(d, h, e, k) /\ x \notin T
        \/ x \in Free(d) \ {db, ib}
    BY <1>6, <1>7, <2>2
  <2>4. CASE Kept(d, h, e, k) /\ x \notin T
    <3>1. h.indirect = ib /\ WordIn(d.words, ib, k) = x
      BY <1>0, <1>2, <2>4 DEF Kept
    <3>2. x \in Own(d.words, h)
      BY <1>7, <3>1 DEF Own, Named
    <3>3. x # h.direct /\ x # h.indirect
      BY <1>3, <1>7, <3>1 DEF Distinct
    <3>4. x # db
      BY <1>2, <1>3, <1>7, <3>2, <3>3, <1>0 DEF Free
    <3> QED BY <1>6, <1>7, <2>1, <2>2, <2>4, <3>1, <3>2, <3>3, <3>4
  <2>5. CASE x \in Free(d) \ {db, ib}
    <3>1. x \notin T
      BY <1>3, <1>4, <2>5 DEF Free
    <3> QED BY <1>6, <1>7, <2>1, <2>2, <2>5, <3>1
  <2> QED BY <2>3, <2>4, <2>5
<1>8. \A c \in Blocks \ {ib}, k \in 1 .. BlockWords :
        WordIn(e.words, c, k) = IF c \in T THEN 0 ELSE WordIn(d.words, c, k)
  BY DEF Relinked
<1>9. /\ Tight' \/ h.indirect # Empty => ib \in Blocks /\ n = BlocksFor(size) - 1
      /\ e.bitmap = (d.bitmap \ T) \cup
           {b \in Free(d) : \/ b = db \/ b = ib
                            \/ ib \in Blocks /\ \E k \in 1 .. n : WordIn(e.words, ib, k) = b}
  BY DEF Relinked
<1>10. Distinct(e.words, new)
  BY <1>1, <1>2, <1>7 DEF Distinct
<1>11. Sound(e.words, new)
  <2>1. new \in Headers
    BY <1>2, <1>3 DEF new, Headers, Pointers
  <2> QED BY <1>0, <1>1, <1>2, <1>3, <1>6, <1>10, <2>1 DEF Sound
<1>12. Tight' => Exact(e.words, new)
  BY <1>1, <1>6, <1>9 DEF Exact
<1>13. Own(e.words, new) \subseteq Mine \cap e.bitmap
  <2> SUFFICES ASSUME NEW b \in Own(e.words, new) PROVE b \in Mine \cap e.bitmap
    OBVIOUS
  <2>0. b \in Blocks /\ Named(e.words, new, b)
    BY DEF Own
  <2>1. CASE b = db \/ b = ib
    <3>1. b \in Mine
      BY <1>5, <2>0, <2>1
    <3>2. b \notin T
      BY <1>4, <2>1
    <3>3. b \in e.bitmap
      BY <1>3, <1>9, <2>0, <2>1, <3>1, <3>2
    <3> QED BY <3>1, <3>3
  <2>2. CASE ib \in Blocks /\ \E k \in 1 .. BlockWords : WordIn(e.words, ib, k) = b /\ b # 0
    <3>1. PICK k \in 1 .. BlockWords : WordIn(e.words, ib, k) = b /\ b # 0
      BY <2>2
    <3>2. k \in 1 .. n /\ b \in Mine \ T
      BY <1>7, <2>0, <2>2, <3>1
    <3>3. b \in e.bitmap
      BY <1>3, <1>9, <2>0, <2>2, <3>1, <3>2
    <3> QED BY <3>2, <3>3
  <2> QED BY <1>1, <2>0, <2>1, <2>2 DEF Named
<1>14. ASSUME NEW b \in Blocks \ Mine
       PROVE  b \in e.bitmap /\ \A k \in 1 .. BlockWords : WordIn(e.words, b, k) = WordIn(d.words, b, k)
  <2>1. b \in d.bitmap /\ b \notin T /\ b # ib
    BY <1>4, <1>5 DEF Free
  <2> QED BY <1>8, <1>9, <2>1
<1>15. Careful => e.bitmap \cap Mine \subseteq Own(e.words, new)
  <2> SUFFICES ASSUME Careful, NEW b \in e.bitmap, b \in Mine PROVE b \in Own(e.words, new)
    OBVIOUS
  <2>0. b \in Blocks
    BY <1>3 DEF Own, Free, Resizable
  <2>1. CASE b \in Free(d)
    <3>1. b \notin d.bitmap
      BY <2>1 DEF Free
    <3>2. b = db \/ b = ib \/ (ib \in Blocks /\ \E k \in 1 .. n : WordIn(e.words, ib, k) = b)
      BY <1>9, <3>1
    <3>3. \A k \in 1 .. n : k \in 1 .. BlockWords /\ k <= n
      BY <1>0, <1>2
    <3>4. ib \in Blocks => \A k \in 1 .. n : WordIn(e.words, ib, k) # 0
      BY <1>6, <3>3 DEF Packed
    <3> QED BY <1>1, <2>0, <3>2, <3>3, <3>4 DEF Own, Named
  <2>2. CASE b \in Own(d.words, h) /\ b \notin Free(d)
    <3>1. b \notin T
      BY <1>9, <2>2
    <3>2. CASE b = h.direct \/ b = h.indirect
      <4>1. b = db \/ b = ib
        BY <1>0, <1>2, <2>0, <3>2
      <4> QED BY <1>1, <2>0, <4>1 DEF Own, Named
    <3>3. CASE /\ h.indirect \in Blocks /\ b # 0
               /\ \E k \in 1 .. BlockWords : WordIn(d.words, h.indirect, k) = b
      <4>1. PICK k \in 1 .. BlockWords : WordIn(d.words, h.indirect, k) = b
        BY <3>3
      <4>0. ib \in Blocks
        BY <1>0, <1>2, <3>3
      <4>2. k <= n
        BY <1>0, <1>2, <1>6, <2>0, <3>1, <3>3, <4>0, <4>1
      <4>3. WordIn(e.words, ib, k) = b
        BY <1>6, <2>0, <3>3, <4>0, <4>1, <4>2
      <4> QED BY <1>1, <2>0, <3>3, <4>0, <4>3 DEF Own, Named
    <3> QED BY <2>2, <3>2, <3>3 DEF Own, Named
  <2> QED BY <2>1, <2>2
<1>16. ASSUME NEW b \in Free(e), NEW k \in 1 .. BlockWords, Careful \/ b # 0
       PROVE  WordIn(e.words, b, k) = 0
  <2>1. b \in Blocks /\ b \notin e.bitmap
    BY DEF Free
  <2>2. b # ib
    BY <1>1, <1>13, <2>1 DEF Own, Named
  <2>3. CASE b \in T
    BY <1>8, <2>1, <2>2, <2>3
  <2>4. CASE b \notin T
    <3>1. b \in Free(d)
      BY <1>9, <2>1, <2>4 DEF Free
    <3> QED BY <1>8, <1>16, <2>1, <2>2, <2>4, <3>1 DEF Resizable
  <2> QED BY <2>3, <2>4
<1>17. ~Careful => Sound(e.words, h) /\ Own(e.words, h) \subseteq Mine \cap e.bitmap
  <2>1. CASE h.indirect = Empty
    <3>1. Sound(e.words, h)
      BY <1>0, <1>3, <2>1 DEF Sound, Distinct
    <3>2. Own(e.words, h) \subseteq Own(e.words, new)
      BY <1>0, <1>1, <1>2, <2>1 DEF Own, Named
    <3> QED BY <1>13, <3>1, <3>2
  <2>2. CASE h.indirect # Empty
    <3>1. h.indirect = ib /\ h.direct = db
      BY <1>2, <1>3, <1>0, <2>2
    <3>2. Own(e.words, h) = Own(e.words, new)
      BY <1>1, <3>1 DEF Own, Named
    <3>3. Distinct(e.words, h)
      BY <1>1, <1>10, <3>1 DEF Distinct
    <3> QED BY <1>2, <1>3, <1>6, <1>13, <3>1, <3>2, <3>3 DEF Sound
  <2> QED BY <2>1, <2>2
<1>18. ASSUME NEW o \in Nat, o < BlocksFor(h.size) * BlockWords,
              o < BlocksFor(size) * BlockWords, BlockAt(d.words, h, o) \in Blocks,
              Held(d.words, h, o)
       PROVE  /\ BlockAt(e.words, new, o) = BlockAt(d.words, h, o) /\ Held(e.words, new, o)
              /\ \A k \in 1 .. BlockWords :
                   WordIn(e.words, BlockAt(d.words, h, o), k) = WordIn(d.words, BlockAt(d.words, h, o), k)
  <2>1. CASE o < BlockWords
    <3>1. BlockAt(d.words, h, o) = h.direct /\ BlockAt(e.words, new, o) = db /\ db = h.direct
      BY <1>0, <1>1, <1>2, <1>18, <2>1 DEF BlockAt
    <3>2. Held(e.words, new, o)
      BY <1>0, <2>1 DEF Held
    <3> QED BY <1>2, <1>4, <1>8, <1>18, <3>1, <3>2
  <2>2. CASE ~(o < BlockWords)
    <3> DEFINE q == o \div BlockWords
               x == WordIn(d.words, h.indirect, q)
    <3>1. BlocksFor(h.size) \in Nat /\ BlocksFor(size) \in Nat
      BY <1>3, BlocksForIs
    <3>2. q \in 0 .. BlocksFor(h.size) - 1 /\ q \in 0 .. BlocksFor(size) - 1 /\ q # 0
      BY <1>18, <2>2, <3>1, PositionIs
    <3>5. h.indirect \in Blocks /\ x # 0
      BY <1>0, <1>18, <2>2 DEF Held
    <3> HIDE DEF q
    <3>6. h.indirect = ib /\ n = BlocksFor(size) - 1
      BY <1>0, <1>2, <1>9, <3>5
    <3>3. q \in 1 .. n /\ q \in 1 .. BlockWords
      BY <1>0, <1>3, <3>1, <3>2, <3>6
    <3>7. BlockAt(d.words, h, o) = x /\ BlockAt(e.words, new, o) = WordIn(e.words, ib, q)
      BY <1>1, <2>2 DEF BlockAt, q
    <3>8. WordIn(e.words, ib, q) = x /\ ib \in Blocks
      BY <1>6, <3>3, <3>5, <3>6
    <3>9. x \in Blocks \ {0}
      BY <1>18, <3>5, <3>7
    <3>10. x \notin T /\ x # ib
      BY <1>7, <3>3, <3>5, <3>6, <3>8, <3>9
    <3>11. \A k \in 1 .. BlockWords : WordIn(e.words, x, k) = WordIn(d.words, x, k)
      BY <1>8, <3>9, <3>10
    <3>12. Held(e.words, new, o)
      BY <1>1, <3>5, <3>8 DEF Held, q
    <3> QED BY <3>7, <3>8, <3>11, <3>12
  <2> QED BY <2>1, <2>2
<1>19. NoPointers(e.words)
  <2> SUFFICES ASSUME NEW k \in 1 .. BlockWords
               PROVE  WordIn(e.words, 0, k) \notin (-1 .. BlockCount - 1) \ {0}
    BY DEF NoPointers
  <2>1. WordIn(e.words, 0, k) = 0 \/ WordIn(e.words, 0, k) = WordIn(d.words, 0, k)
    BY <1>0, <1>2, <1>8
  <2> QED BY <2>1 DEF Resizable, NoPointers
<1> QED BY <1>1, <1>2, <1>11, <1>12, <1>13, <1>14, <1>15, <1>16, <1>17, <1>18, <1>19
       DEF Resized, new

(* The list of a file whose pointer block is set, and of one without.      *)
LEMMA ListIs ==
  ASSUME NEW d, NEW h, NEW size, Resizable(d, h, size), AsInt(h.indirect) \in Blocks
  PROVE  /\ ListOf(d, h) \in Seq(Values) /\ Len(ListOf(d, h)) \in 0 .. BlockWords
         /\ h.indirect # Empty =>
              /\ h.indirect \in Blocks /\ Packed(d.words, h.indirect, Len(ListOf(d, h)))
              /\ \A k \in 1 .. Len(ListOf(d, h)) : ListOf(d, h)[k] = WordIn(d.words, h.indirect, k)
         /\ h.indirect = Empty =>
              /\ \A k \in 1 .. Len(ListOf(d, h)) : ListOf(d, h)[k] \notin Blocks \cup {-1}
              /\ Tight' /\ size # h.size /\ size > BlockWords => Len(ListOf(d, h)) = 0
<1>0. /\ d.words \in [Words -> Values] /\ 0 \in Blocks /\ Blocks = 0 .. BlockCount - 1
      /\ BlockCount \in Nat
  BY DiskIs DEF Resizable, Disks, Blocks
<1> DEFINE b == AsInt(h.indirect)
           l == GetBfIp(d.words, b)
<1>1. /\ l \in Seq(Values) /\ Len(l) \in 0 .. BlockWords
      /\ \A j \in 1 .. Len(l) :
           l[j] # 0 /\ \E k \in 1 .. BlockWords : l[j] = WordIn(d.words, b, k)
  BY <1>0, GetMembers
<1>2. ASSUME h.indirect # Empty
      PROVE  /\ h.indirect \in Blocks /\ Packed(d.words, h.indirect, Len(l))
             /\ \A k \in 1 .. Len(l) : l[k] = WordIn(d.words, h.indirect, k)
  <2>1. b = h.indirect
    BY <1>2 DEF AsInt
  <2>2. PICK n \in 0 .. BlockWords : Packed(d.words, b, n)
    BY <2>1 DEF Resizable, Sound
  <2>3. Len(l) = n /\ \A k \in 1 .. n : l[k] = WordIn(d.words, b, k)
    BY <1>0, <2>2, GetPacked
  <2> QED BY <2>1, <2>2, <2>3
<1>3. ASSUME h.indirect = Empty
      PROVE  /\ \A k \in 1 .. Len(l) : l[k] \notin Blocks \cup {-1}
             /\ Tight' /\ size # h.size /\ size > BlockWords => Len(l) = 0
  <2>1. b = 0
    BY <1>3 DEF AsInt
  <2>2. ASSUME NEW j \in 1 .. Len(l) PROVE l[j] \notin Blocks \cup {-1}
    <3>1. PICK k \in 1 .. BlockWords : l[j] = WordIn(d.words, 0, k) /\ l[j] # 0
      BY <1>1, <2>1
    <3>2. l[j] \notin (-1 .. BlockCount - 1) \ {0}
      BY <3>1 DEF Resizable, NoPointers
    <3> QED BY <1>0, <3>1, <3>2
  <2>3. Tight' /\ size # h.size /\ size > BlockWords => Len(l) = 0
    <3>1. Tight' /\ size # h.size /\ size > BlockWords => l = <<>>
      BY <1>3, <2>1 DEF Resizable, UnsetRead
    <3> QED BY <3>1
  <2> QED BY <2>2, <2>3
<1> QED BY <1>1, <1>2, <1>3 DEF ListOf

-----------------------------------------------------------------------------
(* A truncation that gives back the blocks T of the file and leaves its    *)
(* header with at most one: the first block db.                            *)
LEMMA ShrunkIsResized ==
  ASSUME NEW d, NEW h, NEW size, Resizable(d, h, size), size <= BlockWords, h.size # size,
         NEW e, NEW T, NEW db \in Pointers,
         Careful \/ h.indirect = Empty,
         e \in Disks,
         db = Empty <=> size = 0,
         h.direct # Empty /\ size > 0 => db = h.direct,
         h.direct = Empty => db \in Free(d) \cup {-1},
         T = Own(d.words, h) \ {db},
         size > 0 /\ h.indirect = Empty => T = {},
         \A c \in Blocks, k \in 1 .. BlockWords :
           WordIn(e.words, c, k) = IF c \in T THEN 0 ELSE WordIn(d.words, c, k),
         e.bitmap = (d.bitmap \ T) \cup {b \in Free(d) : b = db}
  PROVE  Resized(d, h, size, e, [size |-> size, direct |-> db, indirect |-> Empty])
<1> DEFINE new == [size |-> size, direct |-> db, indirect |-> Empty]
           Mine == Own(d.words, h) \cup Free(d)
<1>0. /\ BlockWords \in Nat /\ BlockWords >= 1 /\ 0 \in Blocks /\ Blocks \subseteq Nat
      /\ -1 \notin Blocks /\ Empty \notin Blocks /\ Empty # -1
  BY DiskIs
<1>1. new.size = size /\ new.direct = db /\ new.indirect = Empty
  OBVIOUS
<1>2. /\ d \in Disks /\ size \in Nat /\ BlocksFor(size) <= BlockWords + 1
      /\ Own(d.words, h) \subseteq d.bitmap /\ Distinct(d.words, h)
      /\ h \in Headers /\ h.size \in Nat /\ (h.direct = Empty <=> h.size = 0)
      /\ (h.indirect = Empty <=> h.size <= BlockWords) /\ h.indirect # 0
      /\ BlocksFor(h.size) <= BlockWords + 1 /\ (~Careful => size >= h.size)
  BY DEF Resizable, Sound, Headers
<1>3. new \in Headers
  BY <1>2 DEF Headers, Pointers
<1> HIDE DEF new
<1>4. Own(e.words, new) = {b \in Blocks : b = db}
  BY <1>0, <1>1 DEF Own, Named
<1>5. Sound(e.words, new) /\ (Tight' => Exact(e.words, new))
  BY <1>0, <1>1, <1>2, <1>3 DEF Sound, Exact, Distinct
<1>6. db \in Blocks => db \in Mine
  <2>1. h.direct \in Blocks => h.direct \in Own(d.words, h)
    BY DEF Own, Named
  <2> QED BY <1>0, <1>2, <2>1
<1>7. Own(e.words, new) \subseteq Mine \cap e.bitmap
  BY <1>2, <1>4, <1>6
<1>8. ASSUME NEW b \in Blocks \ Mine
      PROVE  b \in e.bitmap /\ \A k \in 1 .. BlockWords : WordIn(e.words, b, k) = WordIn(d.words, b, k)
  BY DEF Free
<1>9. e.bitmap \cap Mine \subseteq Own(e.words, new)
  BY <1>4 DEF Own, Free
<1>10. ASSUME NEW b \in Free(e), NEW k \in 1 .. BlockWords, Careful \/ b # 0
       PROVE  WordIn(e.words, b, k) = 0
  <2>1. b \in Blocks /\ b \notin e.bitmap
    BY DEF Free
  <2>2. CASE b \in T
    BY <2>1, <2>2
  <2>3. CASE b \notin T
    <3>1. b \in Free(d)
      BY <2>1, <2>3 DEF Free
    <3> QED BY <1>10, <2>1, <2>3, <3>1 DEF Resizable
  <2> QED BY <2>2, <2>3
<1>11. ~Careful => Sound(e.words, h) /\ Own(e.words, h) \subseteq Mine \cap e.bitmap
  <2> SUFFICES ASSUME ~Careful PROVE Sound(e.words, h) /\ Own(e.words, h) \subseteq Mine \cap e.bitmap
    OBVIOUS
  <2>1. h.indirect = Empty /\ size > 0 /\ T = {}
    BY <1>2
  <2>2. Own(e.words, h) = Own(d.words, h)
    BY <1>0, <2>1 DEF Own, Named
  <2>3. Sound(e.words, h)
    BY <1>0, <1>2, <2>1 DEF Sound, Distinct
  <2> QED BY <1>2, <2>1, <2>2, <2>3
<1>12. ASSUME NEW o \in Nat, o < BlocksFor(h.size) * BlockWords,
              o < BlocksFor(size) * BlockWords, BlockAt(d.words, h, o) \in Blocks
       PROVE  /\ BlockAt(e.words, new, o) = BlockAt(d.words, h, o) /\ Held(e.words, new, o)
              /\ \A k \in 1 .. BlockWords :
                   WordIn(e.words, BlockAt(d.words, h, o), k) = WordIn(d.words, BlockAt(d.words, h, o), k)
  <2>1. size > 0 /\ o < BlockWords
    <3>1. BlocksFor(size) = 0 \/ BlocksFor(size) = 1
      BY <1>2, BlocksForIs
    <3>2. size = 0 => BlocksFor(size) = 0
      BY BlocksForIs
    <3>3. BlocksFor(size) # 0
      BY <1>12, <1>0
    <3> QED BY <1>0, <1>2, <1>12, <3>1, <3>2, <3>3
  <2>2. BlockAt(d.words, h, o) = h.direct /\ BlockAt(e.words, new, o) = db
    BY <1>1, <2>1 DEF BlockAt
  <2>3. db = h.direct
    BY <1>0, <1>12, <2>1, <2>2
  <2>4. Held(e.words, new, o)
    BY <1>0, <2>1 DEF Held
  <2> QED BY <1>12, <2>2, <2>3, <2>4
<1>13. NoPointers(e.words)
  <2> SUFFICES ASSUME NEW k \in 1 .. BlockWords
               PROVE  WordIn(e.words, 0, k) \notin (-1 .. BlockCount - 1) \ {0}
    BY DEF NoPointers
  <2>1. WordIn(e.words, 0, k) = 0 \/ WordIn(e.words, 0, k) = WordIn(d.words, 0, k)
    BY <1>0
  <2> QED BY <2>1 DEF Resizable, NoPointers
<1> QED BY <1>1, <1>5, <1>7, <1>8, <1>9, <1>10, <1>11, <1>12, <1>13 DEF Resized, new

(* The blocks of a file with a pointer block, all of them on the disk.     *)
LEMMA OwnIs ==
  ASSUME NEW d, NEW h, NEW size, Resizable(d, h, size), h.indirect \in Blocks,
         ToSet(ListOf(d, h)) \subseteq Blocks
  PROVE  /\ Own(d.words, h) = ({h.direct} \cap Blocks) \cup ToSet(ListOf(d, h)) \cup {h.indirect}
         /\ h.direct \in Blocks => h.direct \notin ToSet(ListOf(d, h)) \cup {h.indirect}
<1> DEFINE l == ListOf(d, h)
           b == h.indirect
<1>0. b # Empty /\ AsInt(b) = b /\ BlockWords \in Nat
  BY DiskIs DEF AsInt
<1>1. /\ l \in Seq(Values) /\ Len(l) \in 0 .. BlockWords
      /\ Packed(d.words, b, Len(l))
      /\ \A k \in 1 .. Len(l) : l[k] = WordIn(d.words, b, k)
  BY <1>0, ListIs
<1> HIDE DEF l
<1>2. DOMAIN l = 1 .. Len(l)
  BY <1>1, LenProperties
<1>3. \A x : x \in ToSet(l) <=> \E k \in 1 .. BlockWords : WordIn(d.words, b, k) = x /\ x # 0
  <2>1. ASSUME NEW x \in ToSet(l)
        PROVE  \E k \in 1 .. BlockWords : WordIn(d.words, b, k) = x /\ x # 0
    <3>1. PICK k \in 1 .. Len(l) : l[k] = x
      BY <1>2 DEF ToSet
    <3>2. k \in 1 .. BlockWords /\ WordIn(d.words, b, k) = x /\ WordIn(d.words, b, k) # 0
      BY <1>0, <1>1, <3>1 DEF Packed
    <3> QED BY <3>2
  <2>2. ASSUME NEW k \in 1 .. BlockWords, WordIn(d.words, b, k) # 0
        PROVE  WordIn(d.words, b, k) \in ToSet(l)
    <3>1. k \in 1 .. Len(l)
      BY <1>1, <2>2 DEF Packed
    <3> QED BY <1>1, <1>2, <3>1 DEF ToSet
  <2> QED BY <2>1, <2>2
<1>4. Own(d.words, h) = ({h.direct} \cap Blocks) \cup ToSet(l) \cup {b}
  BY <1>3 DEF Own, Named, l
<1>5. h.direct \in Blocks => h.direct \notin ToSet(l) \cup {b}
  <2>1. Distinct(d.words, h)
    BY DEF Resizable, Sound
  <2> QED BY <1>3, <2>1 DEF Distinct
<1> QED BY <1>4, <1>5 DEF l

LEMMA NothingIsResized ==
  ASSUME NEW d, NEW h, Resizable(d, h, 0), h.size # 0, AsInt(h.indirect) \in Blocks,
         ToNothing(d, h, ListOf(d, h)).disk.ok
  PROVE  Resized(d, h, 0, ToNothing(d, h, ListOf(d, h)).disk,
                 [size |-> 0, direct |-> Empty, indirect |-> Empty])
<1> DEFINE l == ListOf(d, h)
           d1 == Freed(d, h.direct)
           e == ToNothing(d, h, l).disk
           T == Own(d.words, h)
<1>0. /\ d \in Disks /\ Careful /\ h.direct # Empty /\ h.indirect \in Pointers
      /\ Empty \notin Blocks /\ l \in Seq(Values)
  <2>1. Careful
    BY DEF Resizable, Sound, Headers
  <2> QED BY <2>1, DiskIs, ListIs DEF Resizable, Sound, Headers
<1>1. Wiped(d, d1, {h.direct}) /\ FreedIfSet(d, h.direct) = d1
  BY <1>0, FreedIs DEF FreedIfSet
<1>2. Wiped(d, e, T)
  <2>1. CASE h.indirect = Empty
    <3>1. e = d1
      BY <1>1, <2>1 DEF ToNothing
    <3>2. h.direct \in Blocks
      BY <1>1, <3>1 DEF Wiped
    <3>3. T = {h.direct}
      BY <1>0, <2>1, <3>2 DEF Own, Named
    <3> QED BY <1>1, <3>1, <3>3
  <2>2. CASE h.indirect # Empty
    <3> DEFINE d2 == AllFreed(d1, l)
    <3>0. d1 \in Disks
      BY <1>1 DEF Wiped
    <3>1. Wiped(d1, d2, ToSet(l))
      BY <1>0, <3>0, AllFreedIs
    <3>2. d2 \in Disks
      BY <3>1 DEF Wiped
    <3>3. e = Freed(d2, h.indirect)
      BY <1>1, <2>2 DEF ToNothing
    <3>4. Wiped(d2, e, {h.indirect})
      BY <3>2, <3>3, FreedIs
    <3> HIDE DEF d1, d2, e, l
    <3>5. Wiped(d, d2, {h.direct} \cup ToSet(l))
      BY <1>1, <3>1, WipedTwice
    <3>6. Wiped(d, e, ({h.direct} \cup ToSet(l)) \cup {h.indirect})
      BY <3>4, <3>5, WipedTwice
    <3>7. e.ok
      BY DEF e, l
    <3>8. ({h.direct} \cup ToSet(l)) \cup {h.indirect} \subseteq Blocks
      BY <3>6, <3>7 DEF Wiped
    <3>9. T = ({h.direct} \cap Blocks) \cup ToSet(l) \cup {h.indirect}
      BY <3>8, OwnIs DEF l
    <3>10. T = ({h.direct} \cup ToSet(l)) \cup {h.indirect}
      BY <3>8, <3>9
    <3> QED BY <3>6, <3>10
  <2> QED BY <2>1, <2>2
<1> HIDE DEF e, T
<1>3. e.ok
  BY DEF e
<1>4. /\ e \in Disks /\ e.bitmap = d.bitmap \ T
      /\ \A c \in Blocks, k \in 1 .. BlockWords :
           WordIn(e.words, c, k) = IF c \in T THEN 0 ELSE WordIn(d.words, c, k)
  BY <1>2, <1>3 DEF Wiped
<1>5. T = Own(d.words, h) \ {Empty} /\ {b \in Free(d) : b = Empty} = {}
  BY <1>0 DEF T, Own, Free
<1>6. BlockWords \in Nat /\ 0 <= BlockWords /\ Empty \in Pointers
  BY DiskIs DEF Pointers
<1>7. e.bitmap = (d.bitmap \ T) \cup {b \in Free(d) : b = Empty}
  BY <1>4, <1>5
<1>8. ASSUME NEW size, size = 0, NEW db, db = Empty
      PROVE  Resized(d, h, size, e, [size |-> size, direct |-> db, indirect |-> Empty])
  <2>1. /\ Resizable(d, h, size) /\ h.size # size /\ size <= BlockWords /\ ~(size > 0)
        /\ db \in Pointers /\ (db = Empty <=> size = 0) /\ T = Own(d.words, h) \ {db}
        /\ e.bitmap = (d.bitmap \ T) \cup {b \in Free(d) : b = db}
    BY <1>5, <1>6, <1>7, <1>8
  <2>2. /\ Careful \/ h.indirect = Empty
        /\ h.direct # Empty /\ size > 0 => db = h.direct
        /\ h.direct = Empty => db \in Free(d) \cup {-1}
        /\ size > 0 /\ h.indirect = Empty => T = {}
    BY <1>0, <2>1
  <2> QED BY <1>4, <2>1, <2>2, ShrunkIsResized
<1> QED BY <1>8 DEF e

LEMMA OneIsResized ==
  ASSUME NEW d, NEW h, NEW size, Resizable(d, h, size), h.size # size,
         size > 0, size <= BlockWords, AsInt(h.indirect) \in Blocks,
         NEW r, r = ToOneBlock(d, h, ListOf(d, h)), r.disk.ok
  PROVE  Resized(d, h, size, r.disk, [size |-> size, direct |-> r.direct, indirect |-> r.indirect])
<1> DEFINE l == ListOf(d, h)
           a == Allocated(d, h.direct)
           d1 == a.disk
           db == a.block
           e == r.disk
           T == Own(d.words, h) \ {db}
<1>0. /\ d \in Disks /\ h.direct \in Pointers /\ h.indirect \in Pointers /\ size \in Nat
      /\ Empty \notin Blocks /\ Empty # -1 /\ l \in Seq(Values) /\ BlockWords \in Nat
      /\ h.size \in Nat /\ (h.direct = Empty <=> h.size = 0)
      /\ (h.indirect = Empty <=> h.size <= BlockWords)
      /\ Own(d.words, h) \subseteq d.bitmap /\ (~Careful => size >= h.size)
  BY DiskIs, ListIs DEF Resizable, Sound, Headers
<1>1. /\ h.direct # Empty => db = h.direct
      /\ h.direct = Empty => db \in Free(d) \cup {-1}
      /\ db \in Blocks \cup {-1}
      /\ Taken(d, d1, IF h.direct = Empty THEN {db} \cap Blocks ELSE {})
  BY <1>0, AllocatedIs DEF Free
<1>2. r.direct = db /\ r.indirect = Empty
  BY DEF ToOneBlock
<1>3. e = IF h.indirect = Empty THEN d1 ELSE PointersFreed(d1, h, l)
  BY DEF ToOneBlock
<1> HIDE DEF a, d1, db, e, l
<1>4. d1 \in Disks /\ d1.words = d.words /\ d1.bitmap = d.bitmap \cup {b \in Free(d) : b = db}
  <2>1. h.direct # Empty => {b \in Free(d) : b = db} = {}
    <3>1. h.direct \in Blocks => h.direct \in Own(d.words, h)
      BY DEF Own, Named
    <3> QED BY <1>0, <1>1, <3>1 DEF Free
  <2>2. h.direct = Empty => {b \in Free(d) : b = db} = {db} \cap Blocks
    BY <1>1, DiskIs DEF Free
  <2> QED BY <1>1, <2>1, <2>2 DEF Taken
<1>5. h.indirect = Empty => T = {}
  <2> SUFFICES ASSUME h.indirect = Empty, NEW b \in Own(d.words, h) PROVE b = db
    OBVIOUS
  <2> QED BY <1>0, <1>1 DEF Own, Named
<1>6. Wiped(d1, e, T)
  <2>1. CASE h.indirect = Empty
    <3>1. e = d1 /\ T = {}
      BY <1>3, <1>5, <2>1
    <3> HIDE DEF T
    <3> QED BY <1>4, <3>1 DEF Wiped
  <2>2. CASE h.indirect # Empty
    <3> DEFINE d2 == AllFreed(d1, l)
    <3>1. Wiped(d1, d2, ToSet(l))
      BY <1>0, <1>4, AllFreedIs
    <3>2. d2 \in Disks
      BY <3>1 DEF Wiped
    <3>3. e = Freed(d2, h.indirect)
      BY <1>3, <2>2 DEF PointersFreed
    <3>4. Wiped(d2, e, {h.indirect})
      BY <3>2, <3>3, FreedIs
    <3> HIDE DEF d2
    <3>5. Wiped(d1, e, ToSet(l) \cup {h.indirect})
      BY <3>1, <3>4, WipedTwice
    <3>6. e.ok
      BY DEF e
    <3>7. ToSet(l) \cup {h.indirect} \subseteq Blocks
      BY <3>5, <3>6 DEF Wiped
    <3>8. /\ Own(d.words, h) = ({h.direct} \cap Blocks) \cup ToSet(l) \cup {h.indirect}
          /\ h.direct \in Blocks => h.direct \notin ToSet(l) \cup {h.indirect}
      BY <3>7, OwnIs DEF l
    <3>9. db = h.direct
      BY <1>0, <1>1, <2>2
    <3>10. T = ToSet(l) \cup {h.indirect}
      BY <3>7, <3>8, <3>9
    <3> QED BY <3>5, <3>10
  <2> QED BY <2>1, <2>2
<1>7. e.ok
  BY DEF e
<1>8. /\ e \in Disks /\ e.bitmap = d1.bitmap \ T
      /\ \A c \in Blocks, k \in 1 .. BlockWords :
           WordIn(e.words, c, k) = IF c \in T THEN 0 ELSE WordIn(d.words, c, k)
  BY <1>4, <1>6, <1>7 DEF Wiped
<1>9. e.bitmap = (d.bitmap \ T) \cup {b \in Free(d) : b = db}
  BY <1>4, <1>8
<1>10. Careful \/ h.indirect = Empty
  BY <1>0
<1>11. db \in Pointers /\ (db = Empty <=> size = 0)
  BY <1>0, <1>1 DEF Pointers
<1>12. Resized(d, h, size, e, [size |-> size, direct |-> db, indirect |-> Empty])
  <2>1. /\ Resizable(d, h, size) /\ size <= BlockWords /\ h.size # size
        /\ T = Own(d.words, h) \ {db}
        /\ h.direct # Empty /\ size > 0 => db = h.direct
        /\ size > 0 /\ h.indirect = Empty => T = {}
    BY <1>1, <1>5
  <2> HIDE DEF T
  <2> QED BY <1>1, <1>8, <1>9, <1>10, <1>11, <2>1, ShrunkIsResized
<1> QED BY <1>2, <1>12 DEF e

(* The blocks at the end of a list, in the order they go back.             *)
LEMMA LastReversed ==
  ASSUME NEW S, NEW l \in Seq(S), NEW n \in Nat, n < Len(l),
         NEW t, t = Reverse(SubSeq(l, n + 1, Len(l)))
  PROVE  t \in Seq(S) /\ \A x : x \in ToSet(t) <=> \E k \in n + 1 .. Len(l) : l[k] = x
<1> DEFINE s == SubSeq(l, n + 1, Len(l))
           m == Len(l) - n
<1>0. Len(l) \in Nat /\ m \in Nat /\ m > 0
  BY LenProperties
<1>1. /\ s \in Seq(S) /\ Len(s) = m
      /\ \A i \in 1 .. m : s[i] = l[n + i] /\ s[i] \in S
  <2>1. \A i \in n + 1 .. Len(l) : l[i] \in S
    BY ElementOfSeq
  <2>2. s \in Seq(S) /\ Len(s) = m
    BY <1>0, <2>1, SubSeqProperties
  <2>3. \A i \in 1 .. m : s[i] = l[n + i]
    BY <1>0, <2>1, SubSeqProperties
  <2>4. \A i \in 1 .. m : s[i] \in S
    BY <2>2, ElementOfSeq
  <2> QED BY <2>2, <2>3, <2>4
<1> HIDE DEF s
<1>2. t = [i \in 1 .. m |-> s[(m - i) + 1]]
  BY <1>1 DEF Reverse, s
<1>3. \A i \in 1 .. m : (m - i) + 1 \in 1 .. m /\ (m - ((m - i) + 1)) + 1 = i
  BY <1>0
<1>4. t \in Seq(S) /\ DOMAIN t = 1 .. m
  <2>1. \A i \in 1 .. m : s[(m - i) + 1] \in S
    BY <1>1, <1>3
  <2> HIDE DEF m
  <2>2. t \in [1 .. m -> S]
    BY <1>2, <2>1
  <2> QED BY <1>0, <2>2, IsASeq
<1>5. ASSUME NEW x \in ToSet(t) PROVE \E k \in n + 1 .. Len(l) : l[k] = x
  <2>1. PICK i \in 1 .. m : x = s[(m - i) + 1]
    BY <1>2, <1>4, <1>5 DEF ToSet
  <2>2. x = l[n + ((m - i) + 1)]
    BY <1>1, <1>3, <2>1
  <2>3. n + ((m - i) + 1) \in n + 1 .. Len(l)
    BY <1>0, <1>3
  <2> QED BY <2>2, <2>3
<1>6. ASSUME NEW k \in n + 1 .. Len(l) PROVE l[k] \in ToSet(t)
  <2> DEFINE j == k - n
             i == (m - j) + 1
  <2>1. j \in 1 .. m /\ n + j = k
    BY <1>0
  <2>2. i \in 1 .. m /\ (m - i) + 1 = j
    BY <1>3, <2>1
  <2> HIDE DEF i, j
  <2>3. t[i] = l[k]
    BY <1>1, <1>2, <2>1, <2>2
  <2> QED BY <1>4, <2>2, <2>3 DEF ToSet
<1> QED BY <1>4, <1>5, <1>6

(* The first two steps of ToManyBlocks.                                    *)
LEMMA TwoAllocated ==
  ASSUME NEW d, NEW h, NEW size, Resizable(d, h, size), h.size # size, size > BlockWords,
         NEW a, a = Allocated(d, h.direct), NEW c, c = Allocated(a.disk, h.indirect)
  PROVE  /\ a.block \in Blocks \cup {-1} /\ c.block \in Blocks \cup {-1}
         /\ IF h.direct = Empty THEN a.block \in Free(d) \cup {-1} ELSE a.block = h.direct
         /\ IF h.indirect = Empty THEN c.block \in Free(d) \cup {-1} ELSE c.block = h.indirect
         /\ a.block \in Blocks => a.block # c.block
         /\ c.block # 0
         /\ \/ 0 \in c.disk.bitmap
            \/ h.indirect # Empty /\ ~(CountPiNeed(size) > Len(ListOf(d, h)))
         /\ c.disk \in Disks /\ c.disk.words = d.words /\ c.disk.ok = d.ok
         /\ c.disk.bitmap = d.bitmap \cup {b \in Free(d) : b = a.block \/ b = c.block}
<1>0. /\ d \in Disks /\ h.direct \in Pointers /\ h.indirect \in Pointers
      /\ BlockWords \in Nat /\ h.size \in Nat /\ (h.direct = Empty <=> h.size = 0)
      /\ (h.indirect = Empty <=> h.size <= BlockWords) /\ h.indirect # 0 /\ 0 \in Blocks
      /\ Own(d.words, h) \subseteq d.bitmap /\ Distinct(d.words, h) /\ -1 \notin Blocks
  BY DiskIs DEF Resizable, Sound, Headers
<1>1. /\ h.direct # Empty => a.block = h.direct
      /\ h.direct = Empty => a.block \in Free(d) \cup {-1}
      /\ a.block \in Blocks \cup {-1}
      /\ Taken(d, a.disk, IF h.direct = Empty THEN {a.block} \cap Blocks ELSE {})
      /\ h.direct = Empty => 0 \in a.disk.bitmap
  BY <1>0, AllocatedIs DEF Free
<1>2. /\ h.indirect # Empty => c.block = h.indirect
      /\ h.indirect = Empty => c.block \in Free(a.disk) \cup {-1}
      /\ c.block \in Blocks \cup {-1}
      /\ Taken(a.disk, c.disk, IF h.indirect = Empty THEN {c.block} \cap Blocks ELSE {})
      /\ h.indirect = Empty => 0 \in c.disk.bitmap
  <2>1. a.disk \in Disks
    BY <1>1 DEF Taken
  <2> QED BY <1>0, <2>1, AllocatedIs DEF Free
<1>3. /\ h.direct \in Blocks => h.direct \in d.bitmap
      /\ h.indirect \in Blocks => h.indirect \in d.bitmap
  BY <1>0 DEF Own, Named
<1>4. a.disk.bitmap = d.bitmap \cup {b \in Free(d) : b = a.block}
  BY <1>0, <1>1, <1>3 DEF Taken, Free
<1>5. c.disk.bitmap = a.disk.bitmap \cup {b \in Free(a.disk) : b = c.block}
  BY <1>0, <1>2, <1>3, <1>4 DEF Taken, Free
<1>6. c.disk.bitmap = d.bitmap \cup {b \in Free(d) : b = a.block \/ b = c.block}
  BY <1>4, <1>5 DEF Free
<1>7. c.disk \in Disks /\ c.disk.words = d.words /\ c.disk.ok = d.ok
  BY <1>1, <1>2 DEF Taken
<1>8. h.indirect = Empty => c.block \in Free(d) \cup {-1}
  BY <1>2, <1>4 DEF Free
<1>9. a.block \in Blocks => a.block # c.block
  <2> SUFFICES ASSUME a.block \in Blocks, a.block = c.block PROVE FALSE
    OBVIOUS
  <2>1. CASE h.indirect = Empty
    <3>1. c.block \in Free(a.disk) /\ c.block \notin a.disk.bitmap
      BY <1>0, <1>2, <2>1 DEF Free
    <3>2. a.block \in a.disk.bitmap
      BY <1>1, <1>3, <1>4 DEF Free
    <3> QED BY <3>1, <3>2
  <2>2. CASE h.indirect # Empty
    <3>1. h.direct # Empty
      BY <1>0, <2>2
    <3>2. h.direct \in Blocks /\ h.direct = h.indirect
      BY <1>1, <1>2, <2>2, <3>1
    <3> QED BY <1>0, <3>2 DEF Distinct
  <2> QED BY <2>1, <2>2
<1>10. d.bitmap \subseteq a.disk.bitmap /\ a.disk.bitmap \subseteq c.disk.bitmap
  BY <1>4, <1>5
<1>11. CASE h.indirect = Empty
  <2>1. 0 \in a.disk.bitmap
    <3>1. CASE h.direct = Empty
      BY <1>1, <3>1
    <3>2. CASE h.direct # Empty
      <4>1. 0 \in d.bitmap
        BY <1>0, <1>11, <3>2 DEF Resizable, ZeroListed, FreeBlocks
      <4> QED BY <1>10, <4>1
    <3> QED BY <3>1, <3>2
  <2>2. c.block # 0
    BY <1>0, <1>2, <1>11, <2>1 DEF Free
  <2> QED BY <1>1, <1>2, <1>6, <1>7, <1>8, <1>9, <1>11, <2>2
<1>12. CASE h.indirect # Empty
  <2>1. h.direct # Empty
    BY <1>0, <1>12
  <2>2. 0 \in d.bitmap \/ ~(CountPiNeed(size) > Len(GetBfIp(d.words, h.indirect)))
    BY <1>0, <2>1 DEF Resizable, ZeroListed, FreeBlocks
  <2>3. ListOf(d, h) = GetBfIp(d.words, h.indirect)
    BY <1>12 DEF ListOf, AsInt
  <2>4. c.block # 0
    BY <1>0, <1>2, <1>12
  <2> QED BY <1>1, <1>2, <1>6, <1>7, <1>9, <1>10, <1>12, <2>2, <2>3, <2>4
<1> QED BY <1>11, <1>12

(* The three outcomes of ToManyBlocks, from the disk d2 after those steps. *)
Prepared(d, h, size, d2, db, ib) ==
  /\ Resizable(d, h, size) /\ h.size # size /\ size > BlockWords
  /\ AsInt(h.indirect) \in Blocks
  /\ db \in Blocks \cup {-1} /\ ib \in Blocks \cup {-1}
  /\ IF h.direct = Empty THEN db \in Free(d) \cup {-1} ELSE db = h.direct
  /\ IF h.indirect = Empty THEN ib \in Free(d) \cup {-1} ELSE ib = h.indirect
  /\ db \in Blocks => db # ib
  /\ ib # 0
  /\ \/ 0 \in d2.bitmap
     \/ h.indirect # Empty /\ ~(CountPiNeed(size) > Len(ListOf(d, h)))
  /\ d2 \in Disks /\ d2.words = d.words /\ d2.ok = d.ok
  /\ d2.bitmap = d.bitmap \cup {b \in Free(d) : b = db \/ b = ib}

LEMMA PreparedIs ==
  ASSUME NEW d, NEW h, NEW size, NEW d2, NEW db, NEW ib, Prepared(d, h, size, d2, db, ib),
         NEW l, l = ListOf(d, h)
  PROVE  /\ l \in Seq(Values) /\ Len(l) \in 0 .. BlockWords
         /\ \A k \in 1 .. Len(l) : l[k] # 0
         /\ h.indirect # Empty =>
              /\ h.indirect \in Blocks /\ h.indirect = ib /\ db = h.direct
              /\ ib \in Own(d.words, h) /\ (db \in Blocks => db \in Own(d.words, h))
              /\ Packed(d.words, ib, Len(l))
              /\ \A k \in 1 .. Len(l) : l[k] = WordIn(d.words, ib, k)
              /\ \A k \in Len(l) + 1 .. BlockWords : WordIn(d.words, ib, k) = 0
              /\ \A k \in 1 .. Len(l) : l[k] \in Blocks =>
                   /\ l[k] \in Own(d.words, h) /\ l[k] # db /\ l[k] # ib
                   /\ \A j \in 1 .. Len(l) : l[j] = l[k] => j = k
         /\ h.indirect = Empty =>
              /\ \A k \in 1 .. Len(l) : l[k] \notin Blocks \cup {-1}
              /\ Tight' => Len(l) = 0
              /\ ib \in Blocks => \A k \in 1 .. BlockWords : WordIn(d.words, ib, k) = 0
         /\ Own(d.words, h) \subseteq d.bitmap /\ ib # 0
         /\ BlocksFor(size) - 1 \in 1 .. BlockWords
         /\ d \in Disks
<1>0. /\ Resizable(d, h, size) /\ AsInt(h.indirect) \in Blocks
      /\ (IF h.direct = Empty THEN db \in Free(d) \cup {-1} ELSE db = h.direct)
      /\ (IF h.indirect = Empty THEN ib \in Free(d) \cup {-1} ELSE ib = h.indirect)
      /\ size > BlockWords /\ h.size # size /\ ib # 0
  BY DEF Prepared
<1>1. /\ l \in Seq(Values) /\ Len(l) \in 0 .. BlockWords
      /\ h.indirect # Empty =>
           /\ h.indirect \in Blocks /\ Packed(d.words, h.indirect, Len(l))
           /\ \A k \in 1 .. Len(l) : l[k] = WordIn(d.words, h.indirect, k)
      /\ h.indirect = Empty =>
           /\ \A k \in 1 .. Len(l) : l[k] \notin Blocks \cup {-1}
           /\ Tight' => Len(l) = 0
  BY <1>0, ListIs
<1>2. /\ d \in Disks /\ BlockWords \in Nat /\ size \in Nat /\ 0 \in Blocks /\ -1 \notin Blocks
      /\ h.size \in Nat /\ (h.direct = Empty <=> h.size = 0)
      /\ (h.indirect = Empty <=> h.size <= BlockWords)
      /\ Distinct(d.words, h) /\ BlocksFor(size) <= BlockWords + 1
      /\ Own(d.words, h) \subseteq d.bitmap
  BY <1>0, DiskIs DEF Resizable, Sound, Headers
<1>3. BlocksFor(size) - 1 \in 1 .. BlockWords
  <2>1. BlocksFor(size) \in Nat /\ BlocksFor(size) >= 2
    BY <1>0, <1>2, BlocksForIs
  <2> QED BY <1>2, <2>1
<1>4. ASSUME h.indirect # Empty
      PROVE  /\ h.indirect \in Blocks /\ h.indirect = ib /\ db = h.direct
             /\ ib \in Own(d.words, h) /\ (db \in Blocks => db \in Own(d.words, h))
             /\ Packed(d.words, ib, Len(l))
             /\ \A k \in 1 .. Len(l) : l[k] = WordIn(d.words, ib, k)
             /\ \A k \in 1 .. Len(l) : l[k] # 0
             /\ \A k \in Len(l) + 1 .. BlockWords : WordIn(d.words, ib, k) = 0
             /\ \A k \in 1 .. Len(l) : l[k] \in Blocks =>
                  /\ l[k] \in Own(d.words, h) /\ l[k] # db /\ l[k] # ib
                  /\ \A j \in 1 .. Len(l) : l[j] = l[k] => j = k
  <2>1. h.indirect \in Blocks /\ h.indirect = ib /\ db = h.direct
    BY <1>0, <1>1, <1>2, <1>4
  <2>2. /\ Packed(d.words, ib, Len(l))
        /\ \A k \in 1 .. Len(l) : l[k] = WordIn(d.words, ib, k)
    BY <1>1, <1>4, <2>1
  <2>3. ib \in Own(d.words, h) /\ (db \in Blocks => db \in Own(d.words, h))
    BY <2>1 DEF Own, Named
  <2>4. \A k \in 1 .. Len(l) : l[k] # 0 /\ k \in 1 .. BlockWords
    BY <1>1, <1>2, <2>2 DEF Packed
  <2>5. \A k \in Len(l) + 1 .. BlockWords : WordIn(d.words, ib, k) = 0
    BY <1>1, <1>2, <2>2 DEF Packed
  <2>6. ASSUME NEW k \in 1 .. Len(l), l[k] \in Blocks
        PROVE  /\ l[k] \in Own(d.words, h) /\ l[k] # db /\ l[k] # ib
               /\ \A j \in 1 .. Len(l) : l[j] = l[k] => j = k
    <3>1. k \in 1 .. BlockWords /\ l[k] = WordIn(d.words, h.indirect, k) /\ l[k] # 0
      BY <2>1, <2>2, <2>4
    <3>2. l[k] \in Own(d.words, h)
      BY <2>1, <2>6, <3>1 DEF Own, Named
    <3>3. /\ l[k] # h.direct /\ l[k] # h.indirect
          /\ \A j \in 1 .. BlockWords : WordIn(d.words, h.indirect, j) = l[k] => j = k
      BY <1>2, <2>1, <2>6, <3>1 DEF Distinct
    <3> QED BY <2>1, <2>2, <2>4, <3>2, <3>3
  <2> QED BY <2>1, <2>2, <2>3, <2>4, <2>5, <2>6
<1>5. ASSUME h.indirect = Empty
      PROVE  /\ \A k \in 1 .. Len(l) : l[k] # 0
             /\ ib \in Blocks => \A k \in 1 .. BlockWords : WordIn(d.words, ib, k) = 0
  <2>1. \A k \in 1 .. Len(l) : l[k] # 0
    BY <1>1, <1>2, <1>5
  <2>2. ib \in Blocks => ib \in Free(d)
    BY <1>0, <1>2, <1>5
  <2> QED BY <1>0, <2>1, <2>2 DEF Resizable
<1> QED BY <1>0, <1>1, <1>2, <1>3, <1>4, <1>5

(* As many pointers as before: the disk as it is.                          *)
LEMMA SameIsRelinked ==
  ASSUME NEW d, NEW h, NEW size, NEW d2, NEW db, NEW ib, Prepared(d, h, size, d2, db, ib),
         NEW l, l = ListOf(d, h), BlocksFor(size) - 1 = Len(l)
  PROVE  \E n : Relinked(d, h, size, d2, db, ib, n, {})
<1> DEFINE n == IF h.indirect = Empty THEN 0 ELSE Len(l)
<1>0. /\ BlockWords \in Nat /\ d2 \in Disks /\ d2.words = d.words
      /\ d2.bitmap = d.bitmap \cup {b \in Free(d) : b = db \/ b = ib}
      /\ db \in Blocks \cup {-1} /\ ib \in Blocks \cup {-1}
      /\ (IF h.direct = Empty THEN db \in Free(d) \cup {-1} ELSE db = h.direct)
      /\ (IF h.indirect = Empty THEN ib \in Free(d) \cup {-1} ELSE ib = h.indirect)
      /\ db \in Blocks => db # ib
      /\ ib # 0
      /\ Empty \notin Blocks
  BY DiskIs DEF Prepared
<1>1. /\ Len(l) \in 0 .. BlockWords
      /\ \A k \in 1 .. Len(l) : l[k] # 0
      /\ BlocksFor(size) - 1 \in 1 .. BlockWords
      /\ Own(d.words, h) \subseteq d.bitmap
  BY PreparedIs
<1>2. h.indirect # Empty =>
        /\ h.indirect \in Blocks /\ h.indirect = ib /\ db = h.direct
        /\ Packed(d.words, ib, Len(l))
        /\ \A k \in 1 .. Len(l) : l[k] = WordIn(d.words, ib, k)
        /\ \A k \in Len(l) + 1 .. BlockWords : WordIn(d.words, ib, k) = 0
        /\ \A k \in 1 .. Len(l) : l[k] \in Blocks =>
             /\ l[k] \in Own(d.words, h) /\ l[k] # db /\ l[k] # ib
             /\ \A j \in 1 .. Len(l) : l[j] = l[k] => j = k
  BY PreparedIs
<1>3. h.indirect = Empty =>
        /\ Tight' => Len(l) = 0
        /\ ib \in Blocks => \A k \in 1 .. BlockWords : WordIn(d.words, ib, k) = 0
  BY PreparedIs
<1>4. CASE h.indirect = Empty
  <2>1. n = 0 /\ ~Tight'
    BY <1>1, <1>3, <1>4
  <2>2. ib \in Blocks => Packed(d2.words, ib, 0)
    BY <1>0, <1>3, <1>4 DEF Packed
  <2>3. Relinked(d, h, size, d2, db, ib, 0, {})
    BY <1>0, <1>4, <2>1, <2>2 DEF Relinked
  <2> QED BY <2>3
<1>5. CASE h.indirect # Empty
  <2>1. n = Len(l) /\ ib \in Blocks
    BY <1>2, <1>5
  <2> HIDE DEF n
  <2>2. \A k \in 1 .. n : LET x == WordIn(d2.words, ib, k) IN
          /\ k \in 1 .. BlockWords /\ x = l[k] /\ Kept(d, h, d2, k)
          /\ x \in Blocks => x \in d.bitmap
    BY <1>0, <1>1, <1>2, <1>5, <2>1 DEF Kept
  <2>3. Packed(d2.words, ib, n)
    BY <1>0, <1>2, <1>5, <2>1
  <2>4. \A k, j \in 1 .. n :
          WordIn(d2.words, ib, k) = WordIn(d2.words, ib, j) /\ WordIn(d2.words, ib, k) \in Blocks =>
            k = j
    BY <1>2, <1>5, <2>1, <2>2
  <2>5. \A k \in 1 .. BlockWords : LET x == WordIn(d.words, h.indirect, k) IN
          /\ k <= n /\ x # 0 => WordIn(d2.words, ib, k) = x
          /\ k > n /\ x \in Blocks \ {0} => x \in {}
    BY <1>0, <1>1, <1>2, <1>5, <2>1
  <2>6. d2.bitmap = (d.bitmap \ {}) \cup
          {b \in Free(d) : \/ b = db \/ b = ib
                           \/ ib \in Blocks /\ \E k \in 1 .. n : WordIn(d2.words, ib, k) = b}
    BY <1>0, <2>2 DEF Free
  <2>7. n \in 0 .. BlockWords /\ n = BlocksFor(size) - 1
    BY <1>1, <2>1
  <2>8. Relinked(d, h, size, d2, db, ib, n, {})
    BY <1>0, <2>1, <2>2, <2>3, <2>4, <2>5, <2>6, <2>7 DEF Relinked
  <2> QED BY <2>8
<1> QED BY <1>4, <1>5

(* The two pointers of a header are used blocks once they are set.         *)
LEMMA PointersAreUsed ==
  ASSUME NEW d, NEW h, NEW size, NEW d2, NEW db, NEW ib, Prepared(d, h, size, d2, db, ib)
  PROVE  /\ db \in Blocks => db \in d2.bitmap
         /\ ib \in Blocks => ib \in d2.bitmap
<1>1. /\ d2.bitmap = d.bitmap \cup {b \in Free(d) : b = db \/ b = ib}
      /\ (IF h.direct = Empty THEN db \in Free(d) \cup {-1} ELSE db = h.direct)
      /\ (IF h.indirect = Empty THEN ib \in Free(d) \cup {-1} ELSE ib = h.indirect)
      /\ Own(d.words, h) \subseteq d.bitmap /\ -1 \notin Blocks
  BY DiskIs DEF Prepared, Resizable
<1>2. /\ h.direct \in Blocks => h.direct \in d.bitmap
      /\ h.indirect \in Blocks => h.indirect \in d.bitmap
  BY <1>1 DEF Own, Named
<1> QED BY <1>1, <1>2

(* More pointers than before.                                              *)
LEMMA GrownIsRelinked ==
  ASSUME NEW d, NEW h, NEW size, NEW d2, NEW db, NEW ib, Prepared(d, h, size, d2, db, ib),
         NEW l, l = ListOf(d, h), BlocksFor(size) - 1 > Len(l),
         NEW g, g = Extended(d2, l, BlocksFor(size) - 1 - Len(l)),
         NEW e, e = SetBfIp(g.disk, ib, g.list), e.ok
  PROVE  Relinked(d, h, size, e, db, ib, BlocksFor(size) - 1, {})
<1> DEFINE n == BlocksFor(size) - 1
           m == Len(l)
<1>0. /\ BlockWords \in Nat /\ d2 \in Disks /\ d2.words = d.words
      /\ d2.bitmap = d.bitmap \cup {b \in Free(d) : b = db \/ b = ib}
      /\ db \in Blocks \cup {-1} /\ ib \in Blocks \cup {-1}
      /\ (IF h.direct = Empty THEN db \in Free(d) \cup {-1} ELSE db = h.direct)
      /\ (IF h.indirect = Empty THEN ib \in Free(d) \cup {-1} ELSE ib = h.indirect)
      /\ db \in Blocks => db # ib
      /\ ib # 0 /\ 0 \in d2.bitmap
      /\ Empty \notin Blocks /\ -1 \notin Blocks
  BY DiskIs DEF Prepared, CountPiNeed
<1>1. /\ l \in Seq(Values) /\ m \in 0 .. BlockWords
      /\ \A k \in 1 .. m : l[k] # 0
      /\ n \in 1 .. BlockWords
      /\ Own(d.words, h) \subseteq d.bitmap
  BY PreparedIs
<1>2. h.indirect # Empty =>
        /\ h.indirect \in Blocks /\ h.indirect = ib /\ db = h.direct
        /\ \A k \in 1 .. m : l[k] = WordIn(d.words, ib, k)
        /\ \A k \in m + 1 .. BlockWords : WordIn(d.words, ib, k) = 0
        /\ \A k \in 1 .. m : l[k] \in Blocks =>
             /\ l[k] \in Own(d.words, h)
             /\ \A j \in 1 .. m : l[j] = l[k] => j = k
  BY PreparedIs
<1>3. h.indirect = Empty =>
        /\ \A k \in 1 .. m : l[k] \notin Blocks \cup {-1}
        /\ ib \in Blocks => \A k \in 1 .. BlockWords : WordIn(d.words, ib, k) = 0
  BY PreparedIs
<1>4. /\ db \in Blocks => db \in d2.bitmap
      /\ ib \in Blocks => ib \in d2.bitmap
  BY PointersAreUsed
<1>5. n - m \in Nat /\ n > m /\ m + (n - m) = n /\ n \in Nat /\ m \in Nat
  BY <1>0, <1>1
<1>6. Longer(d2, l, g, n - m)
  BY <1>0, <1>1, <1>5, ExtendedIs
<1> HIDE DEF n, m
<1>7. /\ g.disk \in Disks /\ g.list \in Seq(Values) /\ Len(g.list) = n
      /\ \A j \in 1 .. m : g.list[j] = l[j]
      /\ \A j \in m + 1 .. n : g.list[j] \in Free(d2) \cup {-1}
      /\ \A j, k \in m + 1 .. n : g.list[j] = g.list[k] /\ g.list[j] \in Blocks => j = k
      /\ g.disk.words = d2.words
      /\ g.disk.bitmap = d2.bitmap \cup {b \in Blocks : \E j \in m + 1 .. n : g.list[j] = b}
  BY <1>5, <1>6 DEF Longer, Accs, Taken, Free, m
<1>8. /\ e \in Disks /\ e.bitmap = g.disk.bitmap /\ ib \in Blocks
      /\ \A c \in Blocks, k \in 1 .. BlockWords :
              WordIn(e.words, c, k) = IF c = ib /\ k <= n THEN g.list[k] ELSE WordIn(d.words, c, k)
  <2>1. g.disk \in Disks /\ ib \in Blocks \cup {-1} /\ g.list \in Seq(Values)
        /\ Len(g.list) \in 1 .. BlockWords
    BY <1>0, <1>1, <1>7
  <2> DEFINE s == SetBfIp(g.disk, ib, g.list)
  <2>2. /\ s \in Disks /\ s.bitmap = g.disk.bitmap
        /\ s.ok => g.disk.ok /\ ib \in Blocks
        /\ ib \in Blocks => \A c \in Blocks, k \in 1 .. BlockWords :
             WordIn(s.words, c, k) =
               IF c = ib /\ k <= Len(g.list) THEN g.list[k] ELSE WordIn(g.disk.words, c, k)
    BY <2>1, SetIs
  <2>4. e = s
    OBVIOUS
  <2> HIDE DEF s
  <2>3. ib \in Blocks /\ g.disk.words = d.words /\ Len(g.list) = n
    BY <1>0, <1>7, <2>2, <2>4
  <2> HIDE DEF n
  <2> QED BY <2>2, <2>3, <2>4
<1>9. \A k \in 1 .. n : k \in 1 .. BlockWords /\ WordIn(e.words, ib, k) = g.list[k]
  BY <1>0, <1>1, <1>8
<1>10. \A k \in 1 .. n : k \in 1 .. m \/ k \in m + 1 .. n
  BY <1>5
<1>11. ASSUME NEW k \in 1 .. m, l[k] \in Blocks
       PROVE  /\ h.indirect # Empty /\ l[k] \in d.bitmap /\ l[k] = WordIn(d.words, h.indirect, k)
              /\ \A j \in 1 .. m : l[j] = l[k] => j = k
  BY <1>1, <1>2, <1>3, <1>11
<1>12. ASSUME NEW k \in m + 1 .. n
       PROVE  /\ g.list[k] # 0
              /\ g.list[k] \in Blocks => g.list[k] \in Free(d) \ {db, ib} /\ g.list[k] \notin d2.bitmap
  BY <1>0, <1>1, <1>4, <1>7 DEF Free
<1>13. Packed(e.words, ib, n)
  <2>1. ASSUME NEW k \in 1 .. BlockWords PROVE WordIn(e.words, ib, k) # 0 <=> k <= n
    <3>1. CASE k <= n
      <4>1. k \in 1 .. n
        BY <1>0, <1>1, <3>1
      <4> QED BY <1>1, <1>7, <1>9, <1>10, <1>12, <4>1
    <3>2. CASE ~(k <= n)
      <4>1. WordIn(e.words, ib, k) = WordIn(d.words, ib, k)
        BY <1>8, <3>2
      <4>2. k \in m + 1 .. BlockWords
        BY <1>0, <1>5, <3>2
      <4> QED BY <1>2, <1>3, <1>8, <3>2, <4>1, <4>2
    <3> QED BY <3>1, <3>2
  <2> QED BY <2>1 DEF Packed
<1>14. ASSUME NEW k \in 1 .. n
       PROVE  LET x == WordIn(e.words, ib, k) IN
                x \in Blocks => \/ Kept(d, h, e, k) /\ x \notin {}
                                \/ x \in Free(d) \ {db, ib}
  <2> SUFFICES ASSUME g.list[k] \in Blocks
               PROVE  Kept(d, h, e, k) \/ g.list[k] \in Free(d) \ {db, ib}
    BY <1>9
  <2>1. CASE k \in 1 .. m
    <3>1. /\ h.indirect # Empty /\ l[k] = WordIn(d.words, h.indirect, k)
          /\ g.list[k] = l[k]
      BY <1>7, <1>11, <2>1
    <3> QED BY <1>2, <1>9, <3>1 DEF Kept
  <2>2. CASE k \in m + 1 .. n
    BY <1>12, <2>2
  <2> QED BY <1>10, <2>1, <2>2
<1>15. ASSUME NEW k \in 1 .. n, NEW j \in 1 .. n,
              WordIn(e.words, ib, k) = WordIn(e.words, ib, j), WordIn(e.words, ib, k) \in Blocks
       PROVE  k = j
  <2>1. g.list[k] = g.list[j] /\ g.list[k] \in Blocks
    BY <1>9, <1>15
  <2>2. CASE k \in 1 .. m /\ j \in 1 .. m
    BY <1>7, <1>11, <2>1, <2>2
  <2>3. CASE k \in m + 1 .. n /\ j \in m + 1 .. n
    BY <1>7, <2>1, <2>3
  <2>4. CASE k \in 1 .. m /\ j \in m + 1 .. n
    <3>1. g.list[k] \in d.bitmap
      BY <1>7, <1>11, <2>1, <2>4
    <3> QED BY <1>12, <2>1, <2>4, <3>1 DEF Free
  <2>5. CASE j \in 1 .. m /\ k \in m + 1 .. n
    <3>1. g.list[j] \in d.bitmap
      BY <1>7, <1>11, <2>1, <2>5
    <3> QED BY <1>12, <2>1, <2>5, <3>1 DEF Free
  <2> QED BY <1>10, <2>2, <2>3, <2>4, <2>5
<1>16. ASSUME h.indirect \in Blocks, NEW k \in 1 .. BlockWords
       PROVE  LET x == WordIn(d.words, h.indirect, k) IN
                /\ k <= n /\ x # 0 => WordIn(e.words, ib, k) = x
                /\ k > n /\ x \in Blocks \ {0} => x \in {}
  <2>1. h.indirect # Empty /\ h.indirect = ib
    BY <1>0, <1>2, <1>16
  <2>2. CASE k \in 1 .. m
    <3>1. k \in 1 .. n /\ g.list[k] = WordIn(d.words, h.indirect, k) /\ k <= n
      BY <1>2, <1>5, <1>7, <2>1, <2>2
    <3> QED BY <1>9, <3>1, <1>5
  <2>3. CASE k \in m + 1 .. BlockWords
    BY <1>2, <2>1, <2>3
  <2> QED BY <1>0, <1>5, <2>2, <2>3
<1>17. e.bitmap = (d.bitmap \ {}) \cup
         {b \in Free(d) : \/ b = db \/ b = ib
                          \/ ib \in Blocks /\ \E k \in 1 .. n : WordIn(e.words, ib, k) = b}
  <2>1. ASSUME NEW b \in Blocks
        PROVE  b \in e.bitmap <=> b \in d.bitmap \/ (b \in Free(d) /\
                 (b = db \/ b = ib \/ \E k \in 1 .. n : WordIn(e.words, ib, k) = b))
    <3>1. b \in e.bitmap <=> b \in d.bitmap \/ (b \in Free(d) /\ (b = db \/ b = ib))
                             \/ \E j \in m + 1 .. n : g.list[j] = b
      BY <1>0, <1>7, <1>8
    <3>2. ASSUME NEW j \in m + 1 .. n, g.list[j] = b
          PROVE  b \in Free(d) /\ \E k \in 1 .. n : WordIn(e.words, ib, k) = b
      <4>1. j \in 1 .. n
        BY <1>5
      <4> QED BY <1>9, <1>12, <3>2, <4>1
    <3>3. ASSUME b \in Free(d), NEW k \in 1 .. n, WordIn(e.words, ib, k) = b
          PROVE  \E j \in m + 1 .. n : g.list[j] = b
      <4>1. g.list[k] = b /\ b \notin d.bitmap
        BY <1>9, <3>3 DEF Free
      <4>2. k \notin 1 .. m
        BY <1>7, <1>11, <4>1
      <4> QED BY <1>10, <4>1, <4>2
    <3>4. CASE b \in e.bitmap
      BY <3>1, <3>2, <3>4
    <3>5. CASE b \notin e.bitmap
      BY <3>1, <3>3, <3>5
    <3> QED BY <3>4, <3>5
  <2>2. d \in Disks
    BY PreparedIs
  <2>3. e.bitmap \subseteq Blocks /\ d.bitmap \subseteq Blocks /\ Free(d) \subseteq Blocks
    BY <1>8, <2>2 DEF Disks, Free
  <2>4. \A b : b \in e.bitmap <=> b \in d.bitmap \/ (b \in Free(d) /\
                 (b = db \/ b = ib \/ \E k \in 1 .. n : WordIn(e.words, ib, k) = b))
    BY <2>1, <2>3
  <2> QED BY <1>8, <2>4
<1>18. n \in 0 .. BlockWords /\ n = BlocksFor(size) - 1
  BY <1>0, <1>1 DEF n
<1>19. \A c \in Blocks \ {ib}, k \in 1 .. BlockWords :
         WordIn(e.words, c, k) = IF c \in {} THEN 0 ELSE WordIn(d.words, c, k)
  BY <1>8
<1>20. Relinked(d, h, size, e, db, ib, n, {})
  BY <1>0, <1>8, <1>13, <1>14, <1>15, <1>16, <1>17, <1>18, <1>19 DEF Relinked
<1> QED BY <1>20 DEF n

(* Fewer pointers than before: the last go back.                           *)
LEMMA CutIsRelinked ==
  ASSUME NEW d, NEW h, NEW size, NEW d2, NEW db, NEW ib, Prepared(d, h, size, d2, db, ib),
         NEW l, l = ListOf(d, h), NEW n, n = BlocksFor(size) - 1, n < Len(l),
         NEW f, f = AllFreed(d2, Reverse(SubSeq(l, n + 1, Len(l)))),
         NEW c, c = Cleared(f, ib),
         NEW e, e = SetBfIp(c, ib, SubSeq(l, 1, n)), e.ok
  PROVE  \E T : Relinked(d, h, size, e, db, ib, n, T)
<1> DEFINE m == Len(l)
           t == Reverse(SubSeq(l, n + 1, Len(l)))
           T == ToSet(t)
           s == SubSeq(l, 1, n)
<1>0. /\ BlockWords \in Nat /\ d2 \in Disks /\ d2.words = d.words
      /\ d2.bitmap = d.bitmap \cup {b \in Free(d) : b = db \/ b = ib}
      /\ db \in Blocks \cup {-1} /\ ib \in Blocks \cup {-1}
      /\ (IF h.direct = Empty THEN db \in Free(d) \cup {-1} ELSE db = h.direct)
      /\ (IF h.indirect = Empty THEN ib \in Free(d) \cup {-1} ELSE ib = h.indirect)
      /\ db \in Blocks => db # ib
      /\ ib # 0
      /\ Empty \notin Blocks /\ -1 \notin Blocks
  BY DiskIs DEF Prepared
<1>1. /\ l \in Seq(Values) /\ m \in 0 .. BlockWords
      /\ \A k \in 1 .. m : l[k] # 0
      /\ n \in 1 .. BlockWords
      /\ Own(d.words, h) \subseteq d.bitmap
      /\ d \in Disks
  BY PreparedIs
<1>2. h.indirect # Empty =>
        /\ h.indirect \in Blocks /\ h.indirect = ib /\ db = h.direct
        /\ ib \in Own(d.words, h) /\ (db \in Blocks => db \in Own(d.words, h))
        /\ \A k \in 1 .. m : l[k] = WordIn(d.words, ib, k)
        /\ \A k \in m + 1 .. BlockWords : WordIn(d.words, ib, k) = 0
        /\ \A k \in 1 .. m : l[k] \in Blocks =>
             /\ l[k] \in Own(d.words, h) /\ l[k] # db /\ l[k] # ib
             /\ \A j \in 1 .. m : l[j] = l[k] => j = k
  BY PreparedIs
<1>3. h.indirect = Empty => \A k \in 1 .. m : l[k] \notin Blocks \cup {-1}
  BY PreparedIs
<1>4. n \in Nat /\ m \in Nat /\ n < m /\ n >= 1
  BY <1>0, <1>1
<1>5. t \in Seq(Values) /\ \A x : x \in T <=> \E k \in n + 1 .. m : l[k] = x
  BY <1>1, <1>4, LastReversed
<1>6. s \in Seq(Values) /\ Len(s) = n /\ \A k \in 1 .. n : s[k] = l[k]
  <2>1. \A k \in 1 .. n : l[k] \in Values
    BY <1>1, <1>4, ElementOfSeq
  <2>2. s \in Seq(Values) /\ Len(s) = IF 1 <= n THEN n - 1 + 1 ELSE 0
    BY <1>4, <2>1, SubSeqProperties
  <2>3. \A k \in 1 .. n - 1 + 1 : s[k] = l[1 + k - 1]
    BY <1>4, <2>1, SubSeqProperties
  <2> HIDE DEF s
  <2> QED BY <1>4, <2>2, <2>3
<1>7. f = AllFreed(d2, t) /\ e = SetBfIp(c, ib, s)
  OBVIOUS
<1> HIDE DEF t, T, s, m
<1>8. Wiped(d2, f, T)
  BY <1>0, <1>5, <1>7, AllFreedIs DEF T
<1>9. f \in Disks
  BY <1>8 DEF Wiped
<1>10. /\ c \in Disks /\ c.bitmap = f.bitmap
       /\ c.ok => f.ok /\ ib \in Blocks
       /\ ib \in Blocks => \A x \in Blocks, k \in 1 .. BlockWords :
            WordIn(c.words, x, k) = IF x = ib THEN 0 ELSE WordIn(f.words, x, k)
  BY <1>9, ClearedIs
<1>11. /\ e \in Disks /\ e.bitmap = c.bitmap
       /\ e.ok => c.ok /\ ib \in Blocks
       /\ ib \in Blocks => \A x \in Blocks, k \in 1 .. BlockWords :
            WordIn(e.words, x, k) = IF x = ib /\ k <= Len(s) THEN s[k] ELSE WordIn(c.words, x, k)
  <2>1. c \in Disks /\ ib \in Blocks \cup {-1} /\ s \in Seq(Values) /\ Len(s) \in 1 .. BlockWords
    BY <1>0, <1>1, <1>6, <1>10
  <2> QED BY <1>7, <2>1, SetIs
<1>12. /\ ib \in Blocks /\ T \subseteq Blocks /\ f.bitmap = d2.bitmap \ T
       /\ \A x \in Blocks, k \in 1 .. BlockWords :
            WordIn(f.words, x, k) = IF x \in T THEN 0 ELSE WordIn(d.words, x, k)
  BY <1>0, <1>8, <1>10, <1>11 DEF Wiped
<1>13. h.indirect # Empty
  <2>1. l[m] \in T /\ m \in 1 .. m
    BY <1>4, <1>5
  <2> QED BY <1>3, <1>12, <2>1
<1>14. /\ h.indirect \in Blocks /\ h.indirect = ib /\ db = h.direct
       /\ ib \in Own(d.words, h) /\ (db \in Blocks => db \in Own(d.words, h))
       /\ \A k \in 1 .. m : k \in 1 .. BlockWords /\ l[k] = WordIn(d.words, ib, k)
       /\ \A k \in m + 1 .. BlockWords : WordIn(d.words, ib, k) = 0
       /\ \A k \in 1 .. m : l[k] \in Blocks =>
            /\ l[k] \in Own(d.words, h) /\ l[k] # db /\ l[k] # ib
            /\ \A j \in 1 .. m : l[j] = l[k] => j = k
  BY <1>0, <1>1, <1>2, <1>13
<1>15. ASSUME NEW x \in T
       PROVE  /\ x \in Blocks \ {0} /\ x \in Own(d.words, h) /\ x # ib /\ x # db
              /\ \E k \in 1 .. BlockWords : WordIn(d.words, h.indirect, k) = x
              /\ \A k \in 1 .. n : l[k] # x
  <2>1. PICK k \in n + 1 .. m : l[k] = x
    BY <1>5
  <2>2. k \in 1 .. m /\ \A j \in 1 .. n : j \in 1 .. m /\ j # k
    BY <1>4
  <2> QED BY <1>1, <1>12, <1>14, <2>1, <2>2
<1>16. \A x \in Blocks \ {ib}, k \in 1 .. BlockWords :
         WordIn(e.words, x, k) = IF x \in T THEN 0 ELSE WordIn(d.words, x, k)
  BY <1>10, <1>11, <1>12
<1>17. \A k \in 1 .. BlockWords : WordIn(e.words, ib, k) = IF k <= n THEN l[k] ELSE 0
  <2> SUFFICES ASSUME NEW k \in 1 .. BlockWords
               PROVE  WordIn(e.words, ib, k) = IF k <= n THEN l[k] ELSE 0
    OBVIOUS
  <2>1. WordIn(e.words, ib, k) = IF k <= n THEN s[k] ELSE WordIn(c.words, ib, k)
    BY <1>6, <1>11, <1>12
  <2>2. WordIn(c.words, ib, k) = 0
    BY <1>10, <1>12
  <2>3. k <= n => s[k] = l[k]
    BY <1>0, <1>4, <1>6
  <2> QED BY <2>1, <2>2, <2>3
<1>18. \A k \in 1 .. n : /\ k \in 1 .. m /\ k \in 1 .. BlockWords /\ k <= n
                         /\ WordIn(e.words, ib, k) = l[k] /\ l[k] \notin T
  <2>1. \A k \in 1 .. n : k \in 1 .. m /\ k \in 1 .. BlockWords /\ k <= n
    BY <1>0, <1>1, <1>4
  <2> QED BY <1>15, <1>17, <2>1
<1>19. Packed(e.words, ib, n)
  <2>1. \A k \in 1 .. BlockWords : k <= n => l[k] # 0
    BY <1>0, <1>1, <1>4
  <2> QED BY <1>17, <2>1 DEF Packed
<1>20. ASSUME NEW k \in 1 .. n
       PROVE  /\ Kept(d, h, e, k) /\ WordIn(e.words, ib, k) \notin T
              /\ WordIn(e.words, ib, k) \in Blocks =>
                   /\ WordIn(e.words, ib, k) \in d.bitmap
                   /\ \A j \in 1 .. n : WordIn(e.words, ib, k) = WordIn(e.words, ib, j) => k = j
  BY <1>1, <1>14, <1>18 DEF Kept
<1>21. ASSUME NEW k \in 1 .. BlockWords
       PROVE  LET x == WordIn(d.words, h.indirect, k) IN
                /\ k <= n /\ x # 0 => WordIn(e.words, ib, k) = x
                /\ k > n /\ x \in Blocks \ {0} => x \in T
  <2>1. CASE k <= n
    <3>1. k \in 1 .. n
      BY <1>0, <1>4, <2>1
    <3> QED BY <1>4, <1>14, <1>18, <2>1, <3>1
  <2>2. CASE ~(k <= n) /\ k <= m
    <3>1. k \in n + 1 .. m /\ k \in 1 .. m
      BY <1>0, <1>4, <2>2
    <3> QED BY <1>5, <1>14, <2>2, <3>1
  <2>3. CASE ~(k <= n) /\ ~(k <= m)
    <3>1. k \in m + 1 .. BlockWords
      BY <1>0, <1>4, <2>3
    <3> QED BY <1>14, <2>3, <3>1
  <2> QED BY <2>1, <2>2, <2>3
<1>22. e.bitmap = (d.bitmap \ T) \cup
         {b \in Free(d) : \/ b = db \/ b = ib
                          \/ ib \in Blocks /\ \E k \in 1 .. n : WordIn(e.words, ib, k) = b}
  <2>1. e.bitmap = d2.bitmap \ T
    BY <1>10, <1>11, <1>12
  <2>2. d2.bitmap = d.bitmap
    BY <1>0, <1>1, <1>14 DEF Free
  <2>3. {b \in Free(d) : \/ b = db \/ b = ib
                         \/ ib \in Blocks /\ \E k \in 1 .. n : WordIn(e.words, ib, k) = b} = {}
    <3>1. ASSUME NEW b \in Free(d)
          PROVE  /\ b # db /\ b # ib
                 /\ ~ \E k \in 1 .. n : WordIn(e.words, ib, k) = b
      <4>1. b \in Blocks /\ b \notin d.bitmap
        BY DEF Free
      <4> QED BY <1>1, <1>14, <1>20, <4>1
    <3> QED BY <3>1
  <2> QED BY <2>1, <2>2, <2>3
<1>23. /\ n \in 0 .. BlockWords
       /\ \A b \in T : /\ h.indirect \in Blocks /\ b \in Blocks \ {0}
                       /\ \E k \in 1 .. BlockWords : WordIn(d.words, h.indirect, k) = b
  BY <1>1, <1>14, <1>15
<1>24. Relinked(d, h, size, e, db, ib, n, T)
  BY <1>0, <1>11, <1>12, <1>16, <1>19, <1>20, <1>21, <1>22, <1>23 DEF Relinked
<1> QED BY <1>24

LEMMA ManyIsResized ==
  ASSUME NEW d, NEW h, NEW size, Resizable(d, h, size), h.size # size, size > BlockWords,
         AsInt(h.indirect) \in Blocks,
         NEW r, r = ToManyBlocks(d, h, ListOf(d, h), size), r.disk.ok
  PROVE  Resized(d, h, size, r.disk, [size |-> size, direct |-> r.direct, indirect |-> r.indirect])
<1> DEFINE l == ListOf(d, h)
           a == Allocated(d, h.direct)
           c == Allocated(a.disk, h.indirect)
           n == BlocksFor(size) - 1
           g == Extended(c.disk, l, n - Len(l))
           t == Reverse(SubSeq(l, n + 1, Len(l)))
           f == AllFreed(c.disk, t)
           e == r.disk
<1>1. /\ r.direct = a.block /\ r.indirect = c.block
      /\ e = IF n > Len(l) THEN SetBfIp(g.disk, c.block, g.list)
             ELSE IF n < Len(l) THEN SetBfIp(Cleared(f, c.block), c.block, SubSeq(l, 1, n))
             ELSE c.disk
  BY DEF ToManyBlocks, CountPiNeed
<1> HIDE DEF e, a, c, l, n, g, f, t
<1>2. Prepared(d, h, size, c.disk, a.block, c.block)
  <2>1. /\ a.block \in Blocks \cup {-1} /\ c.block \in Blocks \cup {-1}
        /\ IF h.direct = Empty THEN a.block \in Free(d) \cup {-1} ELSE a.block = h.direct
        /\ IF h.indirect = Empty THEN c.block \in Free(d) \cup {-1} ELSE c.block = h.indirect
        /\ a.block \in Blocks => a.block # c.block
        /\ c.block # 0
        /\ \/ 0 \in c.disk.bitmap
           \/ h.indirect # Empty /\ ~(CountPiNeed(size) > Len(ListOf(d, h)))
        /\ c.disk \in Disks /\ c.disk.words = d.words /\ c.disk.ok = d.ok
        /\ c.disk.bitmap = d.bitmap \cup {b \in Free(d) : b = a.block \/ b = c.block}
    BY TwoAllocated DEF a, c
  <2> QED BY <2>1 DEF Prepared
<1>3. l = ListOf(d, h) /\ Len(l) \in Nat /\ n \in Nat /\ n = BlocksFor(size) - 1
  <2>1. l = ListOf(d, h)
    BY DEF l
  <2>2. Len(l) \in 0 .. BlockWords /\ BlocksFor(size) - 1 \in 1 .. BlockWords
    BY <1>2, <2>1, PreparedIs
  <2> QED BY <2>1, <2>2, DiskIs DEF n
<1>4. \E k, T : Relinked(d, h, size, e, a.block, c.block, k, T)
  <2>1. CASE n > Len(l)
    <3>1. e = SetBfIp(g.disk, c.block, g.list) /\ e.ok
      BY <1>1, <2>1 DEF e
    <3>2. g = Extended(c.disk, l, BlocksFor(size) - 1 - Len(l)) /\ BlocksFor(size) - 1 > Len(l)
      BY <2>1 DEF g, n
    <3>3. Relinked(d, h, size, e, a.block, c.block, BlocksFor(size) - 1, {})
      BY <1>2, <1>3, <3>1, <3>2, GrownIsRelinked
    <3> QED BY <3>3
  <2>2. CASE n < Len(l)
    <3>1. e = SetBfIp(Cleared(f, c.block), c.block, SubSeq(l, 1, n)) /\ e.ok
      BY <1>1, <1>3, <2>2 DEF e
    <3>2. f = AllFreed(c.disk, Reverse(SubSeq(l, n + 1, Len(l))))
      BY DEF f, t
    <3>3. \E T : Relinked(d, h, size, e, a.block, c.block, n, T)
      BY <1>2, <1>3, <2>2, <3>1, <3>2, CutIsRelinked
    <3> QED BY <3>3
  <2>3. CASE n = Len(l)
    <3>1. e = c.disk /\ BlocksFor(size) - 1 = Len(l)
      BY <1>1, <1>3, <2>3
    <3>2. \E k : Relinked(d, h, size, c.disk, a.block, c.block, k, {})
      BY <1>2, <1>3, <3>1, SameIsRelinked
    <3> QED BY <3>1, <3>2
  <2> QED BY <1>3, <2>1, <2>2, <2>3
<1>5. Resized(d, h, size, e, [size |-> size, direct |-> a.block, indirect |-> c.block])
  BY <1>4, RelinkedIsResized
<1> QED BY <1>1, <1>5 DEF e

(* A truncation to the size the file has.                                  *)
LEMMA NoChangeIsResized ==
  ASSUME NEW d, NEW h, Resizable(d, h, h.size)
  PROVE  Resized(d, h, h.size, d, h)
  BY DEF Resized, Resizable, Free, Sound, Headers

(* Whatever the size before and after: the blocks of the other files are   *)
(* as they were, and the file has those its size calls for.                *)
LEMMA ResizeIsResized ==
  ASSUME NEW d, NEW h, NEW size, Resizable(d, h, size),
         NEW r, r = Resize(d, h, size), r.disk.ok
  PROVE  Resized(d, h, size, r.disk, [size |-> size, direct |-> r.direct, indirect |-> r.indirect])
<1> DEFINE b == AsInt(h.indirect)
           l == ListOf(d, h)
<1>0. h \in Headers /\ size \in Nat /\ BlockWords \in Nat /\ d \in Disks
  BY DiskIs DEF Resizable, Sound
<1>1. r = IF size = h.size THEN [disk |-> d, direct |-> h.direct, indirect |-> h.indirect]
          ELSE IF b \notin Blocks THEN Faulted(d, h)
          ELSE IF size = 0 THEN ToNothing(d, h, l)
          ELSE IF size <= BlockWords THEN ToOneBlock(d, h, l)
          ELSE ToManyBlocks(d, h, l, size)
  BY DEF Resize, ListOf
<1> HIDE DEF l
<1>2. CASE size = h.size
  <2>1. r.disk = d /\ r.direct = h.direct /\ r.indirect = h.indirect
    BY <1>1, <1>2
  <2>2. [size |-> size, direct |-> r.direct, indirect |-> r.indirect] = h
    BY <1>0, <1>2, <2>1 DEF Headers
  <2> QED BY <1>2, <2>1, <2>2, NoChangeIsResized
<1>3. CASE size # h.size /\ b \notin Blocks
  <2>1. r.disk = [d EXCEPT !.ok = FALSE]
    BY <1>1, <1>3 DEF Faulted
  <2> QED BY <1>0, <2>1 DEF Disks
<1>4. CASE size # h.size /\ b \in Blocks /\ size = 0
  <2>1. r = ToNothing(d, h, l)
    BY <1>1, <1>4
  <2>2. r.direct = Empty /\ r.indirect = Empty
    BY <2>1 DEF ToNothing
  <2> QED BY <1>4, <2>1, <2>2, NothingIsResized DEF l
<1>5. CASE size # h.size /\ b \in Blocks /\ size # 0 /\ size <= BlockWords
  <2>1. r = ToOneBlock(d, h, l) /\ size > 0 /\ h.size # size
    BY <1>0, <1>1, <1>5
  <2> QED BY <1>5, <2>1, OneIsResized DEF l
<1>6. CASE size # h.size /\ b \in Blocks /\ size # 0 /\ ~(size <= BlockWords)
  <2>1. r = ToManyBlocks(d, h, l, size) /\ size > BlockWords /\ h.size # size
    BY <1>0, <1>1, <1>6
  <2> QED BY <1>6, <2>1, ManyIsResized DEF l
<1> QED BY <1>2, <1>3, <1>4, <1>5, <1>6

-----------------------------------------------------------------------------
(* Where the positions of a file are.                                      *)

(* Only the words of its pointer block matter to where a file is.          *)
LEMMA Frame ==
  ASSUME NEW v, NEW w, NEW h,
         h.indirect \in Blocks => \A k \in 1 .. BlockWords :
           WordIn(w, h.indirect, k) = WordIn(v, h.indirect, k)
  PROVE  /\ Own(w, h) = Own(v, h)
         /\ Sound(v, h) => Sound(w, h)
         /\ Exact(v, h) => Exact(w, h)
<1>1. \A b : Named(w, h, b) <=> Named(v, h, b)
  BY DEF Named
<1>2. \A n : h.indirect \in Blocks => (Packed(w, h.indirect, n) <=> Packed(v, h.indirect, n))
  BY DEF Packed
<1>3. Distinct(w, h) <=> Distinct(v, h)
  BY DEF Distinct
<1>4. Own(w, h) = Own(v, h)
  BY <1>1 DEF Own
<1>5. Sound(v, h) => Sound(w, h)
  BY <1>2, <1>3 DEF Sound
<1>6. Exact(v, h) => Exact(w, h)
  BY <1>2 DEF Exact
<1> QED BY <1>4, <1>5, <1>6

LEMMA MaxIs ==
  ASSUME NEW p \in Nat, NEW n \in Nat, NEW U \in SUBSET (p .. (p + n - 1)), U # {}
  PROVE  Max(U) \in U /\ Max(U) \in Nat
<1> DEFINE V == {p + n - y : y \in U}
<1>1. V \in SUBSET Nat /\ V # {}
  <2>1. \A y \in U : y \in Nat /\ p + n - y \in Nat
    OBVIOUS
  <2> QED BY <2>1
<1>2. PICK v \in V : \A y \in V : <<y, v>> \notin OpToRel(<, Nat)
  BY <1>1, NatLessThanWellFounded, WFMin
<1>3. PICK x \in U : v = p + n - x
  BY <1>2
<1>4. ASSUME NEW y \in U PROVE x >= y
  <2>1. SUFFICES ASSUME y > x PROVE FALSE
    BY <1>3
  <2>2. p + n - y < v /\ p + n - y \in V
    BY <1>3, <2>1
  <2>3. <<p + n - y, v>> \in OpToRel(<, Nat)
    BY <1>1, <1>2, <2>2 DEF OpToRel
  <2> QED BY <1>2, <2>2, <2>3
<1>5. Max(U) \in U
  BY <1>4 DEF Max
<1>6. \A y \in U : y \in Nat
  OBVIOUS
<1> QED BY <1>5, <1>6

(* A position that the size of a file calls for and whose block is listed  *)
(* is where the list of its blocks says, on a block of its own.            *)
LEMMA PlaceIs ==
  ASSUME NEW w \in [Words -> Values], NEW h, Sound(w, h),
         NEW o \in Nat, o < BlocksFor(h.size) * BlockWords, Held(w, h, o)
  PROVE  /\ AsInt(h.indirect) \in Blocks =>
              /\ o \div BlockWords < Len(BlockList(h, w))
              /\ BlockList(h, w)[(o \div BlockWords) + 1] = BlockAt(w, h, o)
         /\ BlockAt(w, h, o) \in Blocks => BlockAt(w, h, o) \in Own(w, h)
         /\ o >= BlockWords =>
              /\ h.indirect \in Blocks /\ o \div BlockWords \in 1 .. BlockWords
              /\ WordIn(w, h.indirect, o \div BlockWords) # 0
<1> DEFINE q == o \div BlockWords
           i == AsInt(h.indirect)
           l == GetBfIp(w, i)
<1>0. /\ BlockWords \in Nat /\ BlockWords >= 1 /\ 0 \in Blocks /\ Empty \notin Blocks
      /\ h.size \in Nat /\ (h.direct = Empty <=> h.size = 0)
      /\ BlocksFor(h.size) <= BlockWords + 1
  BY DiskIs DEF Sound, Headers
<1>1. /\ BlocksFor(h.size) \in Nat /\ (h.size = 0 => BlocksFor(h.size) = 0)
  BY <1>0, BlocksForIs
<1>2. q \in 0 .. BlocksFor(h.size) - 1 /\ (o < BlockWords <=> q = 0)
  BY <1>1, PositionIs
<1>3. h.size > 0 /\ h.direct # Empty /\ AsInt(h.direct) = h.direct
  BY <1>0, <1>1, <1>2 DEF AsInt
<1>5. i \in Blocks => l \in Seq(Values) /\ Len(l) \in 0 .. BlockWords
  BY GetMembers
<1> HIDE DEF l, q
<1>6. i \in Blocks =>
        /\ Len(<<h.direct>> \o l) = 1 + Len(l) /\ (<<h.direct>> \o l)[1] = h.direct
        /\ \A k \in 1 .. Len(l) : (<<h.direct>> \o l)[k + 1] = l[k]
  <2> SUFFICES ASSUME i \in Blocks
               PROVE  /\ Len(<<h.direct>> \o l) = 1 + Len(l) /\ (<<h.direct>> \o l)[1] = h.direct
                      /\ \A k \in 1 .. Len(l) : (<<h.direct>> \o l)[k + 1] = l[k]
    OBVIOUS
  <2>1. l \in Seq(Values \cup {h.direct}) /\ <<h.direct>> \in Seq(Values \cup {h.direct})
    BY <1>5
  <2>2. /\ Len(<<h.direct>> \o l) = Len(<<h.direct>>) + Len(l)
        /\ \A k \in 1 .. Len(<<h.direct>>) + Len(l) : (<<h.direct>> \o l)[k] =
             IF k <= Len(<<h.direct>>) THEN <<h.direct>>[k] ELSE l[k - Len(<<h.direct>>)]
    BY <2>1, ConcatProperties
  <2>3. Len(<<h.direct>>) = 1 /\ <<h.direct>>[1] = h.direct
    OBVIOUS
  <2> QED BY <1>5, <2>2, <2>3
<1>7. BlockList(h, w) = <<h.direct>> \o l
  BY <1>3 DEF BlockList, l
<1>8. CASE q = 0
  <2>1. BlockAt(w, h, o) = h.direct /\ o < BlockWords
    BY <1>2, <1>8 DEF BlockAt
  <2>2. h.direct \in Blocks => h.direct \in Own(w, h)
    BY DEF Own, Named
  <2>3. i \in Blocks => 0 < Len(BlockList(h, w)) /\ BlockList(h, w)[0 + 1] = h.direct
    BY <1>5, <1>6, <1>7
  <2> QED BY <1>0, <1>8, <2>1, <2>2, <2>3 DEF q
<1>9. CASE q # 0
  <2>1. ~(o < BlockWords) /\ o >= BlockWords /\ q \in 1 .. BlockWords
    BY <1>0, <1>1, <1>2, <1>9
  <2>2. h.indirect \in Blocks /\ i = h.indirect /\ WordIn(w, h.indirect, q) # 0
    BY <1>0, <2>1 DEF AsInt, Held, q
  <2>3. PICK n \in 0 .. BlockWords : Packed(w, h.indirect, n)
    BY <2>2 DEF Sound
  <2>4. /\ Len(l) = n
        /\ \A k \in 1 .. n : l[k] = WordIn(w, h.indirect, k)
    BY <2>2, <2>3, GetPacked DEF l
  <2>5. q \in 1 .. Len(l) /\ l[q] = WordIn(w, h.indirect, q)
    <3>1. q <= n
      BY <2>1, <2>2, <2>3 DEF Packed
    <3> QED BY <1>0, <2>1, <2>3, <2>4, <3>1
  <2>7. BlockAt(w, h, o) = l[q]
    BY <2>1, <2>5 DEF BlockAt, q
  <2>8. l[q] \in Blocks => l[q] \in Own(w, h)
    BY <2>1, <2>2, <2>5 DEF Own, Named
  <2>9. q < 1 + Len(l) /\ (<<h.direct>> \o l)[q + 1] = l[q]
    BY <1>5, <1>6, <2>2, <2>5
  <2> QED BY <1>6, <1>7, <2>1, <2>2, <2>7, <2>8, <2>9 DEF q
<1> QED BY <1>8, <1>9

(* Two positions of a file are not the same word.                          *)
LEMMA PlacesApart ==
  ASSUME NEW w \in [Words -> Values], NEW h, Sound(w, h),
         NEW o \in Nat, o < BlocksFor(h.size) * BlockWords, Held(w, h, o),
         NEW p \in Nat, p < BlocksFor(h.size) * BlockWords, Held(w, h, p),
         BlockAt(w, h, o) = BlockAt(w, h, p), BlockAt(w, h, o) \in Blocks,
         o % BlockWords = p % BlockWords
  PROVE  o = p
<1> DEFINE i == o \div BlockWords
           j == p \div BlockWords
<1>0. BlockWords \in Nat /\ BlocksFor(h.size) \in Nat /\ Distinct(w, h)
  BY DiskIs, BlocksForIs DEF Sound, Headers
<1>1. /\ i \in Nat /\ o = (i * BlockWords) + (o % BlockWords)
      /\ j \in Nat /\ p = (j * BlockWords) + (p % BlockWords)
  BY DivMod
<1>2. (o < BlockWords <=> i = 0) /\ (p < BlockWords <=> j = 0)
  BY <1>0, PositionIs
<1>3. /\ o >= BlockWords => /\ h.indirect \in Blocks /\ i \in 1 .. BlockWords
                            /\ WordIn(w, h.indirect, i) # 0
      /\ p >= BlockWords => /\ h.indirect \in Blocks /\ j \in 1 .. BlockWords
                            /\ WordIn(w, h.indirect, j) # 0
  BY PlaceIs
<1>4. /\ o < BlockWords => BlockAt(w, h, o) = h.direct
      /\ ~(o < BlockWords) => BlockAt(w, h, o) = WordIn(w, h.indirect, i)
      /\ p < BlockWords => BlockAt(w, h, p) = h.direct
      /\ ~(p < BlockWords) => BlockAt(w, h, p) = WordIn(w, h.indirect, j)
  BY DEF BlockAt
<1> HIDE DEF i, j
<1>5. i = j
  <2>1. CASE o < BlockWords /\ p < BlockWords
    BY <1>2, <2>1
  <2>2. CASE o < BlockWords /\ ~(p < BlockWords)
    BY <1>0, <1>3, <1>4, <2>2 DEF Distinct
  <2>3. CASE ~(o < BlockWords) /\ p < BlockWords
    BY <1>0, <1>3, <1>4, <2>3 DEF Distinct
  <2>4. CASE ~(o < BlockWords) /\ ~(p < BlockWords)
    BY <1>0, <1>3, <1>4, <2>4 DEF Distinct
  <2> QED BY <2>1, <2>2, <2>3, <2>4
<1> QED BY <1>1, <1>5

(* The blocks that a write reaches, of whatever the block list names: the  *)
(* file's own but its pointer block, or block 0.                           *)
LEMMA TargetIs ==
  ASSUME NEW w \in [Words -> Values], NEW h, Sound(w, h), AsInt(h.indirect) \in Blocks,
         \A k \in 1 .. BlockWords : WordIn(w, 0, k) \notin (-1 .. BlockCount - 1) \ {0},
         NEW q \in Nat, q < Len(BlockList(h, w)), BlockList(h, w)[q + 1] \in Blocks
  PROVE  /\ BlockList(h, w)[q + 1] # h.indirect
         /\ BlockList(h, w)[q + 1] \in Own(w, h) \cup {0}
         /\ q = 0 => BlockList(h, w)[q + 1] = AsInt(h.direct)
         /\ q # 0 => /\ h.indirect \in Blocks /\ q \in 1 .. BlockWords
                     /\ BlockList(h, w)[q + 1] = WordIn(w, h.indirect, q)
                     /\ WordIn(w, h.indirect, q) # 0
<1> DEFINE i == AsInt(h.indirect)
           a == AsInt(h.direct)
           l == GetBfIp(w, i)
<1>0. /\ BlockWords \in Nat /\ 0 \in Blocks /\ Blocks = 0 .. BlockCount - 1 /\ Empty \notin Blocks
      /\ BlockCount \in Nat
      /\ Distinct(w, h) /\ h.direct \in Pointers /\ h.indirect \in Pointers /\ h.indirect # 0
  BY DiskIs DEF Sound, Headers, Blocks
<1>1. /\ l \in Seq(Values) /\ Len(l) \in 0 .. BlockWords
      /\ \A k \in 1 .. Len(l) : l[k] # 0 /\ \E j \in 1 .. BlockWords : l[k] = WordIn(w, i, j)
  BY GetMembers
<1> HIDE DEF l
<1>2. /\ Len(<<a>> \o l) = 1 + Len(l) /\ (<<a>> \o l)[1] = a
      /\ \A k \in 1 .. Len(l) : (<<a>> \o l)[k + 1] = l[k]
  <2> HIDE DEF a
  <2>1. l \in Seq(Values \cup {a}) /\ <<a>> \in Seq(Values \cup {a})
    BY <1>1
  <2>2. /\ Len(<<a>> \o l) = Len(<<a>>) + Len(l)
        /\ \A k \in 1 .. Len(<<a>>) + Len(l) : (<<a>> \o l)[k] =
             IF k <= Len(<<a>>) THEN <<a>>[k] ELSE l[k - Len(<<a>>)]
    BY <2>1, ConcatProperties
  <2>3. Len(<<a>>) = 1 /\ <<a>>[1] = a
    OBVIOUS
  <2> QED BY <1>1, <2>2, <2>3
<1>3. BlockList(h, w) = <<a>> \o l
  BY DEF BlockList, l
<1>4. CASE q = 0
  <2>1. BlockList(h, w)[q + 1] = a
    BY <1>2, <1>3, <1>4
  <2>2. CASE h.direct = Empty
    <3>1. a = 0
      BY <2>2 DEF AsInt
    <3> QED BY <1>0, <1>4, <2>1, <3>1
  <2>3. CASE h.direct # Empty
    <3>1. a = h.direct
      BY <2>3 DEF AsInt
    <3> QED BY <1>0, <1>4, <2>1, <3>1 DEF Own, Named, Distinct
  <2> QED BY <2>2, <2>3
<1>5. CASE q # 0
  <2>1. q \in 1 .. Len(l) /\ BlockList(h, w)[q + 1] = l[q]
    BY <1>1, <1>2, <1>3, <1>5
  <2>2. PICK j \in 1 .. BlockWords : l[q] = WordIn(w, i, j) /\ l[q] # 0
    BY <1>1, <2>1
  <2>3. h.indirect # Empty
    <3>1. SUFFICES ASSUME i = 0 PROVE FALSE
      BY DEF AsInt
    <3>2. l[q] \notin (-1 .. BlockCount - 1) \ {0}
      BY <2>2, <3>1
    <3> QED BY <1>0, <2>1, <2>2, <3>2
  <2>4. i = h.indirect /\ h.indirect \in Blocks
    BY <2>3 DEF AsInt
  <2>5. PICK n \in 0 .. BlockWords : Packed(w, h.indirect, n)
    BY <2>4 DEF Sound
  <2>6. Len(l) = n /\ \A k \in 1 .. n : l[k] = WordIn(w, h.indirect, k)
    BY <2>4, <2>5, GetPacked DEF l
  <2>7. q \in 1 .. BlockWords /\ l[q] = WordIn(w, h.indirect, q)
    BY <1>0, <2>1, <2>5, <2>6
  <2>8. l[q] \in Blocks /\ l[q] # 0
    BY <2>1, <2>2
  <2>9. l[q] \in Own(w, h) /\ l[q] # h.indirect
    BY <1>0, <2>4, <2>7, <2>8 DEF Own, Named, Distinct
  <2> QED BY <1>5, <2>1, <2>4, <2>7, <2>8, <2>9
<1> QED BY <1>4, <1>5

(* What F_WRITE makes of the words w, place by place.                      *)
Hits(h, w, pos, n, x) == {o \in pos .. (pos + n - 1) : WordAt(h, w, o) = x}
Overwritten(f, h, w, pos, n) ==
  [x \in Words |-> IF Hits(h, w, pos, n, x) = {} THEN w[x]
                   ELSE Letter(f, Max(Hits(h, w, pos, n, x)))]
Target(h, w, o) == BlockList(h, w)[(o \div BlockWords) + 1]
OverwrittenAt(f, h, w, o, c, k, v) ==
  Target(h, w, o) = c /\ o % BlockWords = k - 1 /\ WordIn(v, c, k) = Letter(f, o)

LEMMA OverwrittenIs ==
  ASSUME NEW f \in Files, NEW h, NEW w \in [Words -> Values],
         NEW pos \in Nat, NEW n \in Nat, Reaches(h, w, pos, n),
         NEW v, v = Overwritten(f, h, w, pos, n)
  PROVE  /\ v \in [Words -> Values]
         /\ \A c \in Blocks, k \in 1 .. BlockWords :
              \/ WordIn(v, c, k) = WordIn(w, c, k) /\
                   \A o \in pos .. (pos + n - 1) : Target(h, w, o) = c => o % BlockWords # k - 1
              \/ \E o \in pos .. (pos + n - 1) : OverwrittenAt(f, h, w, o, c, k, v)
<1> DEFINE range == pos .. (pos + n - 1)
           H(x) == Hits(h, w, pos, n, x)
<1>0. BlockWords \in Nat /\ BlockWords >= 1 /\ \A o \in range : o \in Nat
  BY DiskIs
<1>1. ASSUME NEW x, H(x) # {} PROVE Max(H(x)) \in H(x) /\ Max(H(x)) \in Nat
  <2>1. H(x) \in SUBSET (pos .. (pos + n - 1))
    BY DEF Hits
  <2> QED BY <1>1, <2>1, MaxIs
<1>2. \A o \in range : Target(h, w, o) \in Blocks
  BY DEF Reaches, Target
<1>3. \A o \in range : WordAt(h, w, o) = Target(h, w, o) * BlockWords + (o % BlockWords)
  BY DEF WordAt, Target
<1>4. ASSUME NEW o \in range, NEW c \in Blocks, NEW k \in 1 .. BlockWords
      PROVE  WordAt(h, w, o) = c * BlockWords + k - 1 <=> Target(h, w, o) = c /\ o % BlockWords = k - 1
  <2> DEFINE r == (o % BlockWords) + 1
             b == Target(h, w, o)
  <2>1. o % BlockWords \in 0 .. BlockWords - 1
    BY <1>0, DivMod
  <2>2. r \in 1 .. BlockWords /\ r - 1 = o % BlockWords
    BY <1>0, <2>1
  <2>3. b \in Blocks /\ WordAt(h, w, o) = b * BlockWords + (o % BlockWords)
    BY <1>2, <1>3
  <2> HIDE DEF b
  <2>4. b * BlockWords \in Nat
    BY <1>0, <2>3, DiskIs
  <2>5. WordAt(h, w, o) = b * BlockWords + r - 1
    BY <2>1, <2>3, <2>4
  <2> HIDE DEF r
  <2>6. WordAt(h, w, o) = c * BlockWords + k - 1 => b = c /\ r = k
    BY <2>2, <2>3, <2>5, SamePlace
  <2>7. b = c /\ r = k => WordAt(h, w, o) = c * BlockWords + k - 1
    BY <2>5
  <2>8. o % BlockWords = k - 1 <=> r = k
    BY <1>0, <2>1, <2>2
  <2> QED BY <2>6, <2>7, <2>8 DEF b
<1>5. v \in [Words -> Values]
  <2>1. ASSUME NEW x \in Words, H(x) # {} PROVE Letter(f, Max(H(x))) \in Values
    BY <1>1, <2>1, ValuesAre
  <2> QED BY <2>1 DEF Overwritten
<1>6. ASSUME NEW c \in Blocks, NEW k \in 1 .. BlockWords
      PROVE  \/ /\ WordIn(v, c, k) = WordIn(w, c, k)
                /\ \A o \in range : Target(h, w, o) = c => o % BlockWords # k - 1
             \/ \E o \in range : OverwrittenAt(f, h, w, o, c, k, v)
  <2> DEFINE x == c * BlockWords + k - 1
  <2>1. x \in Words
    BY WordPlace
  <2>2. v[x] = IF H(x) = {} THEN w[x] ELSE Letter(f, Max(H(x)))
    BY <2>1 DEF Overwritten
  <2>3. \A o \in range : o \in H(x) <=> Target(h, w, o) = c /\ o % BlockWords = k - 1
    BY <1>4 DEF Hits
  <2>4. H(x) \subseteq range
    BY DEF Hits
  <2>5. WordIn(v, c, k) = v[x] /\ WordIn(w, c, k) = w[x]
    BY DEF WordIn
  <2> HIDE DEF x, H
  <2>6. CASE H(x) = {}
    BY <2>2, <2>3, <2>5, <2>6
  <2>7. CASE H(x) # {}
    <3>1. Max(H(x)) \in H(x)
      BY <1>1, <2>7
    <3> QED BY <2>2, <2>3, <2>4, <2>5, <2>7, <3>1 DEF OverwrittenAt
  <2> QED BY <2>6, <2>7
<1> QED BY <1>5, <1>6

-----------------------------------------------------------------------------
(* The invariant, step by step.                                            *)

LEMMA InitInv ==
  ASSUME Init
  PROVE  FsInv
<1>0. /\ fcb = [f \in Files |-> NoFile] /\ unsaved = NoFile /\ bitmap = Reserved
      /\ block_file = [w \in Words |-> 0] /\ written = [f \in Files |-> Blank]
      /\ usage \in Usages /\ fs = "up"
  BY DEF Init
<1>1. TypeOK
  <2>1. block_file \in [Words -> Values]
    BY <1>0, ValuesAre
  <2> QED BY <1>0, <2>1, ReservedAssumption DEF TypeOK, Values, Blocks
<1>2. \A f \in Files : Views(f) = {} /\ Header(f) = NoFile
  BY <1>0 DEF Views, Header
<1>3. \A c \in Blocks, k \in 1 .. BlockWords : WordIn(block_file, c, k) = 0
  BY <1>0, WordPlace DEF WordIn
<1>4. Owners /\ Pending
  BY <1>0, <1>2 DEF Owners, Pending
<1>5. Blanks
  BY <1>3, DiskIs DEF Blanks
<1>6. NoneLost
  BY <1>0 DEF NoneLost
<1>7. ReadBack
  <2>1. \A f \in Files : DOMAIN written[f] = {}
    BY <1>0 DEF Blank
  <2> QED BY <1>0, <2>1 DEF ReadBack
<1> QED BY <1>0, <1>1, <1>4, <1>5, <1>6, <1>7 DEF FsInv

LEMMA SaveFcbInv ==
  ASSUME FsInv, SaveFcb
  PROVE  FsInv'
<1>0. /\ unsaved # NoFile /\ fcb' = [fcb EXCEPT ![unsaved.file] = unsaved.header]
      /\ unsaved' = NoFile /\ usage' = usage /\ fs' = fs /\ bitmap' = bitmap
      /\ block_file' = block_file /\ written' = written /\ lapses' = lapses
  BY DEF SaveFcb
<1>1. /\ TypeOK /\ usage \in Usages /\ Reserved \subseteq bitmap
      /\ Owners /\ Blanks /\ NoneLost /\ Pending /\ ReadBack
  BY DEF FsInv
<1>2. /\ unsaved.file \in Files /\ unsaved.header \in Headers
      /\ fcb \in [Files -> Headers \cup {NoFile}]
      /\ fcb' \in [Files -> Headers \cup {NoFile}]
  BY <1>0, <1>1 DEF TypeOK
<1>3. \A f \in Files : fcb'[f] = IF f = unsaved.file THEN unsaved.header ELSE fcb[f]
  BY <1>0, <1>2
<1>4. \A f \in Files : Header(f)' = Header(f) /\ Header(f)' = fcb'[f]
  BY <1>0, <1>3 DEF Header
<1>5. (Careful' <=> Careful) /\ (Tight' <=> Tight)
  BY <1>0 DEF Careful, Tight
<1>6. \A f \in Files : Views(f)' \subseteq Views(f) /\ (Careful => Views(f)' = Views(f))
  BY <1>4, <1>5 DEF Views
<1>7. TypeOK'
  BY <1>0, <1>1, <1>2 DEF TypeOK
<1>8. Owners'
  BY <1>0, <1>1, <1>5, <1>6 DEF Owners
<1>9. Blanks' /\ Pending'
  BY <1>0, <1>1, <1>5 DEF Blanks, Pending
<1>10. NoneLost'
  BY <1>0, <1>1, <1>5, <1>6 DEF NoneLost
<1>11. ReadBack'
  BY <1>0, <1>1, <1>4, <1>5 DEF ReadBack
<1> QED BY <1>0, <1>1, <1>7, <1>8, <1>9, <1>10, <1>11 DEF FsInv

LEMMA CrashInv ==
  ASSUME FsInv, Crash
  PROVE  FsInv'
<1>0. /\ ~Careful /\ unsaved' = NoFile /\ UNCHANGED <<usage, fs, fcb, bitmap, block_file, written>>
  BY DEF Crash
<1>1. /\ TypeOK /\ usage \in Usages /\ Reserved \subseteq bitmap
      /\ Owners /\ Blanks /\ NoneLost /\ Pending /\ ReadBack
  BY DEF FsInv
<1>2. ~Careful' /\ ~Tight'
  BY <1>0 DEF Careful, Tight
<1>3. \A f \in Files : Views(f)' \subseteq Views(f)
  BY <1>0, <1>2 DEF Views, Header
<1>4. TypeOK'
  BY <1>0, <1>1 DEF TypeOK
<1>5. Owners'
  BY <1>0, <1>1, <1>2, <1>3 DEF Owners
<1>6. Blanks' /\ Pending' /\ NoneLost' /\ ReadBack'
  BY <1>0, <1>1, <1>2 DEF Blanks, Pending, NoneLost, ReadBack
<1> QED BY <1>0, <1>1, <1>4, <1>5, <1>6 DEF FsInv

LEMMA OpenFileInv ==
  ASSUME FsInv, NEW f \in Files, OpenFile(f)
  PROVE  FsInv'
<1> DEFINE new == [size |-> 0, direct |-> Empty, indirect |-> Empty]
<1>0. /\ unsaved = NoFile /\ fcb[f] = NoFile /\ fcb' = [fcb EXCEPT ![f] = new]
      /\ UNCHANGED <<usage, fs, bitmap, block_file, unsaved, written, lapses>>
  BY DEF OpenFile, Idle
<1>1. /\ TypeOK /\ usage \in Usages /\ Reserved \subseteq bitmap
      /\ Owners /\ Blanks /\ NoneLost /\ Pending /\ ReadBack
  BY DEF FsInv
<1>2. new \in Headers /\ new # NoFile
  BY NullAssumption DEF Headers, Pointers
<1>3. /\ fcb \in [Files -> Headers \cup {NoFile}]
      /\ fcb' \in [Files -> Headers \cup {NoFile}]
      /\ \A g \in Files : fcb'[g] = IF g = f THEN new ELSE fcb[g]
  BY <1>0, <1>1, <1>2 DEF TypeOK
<1>4. new.size = 0 /\ new.direct = Empty /\ new.indirect = Empty
  OBVIOUS
<1> HIDE DEF new
<1>5. (Careful' <=> Careful) /\ (Tight' <=> Tight)
  BY <1>0 DEF Careful, Tight
<1>6. \A g \in Files : Header(g)' = IF g = f THEN new ELSE Header(g)
  BY <1>0, <1>3 DEF Header
<1>7. /\ Views(f)' = {new} /\ Views(f) = {}
      /\ \A g \in Files \ {f} : Views(g)' = Views(g)
  BY <1>0, <1>2, <1>3, <1>5, <1>6 DEF Views, Header
<1>8. /\ Sound(block_file, new) /\ Exact(block_file, new)
      /\ Own(block_file, new) = {}
  BY <1>2, <1>4, DiskIs, BlocksForIs DEF Sound, Exact, Own, Named, Distinct
<1>9. TypeOK'
  BY <1>0, <1>1, <1>3 DEF TypeOK
<1>10. Owners'
  BY <1>0, <1>1, <1>5, <1>7, <1>8 DEF Owners
<1>11. Blanks' /\ Pending'
  BY <1>0, <1>1, <1>5 DEF Blanks, Pending
<1>12. NoneLost'
  BY <1>0, <1>1, <1>5, <1>7 DEF NoneLost
<1>13. ReadBack'
  <2>1. Header(f) = NoFile
    BY <1>0 DEF Header
  <2> QED BY <1>0, <1>1, <1>5, <1>6, <2>1 DEF ReadBack
<1> QED BY <1>0, <1>1, <1>9, <1>10, <1>11, <1>12, <1>13 DEF FsInv

(* What the invariant says of a file that the module may read.             *)
LEMMA ViewIs ==
  ASSUME FsInv, NEW f \in Files, NEW h \in Views(f)
  PROVE  /\ h \in Headers /\ Sound(block_file, h) /\ (Tight => Exact(block_file, h))
         /\ Own(block_file, h) \subseteq bitmap \ Reserved
         /\ h.indirect \in Blocks => h.indirect \in Own(block_file, h)
<1>1. /\ Sound(block_file, h) /\ (Tight => Exact(block_file, h))
      /\ Own(block_file, h) \subseteq bitmap \ Reserved
  BY DEF FsInv, Owners
<1>2. h.indirect \in Blocks => h.indirect \in Own(block_file, h)
  BY DEF Own, Named
<1> QED BY <1>1, <1>2 DEF Sound

(* What is still remembered of f after a truncation.                       *)
Remembered(f, size) ==
  [o \in (DOMAIN written[f]) \cap (0 .. (BlocksFor(size) * BlockWords - 1)) |-> written[f][o]]

LEMMA TruncationIs ==
  ASSUME FsInv, InTrack', NEW f \in Files, NEW size \in Sizes[usage],
         TruncateFile(f, size), fcb[f] # NoFile,
         NEW d, d = [bitmap |-> bitmap, words |-> block_file, ok |-> TRUE],
         NEW r, r = Resize(d, fcb[f], size), r.disk.ok,
         NEW new, new = [size |-> size, direct |-> r.direct, indirect |-> r.indirect]
  PROVE  /\ Resized(d, fcb[f], size, r.disk, new)
         /\ bitmap' = r.disk.bitmap /\ block_file' = r.disk.words
         /\ unsaved = NoFile /\ unsaved' = [file |-> f, header |-> new]
         /\ DOMAIN written' = Files /\ written'[f] = Remembered(f, size)
         /\ \A g \in Files \ {f} : written'[g] = written[g]
         /\ Tight' => Tight
         /\ UNCHANGED <<usage, fs, fcb>>
<1> DEFINE h == fcb[f]
<1>0. /\ unsaved = NoFile /\ (~Careful => size >= h.size)
      /\ bitmap' = r.disk.bitmap /\ block_file' = r.disk.words
      /\ unsaved' = [file |-> f, header |-> new]
      /\ written' = [written EXCEPT ![f] = Remembered(f, size)]
      /\ lapses' = lapses \cup Lapses(d, h, size)
      /\ UNCHANGED <<usage, fs, fcb>>
  BY DEF TruncateFile, Idle, Remembered
<1>1. /\ TypeOK /\ usage \in Usages /\ Reserved \subseteq bitmap
      /\ Owners /\ Blanks
  BY DEF FsInv
<1>2. h \in Views(f)
  BY <1>0 DEF Views, Header
<1>3. /\ h \in Headers /\ Sound(block_file, h) /\ (Tight => Exact(block_file, h))
      /\ Own(block_file, h) \subseteq bitmap \ Reserved
  BY <1>2, ViewIs
<1>4. size \in Nat /\ BlockWords \in Nat /\ BlockWords >= 1
  BY <1>1, SizesAssumption, DiskIs
<1>5. d \in Disks /\ d.bitmap = bitmap /\ d.words = block_file /\ d.ok
  BY <1>1 DEF TypeOK, Disks, Values
<1>6. size # h.size /\ size > BlockWords =>
        ~ZeroListed(d, h, size) /\ ~Overrun(size) /\ (Tight' => ~UnsetRead(d, h))
  <2> SUFFICES ASSUME size # h.size, size > BlockWords
               PROVE  ~ZeroListed(d, h, size) /\ ~Overrun(size) /\ (Tight' => ~UnsetRead(d, h))
    OBVIOUS
  <2>1. ~(size = h.size \/ size <= BlockWords)
    BY <1>4
  <2>2. Lapses(d, h, size) \subseteq lapses' /\ lapses' \subseteq {"unset"}
    BY <1>0 DEF InTrack
  <2>3. Tight' => "unset" \notin lapses'
    BY DEF Tight
  <2> HIDE DEF h
  <2> QED BY <2>1, <2>2, <2>3 DEF Lapses
<1>10. BlocksFor(size) <= BlockWords + 1
  <2>1. CASE size = h.size
    BY <1>3, <2>1 DEF Sound
  <2>2. CASE size <= BlockWords
    <3>1. BlocksFor(size) = 0 \/ BlocksFor(size) = 1
      BY <1>4, <2>2, BlocksForIs
    <3> QED BY <1>4, <3>1
  <2>3. CASE size # h.size /\ size > BlockWords
    <3>1. ~(BlocksFor(size) - 1 > BlockWords) /\ BlocksFor(size) \in Nat
      BY <1>4, <1>6, <2>3, BlocksForIs DEF Overrun, CountPiNeed
    <3> QED BY <1>4, <3>1
  <2> QED BY <1>4, <2>1, <2>2, <2>3
<1>11. Tight' => Tight
  BY <1>0 DEF Tight, Careful
<1>12. NoPointers(d.words)
  BY <1>1, <1>5 DEF Blanks, NoPointers
<1>13. \A b \in Free(d), k \in 1 .. BlockWords : Careful \/ b # 0 => WordIn(d.words, b, k) = 0
  BY <1>1, <1>5 DEF Blanks, Free
<1>7. Resizable(d, h, size)
  BY <1>0, <1>3, <1>4, <1>5, <1>6, <1>10, <1>11, <1>12, <1>13 DEF Resizable
<1>8. Resized(d, h, size, r.disk, new)
  BY <1>7, ResizeIsResized
<1>9. DOMAIN written = Files
  BY DEF FsInv, ReadBack
<1> QED BY <1>0, <1>8, <1>9, <1>11

LEMMA ResizedInv ==
  ASSUME FsInv, InTrack', NEW f \in Files, NEW size \in Sizes[usage],
         TruncateFile(f, size), fcb[f] # NoFile,
         NEW d, d = [bitmap |-> bitmap, words |-> block_file, ok |-> TRUE],
         NEW r, r = Resize(d, fcb[f], size), r.disk.ok
  PROVE  FsInv'
<1> DEFINE h == fcb[f]
           e == r.disk
           new == [size |-> size, direct |-> r.direct, indirect |-> r.indirect]
           Mine == Own(block_file, h) \cup (Blocks \ bitmap)
           limit == BlocksFor(size) * BlockWords
<1>0. /\ TypeOK /\ usage \in Usages /\ Reserved \subseteq bitmap
      /\ Owners /\ Blanks /\ NoneLost /\ Pending /\ ReadBack
  BY DEF FsInv
<1>1. /\ Resized(d, h, size, e, new)
      /\ bitmap' = e.bitmap /\ block_file' = e.words
      /\ unsaved = NoFile /\ unsaved' = [file |-> f, header |-> new]
      /\ DOMAIN written' = Files /\ written'[f] = Remembered(f, size)
      /\ \A g \in Files \ {f} : written'[g] = written[g]
      /\ Tight' => Tight
      /\ UNCHANGED <<usage, fs, fcb>>
  <2>1. new = [size |-> size, direct |-> r.direct, indirect |-> r.indirect]
    OBVIOUS
  <2> HIDE DEF new
  <2>2. /\ FsInv /\ InTrack' /\ TruncateFile(f, size) /\ fcb[f] # NoFile
        /\ d = [bitmap |-> bitmap, words |-> block_file, ok |-> TRUE]
        /\ r = Resize(d, fcb[f], size) /\ r.disk.ok
    OBVIOUS
  <2>3. /\ Resized(d, fcb[f], size, r.disk, new)
        /\ bitmap' = r.disk.bitmap /\ block_file' = r.disk.words
        /\ unsaved = NoFile /\ unsaved' = [file |-> f, header |-> new]
        /\ DOMAIN written' = Files /\ written'[f] = Remembered(f, size)
        /\ \A g \in Files \ {f} : written'[g] = written[g]
        /\ Tight' => Tight
        /\ UNCHANGED <<usage, fs, fcb>>
    BY <2>1, <2>2, TruncationIs
  <2> QED BY <2>3
<1>2. d.bitmap = bitmap /\ d.words = block_file /\ new.size = size
  OBVIOUS
<1> HIDE DEF new, e, limit
<1>3. /\ e \in Disks /\ Sound(e.words, new) /\ (Tight' => Exact(e.words, new))
      /\ Own(e.words, new) \subseteq Mine \cap e.bitmap
      /\ \A b \in Blocks \ Mine :
           b \in e.bitmap /\ \A k \in 1 .. BlockWords : WordIn(e.words, b, k) = WordIn(block_file, b, k)
      /\ Careful => e.bitmap \cap Mine \subseteq Own(e.words, new)
      /\ \A b \in Blocks \ e.bitmap, k \in 1 .. BlockWords :
           Careful \/ b # 0 => WordIn(e.words, b, k) = 0
      /\ NoPointers(e.words)
      /\ ~Careful => Sound(e.words, h) /\ Own(e.words, h) \subseteq Mine \cap e.bitmap
      /\ Careful => \A o \in Nat :
           LET b == BlockAt(block_file, h, o) IN
           /\ o < BlocksFor(h.size) * BlockWords /\ o < limit
           /\ b \in Blocks /\ Held(block_file, h, o)
           => /\ BlockAt(e.words, new, o) = b /\ Held(e.words, new, o)
              /\ \A k \in 1 .. BlockWords : WordIn(e.words, b, k) = WordIn(block_file, b, k)
  BY <1>1, <1>2 DEF Resized, Free, limit
<1>4. new \in Headers /\ new # NoFile /\ h \in Headers /\ fcb \in [Files -> Headers \cup {NoFile}]
  <2>1. new \in Headers
    BY <1>3 DEF Sound
  <2> QED BY <1>0, <2>1, NullAssumption DEF TypeOK
<1>5. Careful' <=> Careful
  BY <1>1 DEF Careful
<1>6. /\ Header(f) = h /\ Header(f)' = new
      /\ \A g \in Files \ {f} : Header(g)' = Header(g) /\ Header(g) = fcb[g]
  <2>1. unsaved' # NoFile
    <3>1. unsaved' \in [file : Files, header : Headers]
      BY <1>1, <1>4
    <3> QED BY <3>1, NullAssumption
  <2> QED BY <1>1, <1>4, <2>1 DEF Header
<1>7. /\ Views(f) = {h} /\ Views(f)' = {new} \cup (IF Careful THEN {} ELSE {h})
      /\ \A g \in Files \ {f} : Views(g)' = Views(g)
  BY <1>1, <1>4, <1>5, <1>6 DEF Views
<1>8. /\ h \in Views(f) /\ Own(block_file, h) \subseteq bitmap \ Reserved
  BY <1>7, ViewIs
<1>9. ASSUME NEW g \in Files \ {f}, NEW i \in Views(g)
      PROVE  /\ Own(e.words, i) = Own(block_file, i) /\ Own(block_file, i) \cap Mine = {}
             /\ Sound(e.words, i) /\ (Tight' => Exact(e.words, i))
             /\ Own(block_file, i) \subseteq bitmap \ Reserved
  <2>1. /\ Sound(block_file, i) /\ (Tight => Exact(block_file, i))
        /\ Own(block_file, i) \subseteq bitmap \ Reserved
        /\ i.indirect \in Blocks => i.indirect \in Own(block_file, i)
    BY ViewIs
  <2>2. Own(block_file, i) \cap Own(block_file, h) = {}
    BY <1>0, <1>8 DEF Owners
  <2>3. Own(block_file, i) \cap Mine = {}
    BY <2>1, <2>2
  <2>4. i.indirect \in Blocks => \A k \in 1 .. BlockWords :
          WordIn(e.words, i.indirect, k) = WordIn(block_file, i.indirect, k)
    BY <1>3, <2>1, <2>3
  <2>5. Own(e.words, i) = Own(block_file, i) /\ Sound(e.words, i)
        /\ (Exact(block_file, i) => Exact(e.words, i))
    BY <2>1, <2>4, Frame
  <2> QED BY <1>1, <2>1, <2>3, <2>5
<1>10. ASSUME NEW i \in Views(f)'
       PROVE  /\ Sound(e.words, i) /\ (Tight' => Exact(e.words, i))
              /\ Own(e.words, i) \subseteq Mine \cap e.bitmap
  <2>1. Tight' => Careful
    BY <1>5 DEF Tight
  <2> QED BY <1>3, <1>7, <2>1
<1>11. Mine \cap Reserved = {}
  BY <1>0, <1>8
<1>12. TypeOK'
  <2>1. bitmap' \subseteq Blocks /\ block_file' \in [Words -> Values]
    BY <1>1, <1>3 DEF Disks
  <2> QED BY <1>0, <1>1, <1>4, <2>1 DEF TypeOK, Values
<1>13. Reserved \subseteq bitmap'
  BY <1>0, <1>1, <1>3, <1>11, ReservedAssumption DEF Blocks
<1>14. Owners'
  <2>1. ASSUME NEW g \in Files, NEW i \in Views(g)'
        PROVE  /\ Sound(e.words, i) /\ (Tight' => Exact(e.words, i))
               /\ Own(e.words, i) \subseteq e.bitmap \ Reserved
    <3>1. CASE g = f
      BY <1>10, <1>11, <2>1, <3>1
    <3>2. CASE g # f
      <4>1. i \in Views(g)
        BY <1>7, <2>1, <3>2
      <4>2. /\ Own(e.words, i) = Own(block_file, i) /\ Own(block_file, i) \cap Mine = {}
            /\ Sound(e.words, i) /\ (Tight' => Exact(e.words, i))
            /\ Own(block_file, i) \subseteq bitmap \ Reserved
        BY <1>9, <3>2, <4>1
      <4>3. Own(block_file, i) \subseteq Blocks
        BY DEF Own
      <4> QED BY <1>3, <4>2, <4>3
    <3> QED BY <3>1, <3>2
  <2>2. ASSUME NEW g \in Files, NEW i \in Views(g)', NEW k \in Files \ {g}, NEW j \in Views(k)'
        PROVE  Own(e.words, i) \cap Own(e.words, j) = {}
    <3>1. CASE g = f
      BY <1>7, <1>9, <1>10, <2>2, <3>1
    <3>2. CASE k = f
      BY <1>7, <1>9, <1>10, <2>2, <3>2
    <3>3. CASE g # f /\ k # f
      <4>1. i \in Views(g) /\ j \in Views(k)
        BY <1>7, <2>2, <3>3
      <4>2. Own(block_file, i) \cap Own(block_file, j) = {}
        BY <1>0, <2>2, <4>1 DEF Owners
      <4> QED BY <1>9, <2>2, <3>3, <4>1, <4>2
    <3> QED BY <3>1, <3>2, <3>3
  <2> QED BY <1>1, <1>5, <2>1, <2>2 DEF Owners
<1>15. Blanks'
  BY <1>1, <1>3, <1>5 DEF Blanks, NoPointers
<1>16. NoneLost'
  <2> SUFFICES ASSUME Careful, NEW b \in e.bitmap, b \notin Reserved
               PROVE  \E g \in Files : \E i \in Views(g)' : b \in Own(e.words, i)
    BY <1>1, <1>5 DEF NoneLost
  <2>0. b \in Blocks
    BY <1>3 DEF Disks
  <2>1. CASE b \in Mine
    BY <1>3, <1>7, <2>1
  <2>2. CASE b \notin Mine
    <3>1. PICK g \in Files : \E i \in Views(g) : b \in Own(block_file, i)
      BY <1>0, <2>0, <2>2 DEF NoneLost
    <3>2. PICK i \in Views(g) : b \in Own(block_file, i)
      BY <3>1
    <3>3. g # f
      BY <1>7, <2>2, <3>2
    <3> QED BY <1>7, <1>9, <3>2, <3>3
  <2> QED BY <2>1, <2>2
<1>17. Pending'
  BY <1>1 DEF Pending
<1>18. ReadBack'
  <2>1. DOMAIN written' = Files
    BY <1>0, <1>1 DEF ReadBack
  <2>2. /\ written'[f] = [o \in (DOMAIN written[f]) \cap (0 .. (limit - 1)) |-> written[f][o]]
        /\ \A g \in Files \ {f} : written'[g] = written[g]
    BY <1>1 DEF Remembered, limit
  <2>3. ASSUME Careful, NEW g \in Files, NEW o \in DOMAIN written'[g]
        PROVE  /\ Header(g)' # NoFile
               /\ o \in 0 .. (BlocksFor(Header(g)'.size) * BlockWords - 1)
               /\ BlockAt(e.words, Header(g)', o) \in Blocks
               /\ Held(e.words, Header(g)', o)
               /\ e.words[BlockAt(e.words, Header(g)', o) * BlockWords + (o % BlockWords)]
                    = written'[g][o]
    <3> DEFINE i == Header(g)
               b == BlockAt(block_file, i, o)
               k == (o % BlockWords) + 1
    <3>0. o \in DOMAIN written[g] /\ written'[g][o] = written[g][o]
          /\ (g = f => o \in 0 .. (limit - 1))
      BY <2>2, <2>3
    <3>1. /\ i # NoFile /\ o \in 0 .. (BlocksFor(i.size) * BlockWords - 1)
          /\ b \in Blocks /\ Held(block_file, i, o)
          /\ block_file[b * BlockWords + (o % BlockWords)] = written[g][o]
      BY <1>0, <2>3, <3>0 DEF ReadBack
    <3>2. BlockWords \in Nat /\ BlockWords >= 1 /\ o \in Nat
      BY <3>1, DiskIs
    <3>3. k \in 1 .. BlockWords
      BY <3>2, DivMod
    <3>4. i \in Views(g) /\ Sound(block_file, i)
      <4>1. i \in Views(g)
        BY <3>1 DEF Views
      <4> QED BY <2>3, <4>1, ViewIs
    <3>5. BlocksFor(i.size) \in Nat
      BY <3>4, BlocksForIs DEF Sound, Headers
    <3> HIDE DEF b, i
    <3>6. o < BlocksFor(i.size) * BlockWords
      BY <3>1, <3>2, <3>5
    <3>7. BlockAt(e.words, Header(g)', o) = b /\ Held(e.words, Header(g)', o)
          /\ \A j \in 1 .. BlockWords : WordIn(e.words, b, j) = WordIn(block_file, b, j)
      <4>1. CASE g = f
        <5>1. i = h /\ Header(g)' = new
          BY <1>6, <4>1 DEF i
        <5>2. limit \in Nat
          <6>1. BlocksFor(size) \in Nat
            BY <1>2, <1>4, BlocksForIs DEF Headers
          <6> QED BY <3>2, <6>1 DEF limit
        <5>3. o < limit
          BY <3>0, <4>1, <5>2
        <5> QED BY <1>3, <2>3, <3>1, <3>2, <3>6, <5>1, <5>3 DEF b
      <4>2. CASE g # f
        <5>1. Header(g)' = i
          BY <1>6, <4>2 DEF i
        <5>2. block_file \in [Words -> Values]
          BY <1>0 DEF TypeOK, Values
        <5>3. /\ b \in Own(block_file, i)
              /\ o >= BlockWords => /\ i.indirect \in Blocks
                                    /\ o \div BlockWords \in 1 .. BlockWords
                                    /\ WordIn(block_file, i.indirect, o \div BlockWords) # 0
          BY <3>1, <3>2, <3>4, <3>6, <5>2, PlaceIs DEF b
        <5>4. i.indirect \in Blocks => i.indirect \in Own(block_file, i)
          BY DEF Own, Named
        <5>5. Own(block_file, i) \cap Mine = {}
          BY <1>9, <3>4, <4>2
        <5>6. \A x \in Own(block_file, i), j \in 1 .. BlockWords :
                WordIn(e.words, x, j) = WordIn(block_file, x, j)
          <6>1. Own(block_file, i) \subseteq Blocks
            BY DEF Own
          <6> QED BY <1>3, <5>5, <6>1
        <5>7. BlockAt(e.words, i, o) = b
          BY <3>2, <5>3, <5>4, <5>6 DEF BlockAt, b
        <5>8. Held(e.words, i, o)
          BY <5>3, <5>4, <5>6 DEF Held
        <5> QED BY <5>1, <5>3, <5>6, <5>7, <5>8
      <4> QED BY <4>1, <4>2
    <3>8. o \in 0 .. (BlocksFor(Header(g)'.size) * BlockWords - 1)
      <4>1. CASE g = f
        BY <1>2, <1>6, <3>0, <4>1 DEF limit
      <4>2. CASE g # f
        BY <1>6, <3>1, <4>2 DEF i
      <4> QED BY <4>1, <4>2
    <3>9. Header(g)' # NoFile
      BY <1>4, <1>6, <3>1 DEF i
    <3>10. e.words[b * BlockWords + (o % BlockWords)] = block_file[b * BlockWords + (o % BlockWords)]
      <4>1. b * BlockWords \in Nat /\ o % BlockWords \in Nat
        BY <3>1, <3>2, DiskIs, DivMod
      <4>2. b * BlockWords + k - 1 = b * BlockWords + (o % BlockWords)
        BY <4>1
      <4>3. WordIn(e.words, b, k) = WordIn(block_file, b, k)
        BY <3>3, <3>7
      <4> HIDE DEF k
      <4> QED BY <4>2, <4>3 DEF WordIn
    <3> QED BY <3>0, <3>1, <3>7, <3>8, <3>9, <3>10
  <2>4. block_file' = e.words
    BY <1>1
  <2> QED BY <1>5, <2>1, <2>3, <2>4 DEF ReadBack
<1>19. (usage \in Usages)'
  BY <1>0, <1>1
<1> QED BY <1>12, <1>13, <1>14, <1>15, <1>16, <1>17, <1>18, <1>19 DEF FsInv

(* A request that the module does not outlive leaves the disk as it was.   *)
LEMMA StoppedInv ==
  ASSUME FsInv, fs' \in {"up", "no_fcb", "bad_block"},
         UNCHANGED <<usage, fcb, bitmap, block_file, unsaved, written, lapses>>
  PROVE  FsInv'
<1>1. \A f \in Files : Header(f)' = Header(f) /\ Views(f)' = Views(f)
  BY DEF Header, Views, Careful
<1>2. (Careful' <=> Careful) /\ (Tight' <=> Tight)
  BY DEF Careful, Tight
<1>3. TypeOK' /\ (usage \in Usages)' /\ (Reserved \subseteq bitmap)'
  BY DEF FsInv, TypeOK
<1>4. Owners'
  BY <1>1, <1>2 DEF FsInv, Owners
<1>5. Blanks' /\ Pending'
  BY <1>2 DEF FsInv, Blanks, Pending
<1>6. NoneLost'
  BY <1>1, <1>2 DEF FsInv, NoneLost
<1>7. ReadBack'
  BY <1>1, <1>2 DEF FsInv, ReadBack
<1> QED BY <1>3, <1>4, <1>5, <1>6, <1>7 DEF FsInv

LEMMA TruncateFileInv ==
  ASSUME FsInv, InTrack', NEW f \in Files, NEW size \in Sizes[usage],
         TruncateFile(f, size)
  PROVE  FsInv'
<1> DEFINE d == [bitmap |-> bitmap, words |-> block_file, ok |-> TRUE]
           r == Resize(d, fcb[f], size)
<1>1. CASE fcb[f] = NoFile
  BY <1>1, StoppedInv DEF TruncateFile
<1>2. CASE fcb[f] # NoFile /\ r.disk.ok
  BY <1>2, ResizedInv
<1>3. CASE fcb[f] # NoFile /\ ~r.disk.ok
  <2>1. /\ fs' = "bad_block"
        /\ UNCHANGED <<usage, fcb, bitmap, block_file, unsaved, written, lapses>>
    BY <1>3 DEF TruncateFile
  <2> QED BY <2>1, StoppedInv
<1> QED BY <1>1, <1>2, <1>3

(* A write changes words of blocks of the file, or of block 0 if the user  *)
(* is not careful: the pointers stay.                                      *)
LEMMA WriteIs ==
  ASSUME FsInv, NEW f \in Files, NEW pos \in Positions, NEW n \in Lengths[usage],
         WriteFile(f, pos, n), NEW h, h = fcb[f], Reaches(h, block_file, pos, n)
  PROVE  /\ h \in Views(f) /\ Header(f) = h /\ pos \in Nat /\ n \in Nat
         /\ block_file' \in [Words -> Values]
         /\ \A c \in Blocks, k \in 1 .. BlockWords :
              \/ WordIn(block_file', c, k) = WordIn(block_file, c, k) /\
                   \A o \in pos .. (pos + n - 1) : Target(h, block_file, o) = c => o % BlockWords # k - 1
              \/ \E o \in pos .. (pos + n - 1) : OverwrittenAt(f, h, block_file, o, c, k, block_file')
         /\ \A o \in pos .. (pos + n - 1) :
              /\ o \in Nat
              /\ Target(h, block_file, o) # h.indirect
              /\ Target(h, block_file, o) \in Own(block_file, h) \cup {0}
              /\ Careful => /\ o < h.size /\ o < BlocksFor(h.size) * BlockWords
                            /\ Target(h, block_file, o) = BlockAt(block_file, h, o)
                            /\ Target(h, block_file, o) \in Own(block_file, h)
                            /\ Held(block_file, h, o)
<1> DEFINE range == pos .. (pos + n - 1)
<1>0. /\ TypeOK /\ usage \in Usages /\ Owners /\ Blanks
  BY DEF FsInv
<1>1. unsaved = NoFile /\ h # NoFile /\ (Careful => pos + n <= h.size)
      /\ block_file' = Overwritten(f, h, block_file, pos, n)
  BY DEF WriteFile, Idle, Overwritten, Hits
<1>2. /\ pos \in Nat /\ n \in Nat /\ n >= 1 /\ BlockWords \in Nat /\ BlockWords >= 1
      /\ \A o \in range : o \in Nat
  <2>1. pos \in Nat
    BY DEF Positions
  <2>2. n \in Nat \ {0}
    BY <1>0, SizesAssumption
  <2> QED BY <2>1, <2>2, DiskIs
<1>3. Header(f) = h /\ h \in Views(f)
  BY <1>1 DEF Header, Views
<1>4. h \in Headers /\ Sound(block_file, h)
  BY <1>3, ViewIs
<1>5. block_file \in [Words -> Values]
  BY <1>0 DEF TypeOK, Values
<1>6. /\ block_file' \in [Words -> Values]
      /\ \A c \in Blocks, k \in 1 .. BlockWords :
           \/ WordIn(block_file', c, k) = WordIn(block_file, c, k) /\
                \A o \in range : Target(h, block_file, o) = c => o % BlockWords # k - 1
           \/ \E o \in range : OverwrittenAt(f, h, block_file, o, c, k, block_file')
  BY <1>1, <1>2, <1>5, OverwrittenIs
<1>7. ASSUME NEW o \in range
      PROVE  /\ Target(h, block_file, o) # h.indirect
             /\ Target(h, block_file, o) \in Own(block_file, h) \cup {0}
             /\ o \div BlockWords = 0 => Target(h, block_file, o) = AsInt(h.direct)
             /\ o \div BlockWords # 0 =>
                  /\ h.indirect \in Blocks /\ o \div BlockWords \in 1 .. BlockWords
                  /\ Target(h, block_file, o) = WordIn(block_file, h.indirect, o \div BlockWords)
                  /\ WordIn(block_file, h.indirect, o \div BlockWords) # 0
  <2> DEFINE q == o \div BlockWords
  <2>1. /\ AsInt(h.indirect) \in Blocks /\ q < Len(BlockList(h, block_file))
        /\ BlockList(h, block_file)[q + 1] \in Blocks
    BY DEF Reaches
  <2>2. q \in Nat
    BY <1>2, DivMod
  <2>3. \A k \in 1 .. BlockWords : WordIn(block_file, 0, k) \notin (-1 .. BlockCount - 1) \ {0}
    BY <1>0 DEF Blanks
  <2>4. Target(h, block_file, o) = BlockList(h, block_file)[q + 1]
    BY DEF Target
  <2> HIDE DEF q
  <2> QED BY <1>4, <1>5, <2>1, <2>2, <2>3, <2>4, TargetIs DEF q
<1>8. ASSUME Careful, NEW o \in range
      PROVE  /\ o < h.size /\ o < BlocksFor(h.size) * BlockWords
             /\ Target(h, block_file, o) = BlockAt(block_file, h, o)
             /\ Target(h, block_file, o) \in Own(block_file, h)
             /\ Held(block_file, h, o)
  <2>1. h.size \in Nat
    BY <1>4 DEF Headers
  <2>2. o \in Nat /\ o < h.size
    BY <1>1, <1>2, <1>8, <2>1
  <2>3. o < BlocksFor(h.size) * BlockWords
    <3>1. h.size <= BlocksFor(h.size) * BlockWords /\ BlocksFor(h.size) \in Nat
      BY <2>1, BlocksForIs
    <3>2. BlocksFor(h.size) * BlockWords \in Nat
      BY <1>2, <3>1
    <3> QED BY <2>1, <2>2, <3>1, <3>2
  <2>4. BlocksFor(h.size) \in Nat /\ (o < BlockWords <=> o \div BlockWords = 0)
    BY <2>1, <2>2, <2>3, BlocksForIs, PositionIs
  <2>7. h.direct # Empty
    BY <1>4, <2>1, <2>2 DEF Sound
  <2>8. Held(block_file, h, o)
    BY <1>2, <1>7, <2>2, <2>4 DEF Held
  <2>9. Target(h, block_file, o) = BlockAt(block_file, h, o)
    BY <1>7, <2>4, <2>7 DEF BlockAt, AsInt
  <2>6. Target(h, block_file, o) \in Blocks
    BY <1>8 DEF Reaches, Target
  <2>5. BlockAt(block_file, h, o) \in Blocks => BlockAt(block_file, h, o) \in Own(block_file, h)
    BY <1>4, <1>5, <2>2, <2>3, <2>8, PlaceIs
  <2> QED BY <2>2, <2>3, <2>5, <2>6, <2>8, <2>9
<1> QED BY <1>2, <1>3, <1>6, <1>7, <1>8

LEMMA WriteFileInv ==
  ASSUME FsInv, NEW f \in Files, NEW pos \in Positions, NEW n \in Lengths[usage],
         WriteFile(f, pos, n), Reaches(fcb[f], block_file, pos, n)
  PROVE  FsInv'
<1> DEFINE h == fcb[f]
           range == pos .. (pos + n - 1)
           w == block_file
           v == block_file'
           T(o) == Target(h, w, o)
<1>0. /\ TypeOK /\ usage \in Usages /\ Reserved \subseteq bitmap
      /\ Owners /\ Blanks /\ NoneLost /\ Pending /\ ReadBack
  BY DEF FsInv
<1>1. /\ h \in Views(f) /\ Header(f) = h /\ pos \in Nat /\ n \in Nat
      /\ v \in [Words -> Values]
      /\ \A c \in Blocks, k \in 1 .. BlockWords :
           \/ WordIn(v, c, k) = WordIn(w, c, k) /\ \A o \in range : T(o) = c => o % BlockWords # k - 1
           \/ \E o \in range : OverwrittenAt(f, h, w, o, c, k, v)
      /\ \A o \in range :
           /\ o \in Nat /\ T(o) # h.indirect /\ T(o) \in Own(w, h) \cup {0}
           /\ Careful => /\ o < h.size /\ o < BlocksFor(h.size) * BlockWords
                         /\ T(o) = BlockAt(w, h, o) /\ T(o) \in Own(w, h) /\ Held(w, h, o)
  BY WriteIs
<1>2. /\ UNCHANGED <<usage, fs, fcb, bitmap, unsaved, lapses>>
      /\ ~Careful => written' = written
      /\ Careful => written' = [written EXCEPT ![f] =
            [o \in range \cup DOMAIN written[f] |->
               IF o \in range THEN Letter(f, o) ELSE written[f][o]]]
  BY DEF WriteFile
<1>3. (Careful' <=> Careful) /\ (Tight' <=> Tight)
  BY <1>2 DEF Careful, Tight
<1>4. \A g \in Files : Header(g)' = Header(g) /\ Views(g)' = Views(g)
  BY <1>2, <1>3 DEF Header, Views
<1>5. Own(w, h) \subseteq bitmap \ Reserved /\ 0 \in Blocks
  BY <1>1, ViewIs, DiskIs
<1> HIDE DEF v, T, h
<1>6. ASSUME NEW c \in Blocks, NEW k \in 1 .. BlockWords,
             (c \notin Own(w, h) /\ (Careful \/ c # 0)) \/ c = h.indirect
      PROVE  WordIn(v, c, k) = WordIn(w, c, k)
  BY <1>1, <1>6 DEF OverwrittenAt, T
<1>7. ASSUME NEW g \in Files, NEW i \in Views(g)
      PROVE  /\ Own(v, i) = Own(w, i) /\ Sound(v, i) /\ (Tight => Exact(v, i))
             /\ Own(w, i) \subseteq bitmap \ Reserved
             /\ g # f => Own(w, i) \cap Own(w, h) = {}
             /\ g = f => i = h
             /\ i.indirect \in Blocks => \A k \in 1 .. BlockWords :
                  WordIn(v, i.indirect, k) = WordIn(w, i.indirect, k)
  <2>1. /\ Sound(w, i) /\ (Tight => Exact(w, i)) /\ Own(w, i) \subseteq bitmap \ Reserved
        /\ i.indirect # 0
        /\ i.indirect \in Blocks => i.indirect \in Own(w, i)
    BY ViewIs DEF Sound
  <2>2. g # f => Own(w, i) \cap Own(w, h) = {}
    BY <1>0, <1>1 DEF Owners
  <2>3. g = f => i = h
    BY DEF WriteFile, Idle, Views, Header, h
  <2>4. i.indirect \in Blocks => \A k \in 1 .. BlockWords :
          WordIn(v, i.indirect, k) = WordIn(w, i.indirect, k)
    BY <1>6, <2>1, <2>2, <2>3
  <2>5. Own(v, i) = Own(w, i) /\ Sound(v, i) /\ (Exact(w, i) => Exact(v, i))
    BY <2>1, <2>4, Frame
  <2> QED BY <2>1, <2>2, <2>3, <2>4, <2>5
<1>8. TypeOK'
  BY <1>0, <1>1, <1>2 DEF TypeOK, Values, v
<1>9. Owners'
  <2>1. ASSUME NEW g \in Files, NEW i \in Views(g)
        PROVE  /\ Sound(v, i) /\ (Tight => Exact(v, i))
               /\ Own(v, i) \subseteq bitmap \ Reserved
               /\ \A k \in Files \ {g} : \A j \in Views(k) : Own(v, i) \cap Own(v, j) = {}
    BY <1>0, <1>7 DEF Owners
  <2> QED BY <1>2, <1>3, <1>4, <2>1 DEF Owners, v
<1>10. Blanks'
  <2>1. ASSUME NEW b \in Blocks \ bitmap, NEW k \in 1 .. BlockWords, Careful \/ b # 0
        PROVE  WordIn(v, b, k) = 0
    BY <1>0, <1>5, <1>6, <2>1 DEF Blanks
  <2>2. ASSUME NEW k \in 1 .. BlockWords
        PROVE  WordIn(v, 0, k) \notin (-1 .. BlockCount - 1) \ {0}
    <3>1. WordIn(w, 0, k) \notin (-1 .. BlockCount - 1) \ {0}
      BY <1>0 DEF Blanks
    <3>2. CASE WordIn(v, 0, k) = WordIn(w, 0, k)
      BY <3>1, <3>2
    <3>3. CASE WordIn(v, 0, k) # WordIn(w, 0, k)
      <4>1. PICK o \in range : T(o) = 0 /\ WordIn(v, 0, k) = Letter(f, o)
        BY <1>1, <1>5, <3>3 DEF OverwrittenAt, T
      <4>2. o \in Nat
        BY <1>1, <1>5, <4>1
      <4>3. Letter(f, o) \notin Blocks \cup {-1}
        BY <4>2, ValuesAre
      <4>4. (-1 .. BlockCount - 1) \ {0} \subseteq Blocks \cup {-1}
        BY DiskIs DEF Blocks
      <4> QED BY <4>1, <4>2, <4>3, <4>4
    <3> QED BY <3>2, <3>3
  <2> QED BY <1>2, <1>3, <2>1, <2>2 DEF Blanks, v
<1>11. NoneLost'
  <2>1. Careful => \A b \in bitmap : b \in Reserved \/
                     \E g \in Files : \E i \in Views(g) : b \in Own(v, i)
    BY <1>0, <1>7 DEF NoneLost
  <2> QED BY <1>2, <1>3, <1>4, <2>1 DEF NoneLost, v
<1>12. Pending'
  BY <1>0, <1>2 DEF Pending
<1>13. ReadBack'
  <2>0. DOMAIN written = Files /\ DOMAIN written' = Files
    BY <1>0, <1>2 DEF ReadBack
  <2>1. ASSUME Careful, NEW g \in Files, NEW o \in DOMAIN written'[g]
        PROVE  /\ Header(g) # NoFile
               /\ o \in 0 .. (BlocksFor(Header(g).size) * BlockWords - 1)
               /\ BlockAt(v, Header(g), o) \in Blocks /\ Held(v, Header(g), o)
               /\ v[BlockAt(v, Header(g), o) * BlockWords + (o % BlockWords)] = written'[g][o]
    <3> DEFINE i == Header(g)
               b == BlockAt(w, i, o)
               k == (o % BlockWords) + 1
    <3>1. IF g = f /\ o \in range THEN written'[g][o] = Letter(f, o)
          ELSE o \in DOMAIN written[g] /\ written'[g][o] = written[g][o]
      BY <1>2, <2>0, <2>1
    <3>2. ~(g = f /\ o \in range) =>
            /\ i # NoFile /\ o \in 0 .. (BlocksFor(i.size) * BlockWords - 1)
            /\ b \in Blocks /\ Held(w, i, o) /\ w[b * BlockWords + (o % BlockWords)] = written[g][o]
      BY <1>0, <2>1, <3>1 DEF ReadBack
    <3>3. i # NoFile /\ i \in Views(g)
      <4>1. CASE g = f
        BY <1>1, <4>1 DEF Views
      <4>2. CASE g # f
        BY <3>2, <4>2 DEF Views
      <4> QED BY <4>1, <4>2
    <3>4. /\ Sound(w, i) /\ BlocksFor(i.size) \in Nat /\ BlockWords \in Nat
          /\ BlockWords >= 1 /\ w \in [Words -> Values]
          /\ Own(w, i) \subseteq bitmap \ Reserved
      <4>1. Sound(w, i) /\ i.size \in Nat /\ Own(w, i) \subseteq bitmap \ Reserved
        BY <2>1, <3>3, ViewIs DEF Sound, Headers
      <4> QED BY <1>0, <4>1, BlocksForIs, DiskIs DEF TypeOK, Values
    <3>5. o \in Nat /\ o < BlocksFor(i.size) * BlockWords /\ b \in Blocks /\ Held(w, i, o)
      <4>1. CASE g = f /\ o \in range
        <5>1. i = h
          BY <1>1, <4>1
        <5>2. o \in Nat /\ o < BlocksFor(h.size) * BlockWords /\ T(o) = BlockAt(w, h, o)
              /\ T(o) \in Own(w, h) /\ Held(w, h, o)
          BY <1>1, <2>1, <4>1
        <5> QED BY <5>1, <5>2 DEF Own
      <4>2. CASE ~(g = f /\ o \in range)
        <5> HIDE DEF i, b
        <5>1. o \in 0 .. (BlocksFor(i.size) * BlockWords - 1) /\ b \in Blocks /\ Held(w, i, o)
          BY <3>2, <4>2
        <5>2. BlocksFor(i.size) * BlockWords \in Nat
          BY <3>4
        <5> QED BY <5>1, <5>2
      <4> QED BY <4>1, <4>2
    <3>6. /\ b \in Own(w, i)
          /\ o >= BlockWords => /\ i.indirect \in Blocks /\ o \div BlockWords \in 1 .. BlockWords
                                /\ WordIn(w, i.indirect, o \div BlockWords) # 0
      BY <3>4, <3>5, PlaceIs
    <3>7. BlockAt(v, i, o) = b /\ Held(v, i, o)
      <4> HIDE DEF i
      <4>1. i.indirect \in Blocks => \A j \in 1 .. BlockWords :
              WordIn(v, i.indirect, j) = WordIn(w, i.indirect, j)
        BY <1>7, <3>3
      <4> QED BY <3>4, <3>5, <3>6, <4>1 DEF BlockAt, Held
    <3>8. k \in 1 .. BlockWords
      BY <3>4, <3>5, DivMod
    <3>9. b \in Blocks
      BY <3>5
    <3> HIDE DEF b, i
    <3>10. \A x \in [Words -> Values] : WordIn(x, b, k) = x[b * BlockWords + (o % BlockWords)]
      <4>1. b * BlockWords \in Nat /\ o % BlockWords \in Nat
        <5>1. b \in Nat
          BY <3>5, DiskIs
        <5>2. o % BlockWords \in 0 .. BlockWords - 1
          BY <3>5, DivMod
        <5> QED BY <3>4, <5>1, <5>2
      <4>2. b * BlockWords + k - 1 = b * BlockWords + (o % BlockWords)
        BY <4>1
      <4> HIDE DEF k
      <4> QED BY <4>2 DEF WordIn
    <3>11. WordIn(v, b, k) = written'[g][o]
      <4>1. CASE g = f
        <5>1. i = h
          BY <1>1, <4>1 DEF i
        <5>2. ASSUME NEW p \in range, T(p) = b, p % BlockWords = k - 1 PROVE p = o
          <6>1. /\ p \in Nat /\ p < BlocksFor(i.size) * BlockWords /\ BlockAt(w, i, p) = b
                /\ Held(w, i, p)
            BY <1>1, <2>1, <5>1, <5>2
          <6>2. o % BlockWords = p % BlockWords
            <7>1. o % BlockWords \in Nat
              BY <3>5, DivMod
            <7> QED BY <5>2, <7>1
          <6>3. BlockAt(w, i, o) = BlockAt(w, i, p) /\ BlockAt(w, i, o) \in Blocks
            BY <3>9, <6>1 DEF b
          <6> QED BY <3>4, <3>5, <6>1, <6>2, <6>3, PlacesApart
        <5>3. CASE o \in range
          <6>1. T(o) = b
            BY <1>1, <2>1, <5>1, <5>3 DEF b
          <6>2. o % BlockWords = k - 1
            <7>1. o % BlockWords \in Nat
              BY <3>5, DivMod
            <7> QED BY <7>1
          <6>3. PICK p \in range : OverwrittenAt(f, h, w, p, b, k, v)
            BY <1>1, <3>8, <3>9, <5>3, <6>1, <6>2
          <6>4. T(p) = b /\ p % BlockWords = k - 1 /\ WordIn(v, b, k) = Letter(f, p)
            BY <6>3 DEF OverwrittenAt, T
          <6>5. p = o
            BY <5>2, <6>4
          <6> QED BY <3>1, <4>1, <5>3, <6>4, <6>5
        <5>4. CASE o \notin range
          <6>1. ~ \E p \in range : OverwrittenAt(f, h, w, p, b, k, v)
            BY <5>2, <5>4 DEF OverwrittenAt, T
          <6>2. WordIn(v, b, k) = WordIn(w, b, k)
            BY <1>1, <3>8, <3>9, <6>1
          <6> QED BY <3>1, <3>2, <3>4, <3>10, <5>4, <6>2
        <5> QED BY <5>3, <5>4
      <4>2. CASE g # f
        <5>1. b \notin Own(w, h)
          BY <1>7, <3>3, <3>6, <4>2
        <5>2. WordIn(v, b, k) = WordIn(w, b, k)
          BY <1>6, <2>1, <3>8, <3>9, <5>1
        <5> QED BY <3>1, <3>2, <3>4, <3>10, <4>2, <5>2
      <4> QED BY <4>1, <4>2
    <3>12. o \in 0 .. (BlocksFor(i.size) * BlockWords - 1)
      <4>1. BlocksFor(i.size) * BlockWords \in Nat
        BY <3>4
      <4> QED BY <3>5, <4>1
    <3> QED BY <1>1, <3>3, <3>7, <3>9, <3>10, <3>11, <3>12 DEF i
  <2> QED BY <1>3, <1>4, <2>0, <2>1 DEF ReadBack, v
<1>14. (usage \in Usages)' /\ (Reserved \subseteq bitmap)'
  BY <1>0, <1>2
<1> QED BY <1>8, <1>9, <1>10, <1>11, <1>12, <1>13, <1>14 DEF FsInv

-----------------------------------------------------------------------------
(* What the invariant says of the sequences that the properties speak of.  *)

LEMMA PointersAre ==
  ASSUME FsInv, NEW f \in Files, NEW h, h = Header(f), h # NoFile,
         NEW p, p = PointersOf(f), NEW l, l = Listed(h)
  PROVE  /\ h.size = 0 => DOMAIN p = {} /\ Len(p) = 0
         /\ h.size > 0 /\ h.size <= BlockWords =>
              DOMAIN p = {1} /\ Len(p) = 1 /\ p[1] = h.direct
         /\ h.size > BlockWords =>
              /\ Len(l) \in Nat /\ Len(p) = 2 + Len(l) /\ DOMAIN p = 1 .. 2 + Len(l)
              /\ p[1] = h.direct /\ p[2] = h.indirect
              /\ \A k \in 1 .. Len(l) : p[k + 2] = l[k]
         /\ h.indirect \in Blocks =>
              /\ Packed(block_file, h.indirect, Len(l)) /\ Len(l) \in 0 .. BlockWords
              /\ \A k \in 1 .. Len(l) : l[k] = WordIn(block_file, h.indirect, k)
         /\ h.indirect \notin Blocks => Len(l) = 0
<1>0. /\ h \in Headers /\ Sound(block_file, h) /\ h.size \in Nat /\ BlockWords \in Nat
      /\ BlockWords >= 1
      /\ (h.direct = Empty <=> h.size = 0) /\ (h.indirect = Empty <=> h.size <= BlockWords)
      /\ block_file \in [Words -> Values] /\ Empty \notin Blocks
  <2>1. h \in Views(f)
    BY DEF Views
  <2> QED BY <2>1, ViewIs, DiskIs DEF FsInv, TypeOK, Values, Sound, Headers
<1> DEFINE V == Values \cup {h.direct, h.indirect}
<1>1. h.indirect \in Blocks =>
        /\ l \in Seq(V) /\ Packed(block_file, h.indirect, Len(l)) /\ Len(l) \in 0 .. BlockWords
        /\ \A k \in 1 .. Len(l) : l[k] = WordIn(block_file, h.indirect, k)
  <2> SUFFICES ASSUME h.indirect \in Blocks
               PROVE  /\ l \in Seq(V) /\ Packed(block_file, h.indirect, Len(l))
                      /\ Len(l) \in 0 .. BlockWords
                      /\ \A k \in 1 .. Len(l) : l[k] = WordIn(block_file, h.indirect, k)
    OBVIOUS
  <2>1. PICK n \in 0 .. BlockWords : Packed(block_file, h.indirect, n)
    BY <1>0 DEF Sound
  <2>2. l = GetBfIp(block_file, h.indirect)
    BY DEF Listed
  <2>3. /\ l \in Seq(Values) /\ Len(l) = n
        /\ \A k \in 1 .. n : l[k] = WordIn(block_file, h.indirect, k)
    BY <1>0, <2>1, <2>2, GetPacked
  <2> QED BY <2>1, <2>3
<1>2. h.indirect \notin Blocks => l = <<>>
  BY DEF Listed
<1>3. l \in Seq(V) /\ Len(l) \in Nat
  <2> HIDE DEF V
  <2>1. CASE h.indirect \in Blocks
    BY <1>1, <2>1, LenProperties
  <2>2. CASE h.indirect \notin Blocks
    BY <1>2, <2>2, EmptySeq
  <2> QED BY <2>1, <2>2
<1>4. p = IfSet(h.direct) \o IfSet(h.indirect) \o l
  BY DEF PointersOf
<1>5. CASE h.size = 0
  <2>1. h.direct = Empty /\ h.indirect = Empty /\ l = <<>>
    BY <1>0, <1>2, <1>5
  <2>2. p = <<>> \o <<>> \o <<>>
    BY <1>4, <2>1 DEF IfSet
  <2>3. p = <<>>
    BY <2>2
  <2> QED BY <1>0, <1>1, <1>2, <1>5, <2>1, <2>3
<1>6. CASE h.size > 0 /\ h.size <= BlockWords
  <2>1. h.direct # Empty /\ h.indirect = Empty /\ l = <<>>
    BY <1>0, <1>2, <1>6
  <2>2. p = <<h.direct>> \o <<>> \o <<>>
    BY <1>4, <2>1 DEF IfSet
  <2>3. p = <<h.direct>>
    BY <2>2
  <2>4. DOMAIN p = {1} /\ Len(p) = 1 /\ p[1] = h.direct
    BY <2>3
  <2> QED BY <1>0, <1>1, <1>2, <1>6, <2>1, <2>4
<1>7. CASE h.size > BlockWords
  <2> DEFINE c == <<h.direct>> \o <<h.indirect>>
  <2>1. h.direct # Empty /\ h.indirect # Empty
    BY <1>0, <1>7
  <2>2. p = c \o l
    BY <1>4, <2>1 DEF IfSet
  <2>3. c \in Seq(V) /\ Len(c) = 2 /\ c[1] = h.direct /\ c[2] = h.indirect
    OBVIOUS
  <2> HIDE DEF c, V
  <2>4. /\ Len(c \o l) = Len(c) + Len(l) /\ c \o l \in Seq(V)
        /\ \A k \in 1 .. Len(c) + Len(l) :
             (c \o l)[k] = IF k <= Len(c) THEN c[k] ELSE l[k - Len(c)]
    BY <1>3, <2>3, ConcatProperties
  <2>5. Len(p) = 2 + Len(l) /\ DOMAIN p = 1 .. 2 + Len(l)
        /\ \A k \in 1 .. 2 + Len(l) : p[k] = IF k <= 2 THEN c[k] ELSE l[k - 2]
    BY <1>3, <2>2, <2>3, <2>4, LenProperties
  <2>6. p[1] = h.direct /\ p[2] = h.indirect
    BY <1>3, <2>3, <2>5
  <2>7. \A k \in 1 .. Len(l) : p[k + 2] = l[k]
    <3> SUFFICES ASSUME NEW k \in 1 .. Len(l) PROVE p[k + 2] = l[k]
      OBVIOUS
    <3>1. k + 2 \in 1 .. 2 + Len(l) /\ ~(k + 2 <= 2) /\ (k + 2) - 2 = k
      BY <1>3
    <3> QED BY <2>5, <3>1
  <2> QED BY <1>0, <1>1, <1>2, <1>3, <1>7, <2>5, <2>6, <2>7
<1> QED BY <1>0, <1>5, <1>6, <1>7

(* The blocks of a file are those of its header, each of them once.        *)
LEMMA BlocksOfIs ==
  ASSUME FsInv, NEW f \in Files, NEW h, h = Header(f), h # NoFile,
         NEW p, p = PointersOf(f)
  PROVE  /\ BlocksOf(f) = Own(block_file, h)
         /\ \A j \in DOMAIN p : p[j] \in Blocks => p[j] \in Own(block_file, h)
         /\ \A j, k \in DOMAIN p : p[j] = p[k] /\ p[j] \in Blocks => j = k
<1> DEFINE l == Listed(h)
           w == block_file
<1>0. /\ h.size \in Nat /\ BlockWords \in Nat /\ Distinct(w, h)
      /\ (h.direct = Empty <=> h.size = 0) /\ (h.indirect = Empty <=> h.size <= BlockWords)
      /\ Empty \notin Blocks
  <2>1. h \in Views(f)
    BY DEF Views
  <2> QED BY <2>1, ViewIs, DiskIs DEF Sound, Headers
<1>1. /\ h.size = 0 => DOMAIN p = {}
      /\ h.size > 0 /\ h.size <= BlockWords => DOMAIN p = {1} /\ p[1] = h.direct
      /\ h.size > BlockWords =>
           /\ Len(l) \in Nat /\ DOMAIN p = 1 .. 2 + Len(l)
           /\ p[1] = h.direct /\ p[2] = h.indirect
           /\ \A k \in 1 .. Len(l) : p[k + 2] = l[k]
      /\ h.indirect \in Blocks =>
           /\ Packed(w, h.indirect, Len(l)) /\ Len(l) \in 0 .. BlockWords
           /\ \A k \in 1 .. Len(l) : l[k] = WordIn(w, h.indirect, k)
      /\ h.indirect \notin Blocks => Len(l) = 0
  BY PointersAre
<1> HIDE DEF l
<1>2. h.indirect \in Blocks => \A k \in 1 .. Len(l) :
        /\ k \in 1 .. BlockWords /\ l[k] # 0 /\ l[k] = WordIn(w, h.indirect, k)
        /\ l[k] \in Blocks =>
             /\ l[k] \in Own(w, h) /\ l[k] # h.direct /\ l[k] # h.indirect
             /\ \A j \in 1 .. Len(l) : l[j] = l[k] => j = k
  <2> SUFFICES ASSUME h.indirect \in Blocks, NEW k \in 1 .. Len(l)
               PROVE  /\ k \in 1 .. BlockWords /\ l[k] # 0 /\ l[k] = WordIn(w, h.indirect, k)
                      /\ l[k] \in Blocks =>
                           /\ l[k] \in Own(w, h) /\ l[k] # h.direct /\ l[k] # h.indirect
                           /\ \A j \in 1 .. Len(l) : l[j] = l[k] => j = k
    OBVIOUS
  <2>1. \A j \in 1 .. Len(l) : j \in 1 .. BlockWords /\ l[j] = WordIn(w, h.indirect, j)
    BY <1>0, <1>1
  <2>2. l[k] # 0
    BY <1>1, <2>1 DEF Packed
  <2>3. l[k] \in Blocks => l[k] \in Own(w, h)
    BY <2>1, <2>2 DEF Own, Named
  <2>4. l[k] \in Blocks =>
          /\ l[k] # h.direct /\ l[k] # h.indirect
          /\ \A j \in 1 .. BlockWords : WordIn(w, h.indirect, j) = l[k] => j = k
    BY <1>0, <2>1, <2>2 DEF Distinct
  <2> QED BY <2>1, <2>2, <2>3, <2>4
<1>3. h.size > BlockWords => \A j \in DOMAIN p :
        j = 1 \/ j = 2 \/ (j - 2 \in 1 .. Len(l) /\ p[j] = l[j - 2] /\ h.indirect \in Blocks)
  <2> SUFFICES ASSUME h.size > BlockWords, NEW j \in 1 .. 2 + Len(l), j # 1, j # 2
               PROVE  j - 2 \in 1 .. Len(l) /\ p[j] = l[j - 2] /\ h.indirect \in Blocks
    BY <1>1
  <2>1. j - 2 \in 1 .. Len(l) /\ (j - 2) + 2 = j
    BY <1>1
  <2> QED BY <1>1, <2>1
<1>4. ASSUME NEW j \in DOMAIN p, p[j] \in Blocks PROVE p[j] \in Own(w, h)
  <2>1. (h.direct \in Blocks => h.direct \in Own(w, h))
        /\ (h.indirect \in Blocks => h.indirect \in Own(w, h))
    BY DEF Own, Named
  <2>2. CASE h.size <= BlockWords
    BY <1>0, <1>1, <1>4, <2>1, <2>2
  <2>3. CASE h.size > BlockWords
    BY <1>1, <1>2, <1>3, <1>4, <2>1, <2>3
  <2> QED BY <1>0, <2>2, <2>3
<1>5. ASSUME NEW j \in DOMAIN p, NEW k \in DOMAIN p, p[j] = p[k], p[j] \in Blocks
      PROVE  j = k
  <2>1. CASE h.size <= BlockWords
    BY <1>0, <1>1, <1>5, <2>1
  <2>2. CASE h.size > BlockWords
    <3>1. j \in Nat /\ k \in Nat
      BY <1>1, <2>2
    <3>2. p[1] = h.direct /\ p[2] = h.indirect
      BY <1>1, <2>2
    <3>3. h.direct \in Blocks => h.direct # h.indirect
      BY <1>0 DEF Distinct
    <3>4. CASE j \in {1, 2} /\ k \in {1, 2}
      BY <1>5, <3>2, <3>3, <3>4
    <3>5. CASE j \in {1, 2} /\ k \notin {1, 2}
      BY <1>2, <1>3, <1>5, <2>2, <3>2, <3>5
    <3>6. CASE j \notin {1, 2} /\ k \in {1, 2}
      BY <1>2, <1>3, <1>5, <2>2, <3>2, <3>6
    <3>7. CASE j \notin {1, 2} /\ k \notin {1, 2}
      <4>1. /\ j - 2 \in 1 .. Len(l) /\ p[j] = l[j - 2]
            /\ k - 2 \in 1 .. Len(l) /\ p[k] = l[k - 2] /\ h.indirect \in Blocks
        BY <1>3, <2>2, <3>7
      <4>2. j - 2 = k - 2
        BY <1>2, <1>5, <4>1
      <4> QED BY <3>1, <4>2
    <3> QED BY <3>4, <3>5, <3>6, <3>7
  <2> QED BY <1>0, <2>1, <2>2
<1>6. ASSUME NEW b \in Own(w, h) PROVE \E j \in DOMAIN p : p[j] = b
  <2>0. b \in Blocks /\ Named(w, h, b)
    BY DEF Own
  <2>1. CASE b = h.direct
    BY <1>0, <1>1, <2>0, <2>1
  <2>2. CASE b = h.indirect
    BY <1>0, <1>1, <2>0, <2>2
  <2>3. CASE /\ h.indirect \in Blocks
             /\ \E k \in 1 .. BlockWords : WordIn(w, h.indirect, k) = b /\ b # 0
    <3>1. PICK k \in 1 .. BlockWords : WordIn(w, h.indirect, k) = b /\ b # 0
      BY <2>3
    <3>2. k <= Len(l) /\ k \in 1 .. Len(l)
      BY <1>0, <1>1, <2>0, <2>3, <3>1 DEF Packed
    <3>3. h.size > BlockWords
      BY <1>0, <2>3
    <3>4. k + 2 \in DOMAIN p /\ p[k + 2] = l[k] /\ l[k] = b
      BY <1>0, <1>1, <2>3, <3>1, <3>2, <3>3
    <3> QED BY <3>4
  <2> QED BY <2>0, <2>1, <2>2, <2>3 DEF Named
<1>7. BlocksOf(f) = Own(w, h)
  <2>1. Own(w, h) \subseteq Blocks
    BY DEF Own
  <2> QED BY <1>4, <1>6, <2>1 DEF BlocksOf, ToSet
<1> QED BY <1>4, <1>5, <1>7

-----------------------------------------------------------------------------
(* Types, which need no invariant: they survive the truncations that leave *)
(* the file system out of track.                                           *)

LEMMA SetType ==
  ASSUME NEW d \in Disks, NEW b \in Int, NEW list \in Seq(Values)
  PROVE  SetBfIp(d, b, list) \in Disks
<1> DEFINE first == b * BlockWords
           n == Len(list)
           place == first .. (first + n - 1)
<1>1. first \in Int /\ n \in Nat
  BY DiskIs, LenProperties
<1>2. \A w \in place : w - first + 1 \in 1 .. n
  <2> HIDE DEF first, n
  <2> QED BY <1>1
<1>3. \A k \in 1 .. n : list[k] \in Values
  BY ElementOfSeq
<1> HIDE DEF first, n
<1>4. CASE place \subseteq Words
  <2> DEFINE new == [w \in Words |-> IF w \in place THEN list[w - first + 1] ELSE d.words[w]]
  <2>1. SetBfIp(d, b, list) = [d EXCEPT !.words = new]
    BY <1>4 DEF SetBfIp, first, n
  <2>2. new \in [Words -> Values]
    BY <1>2, <1>3 DEF Disks
  <2> HIDE DEF new
  <2> QED BY <2>1, <2>2 DEF Disks
<1>5. CASE ~(place \subseteq Words)
  <2>1. SetBfIp(d, b, list) = [d EXCEPT !.ok = FALSE]
    BY <1>5 DEF SetBfIp, first, n
  <2> QED BY <2>1 DEF Disks
<1> QED BY <1>4, <1>5

Typed(r) == r.disk \in Disks /\ r.direct \in Pointers /\ r.indirect \in Pointers

LEMMA FreedType ==
  ASSUME NEW d \in Disks, NEW p, NEW list \in Seq(Values)
  PROVE  /\ Freed(d, p) \in Disks /\ FreedIfSet(d, p) \in Disks
         /\ AllFreed(d, list) \in Disks
<1>1. Wiped(d, Freed(d, p), {p}) /\ Wiped(d, AllFreed(d, list), ToSet(list))
  BY FreedIs, AllFreedIs
<1> QED BY <1>1 DEF Wiped, FreedIfSet

LEMMA ManyTyped ==
  ASSUME NEW d \in Disks, NEW h \in Headers, NEW size \in Nat, size > BlockWords,
         NEW list \in Seq(Values)
  PROVE  Typed(ToManyBlocks(d, h, list, size))
<1> DEFINE direct == Allocated(d, h.direct)
           indirect == Allocated(direct.disk, h.indirect)
           need == CountPiNeed(size)
           grown == Extended(indirect.disk, list, need - Len(list))
           kept == SubSeq(list, 1, need)
           rest == SubSeq(list, need + 1, Len(list))
           cut == AllFreed(indirect.disk, Reverse(rest))
           shrunk == Cleared(cut, indirect.block)
<1>1. h.direct \in Pointers /\ h.indirect \in Pointers
  BY DEF Headers
<1>2. direct.disk \in Disks /\ direct.block \in Blocks \cup {-1}
  BY <1>1, AllocatedIs DEF Taken
<1>3. indirect.disk \in Disks /\ indirect.block \in Blocks \cup {-1}
  <2> HIDE DEF direct
  <2> QED BY <1>1, <1>2, AllocatedIs DEF Taken
<1>4. direct.block \in Pointers /\ indirect.block \in Pointers /\ indirect.block \in Int
  <2> HIDE DEF direct, indirect
  <2>1. \A b \in Blocks \cup {-1} : b \in Pointers
    BY DEF Pointers
  <2>2. \A b \in Blocks \cup {-1} : b \in Int
    BY DiskIs
  <2> QED BY <1>2, <1>3, <2>1, <2>2
<1>5. need \in Nat /\ Len(list) \in Nat
  <2>1. BlocksFor(size) \in Nat /\ BlocksFor(size) >= 2
    BY BlocksForIs
  <2> QED BY <2>1, LenProperties DEF CountPiNeed
<1>6. ToManyBlocks(d, h, list, size) =
        [ disk |-> IF need > Len(list) THEN SetBfIp(grown.disk, indirect.block, grown.list)
                   ELSE IF need < Len(list) THEN SetBfIp(shrunk, indirect.block, kept)
                   ELSE indirect.disk,
          direct |-> direct.block, indirect |-> indirect.block ]
  BY DEF ToManyBlocks
<1> HIDE DEF direct, indirect, need
<1>7. CASE need > Len(list)
  <2>1. need - Len(list) \in Nat
    BY <1>5, <1>7
  <2>2. grown.disk \in Disks /\ grown.list \in Seq(Values)
    <3>1. Longer(indirect.disk, list, grown, need - Len(list))
      BY <1>3, <2>1, ExtendedIs
    <3> HIDE DEF grown
    <3> QED BY <3>1 DEF Longer, Accs
  <2> HIDE DEF grown
  <2>3. SetBfIp(grown.disk, indirect.block, grown.list) \in Disks
    BY <1>4, <2>2, SetType
  <2> QED BY <1>4, <1>6, <1>7, <2>3 DEF Typed
<1>8. CASE need < Len(list)
  <2>1. kept \in Seq(Values) /\ rest \in Seq(Values)
    <3>1. \A k \in 1 .. Len(list) : list[k] \in Values
      BY ElementOfSeq
    <3>2. 1 .. need \subseteq 1 .. Len(list) /\ need + 1 .. Len(list) \subseteq 1 .. Len(list)
      BY <1>5, <1>8
    <3> QED BY <1>5, <1>8, <3>1, <3>2, SubSeqProperties
  <2>2. Reverse(rest) \in Seq(Values)
    <3> HIDE DEF rest
    <3>1. Len(rest) \in Nat /\ \A k \in 1 .. Len(rest) : rest[k] \in Values
      BY <2>1, LenProperties, ElementOfSeq
    <3>2. \A k \in 1 .. Len(rest) : (Len(rest) - k) + 1 \in 1 .. Len(rest)
      BY <3>1
    <3> QED BY <3>1, <3>2 DEF Reverse
  <2>3. cut \in Disks
    <3> HIDE DEF rest
    <3> QED BY <1>3, <2>2, FreedType
  <2>4. shrunk \in Disks
    <3> HIDE DEF cut
    <3> QED BY <2>3, ClearedIs
  <2> HIDE DEF shrunk, kept
  <2>5. SetBfIp(shrunk, indirect.block, kept) \in Disks
    BY <1>4, <2>1, <2>4, SetType
  <2>6. ~(need > Len(list))
    BY <1>5, <1>8
  <2> QED BY <1>4, <1>6, <1>8, <2>5, <2>6 DEF Typed
<1>9. CASE need = Len(list)
  <2>1. ~(need > Len(list)) /\ ~(need < Len(list))
    BY <1>5, <1>9
  <2> QED BY <1>3, <1>4, <1>6, <2>1 DEF Typed
<1> QED BY <1>5, <1>7, <1>8, <1>9

LEMMA ResizeTyped ==
  ASSUME NEW d \in Disks, NEW h \in Headers, NEW size \in Nat
  PROVE  Typed(Resize(d, h, size))
<1> DEFINE b == AsInt(h.indirect)
           list == GetBfIp(d.words, b)
           r == Resize(d, h, size)
<1>1. h.direct \in Pointers /\ h.indirect \in Pointers /\ Empty \in Pointers
  BY DEF Headers, Pointers
<1>2. CASE size = h.size
  BY <1>1, <1>2 DEF Resize, Typed
<1>3. CASE size # h.size /\ b \notin Blocks
  <2>1. r = Faulted(d, h)
    BY <1>3 DEF Resize
  <2>2. [d EXCEPT !.ok = FALSE] \in Disks
    BY DEF Disks
  <2>3. Typed(Faulted(d, h))
    BY <1>1, <2>2 DEF Faulted, Typed
  <2> QED BY <2>1, <2>3
<1>4. CASE size # h.size /\ b \in Blocks
  <2>1. list \in Seq(Values)
    <3> HIDE DEF b
    <3>1. d.words \in [Words -> Values]
      BY DEF Disks
    <3> QED BY <1>4, <3>1, GetMembers
  <2>2. r = IF size = 0 THEN ToNothing(d, h, list)
            ELSE IF size <= BlockWords THEN ToOneBlock(d, h, list)
            ELSE ToManyBlocks(d, h, list, size)
    BY <1>4 DEF Resize
  <2> HIDE DEF list, r
  <2>3. Typed(ToNothing(d, h, list))
    <3>1. FreedIfSet(d, h.direct) \in Disks
      BY <2>1, FreedType
    <3>2. AllFreed(FreedIfSet(d, h.direct), list) \in Disks
      BY <2>1, <3>1, FreedType
    <3>3. Freed(AllFreed(FreedIfSet(d, h.direct), list), h.indirect) \in Disks
      BY <2>1, <3>2, FreedType
    <3> QED BY <1>1, <3>1, <3>3 DEF ToNothing, Typed
  <2>4. Typed(ToOneBlock(d, h, list))
    <3> DEFINE direct == Allocated(d, h.direct)
    <3>1. direct.disk \in Disks /\ direct.block \in Pointers
      BY <1>1, AllocatedIs DEF Taken, Pointers
    <3>2. ToOneBlock(d, h, list) =
            [ disk |-> IF h.indirect = Empty THEN direct.disk
                       ELSE Freed(AllFreed(direct.disk, list), h.indirect),
              direct |-> direct.block, indirect |-> Empty ]
      BY DEF ToOneBlock, PointersFreed
    <3> HIDE DEF direct
    <3>3. AllFreed(direct.disk, list) \in Disks
      BY <2>1, <3>1, FreedType
    <3>4. Freed(AllFreed(direct.disk, list), h.indirect) \in Disks
      BY <2>1, <3>3, FreedType
    <3> QED BY <1>1, <3>1, <3>2, <3>4 DEF Typed
  <2>5. size > BlockWords => Typed(ToManyBlocks(d, h, list, size))
    BY <2>1, ManyTyped
  <2>6. size <= BlockWords \/ size > BlockWords
    BY DiskIs
  <2> QED BY <2>2, <2>3, <2>4, <2>5, <2>6 DEF r
<1> QED BY <1>2, <1>3, <1>4

LEMMA TruncateFileTyped ==
  ASSUME TypeOK, usage \in Usages, NEW f \in Files, NEW size \in Sizes[usage],
         TruncateFile(f, size)
  PROVE  TypeOK'
<1> DEFINE d == [bitmap |-> bitmap, words |-> block_file, ok |-> TRUE]
           r == Resize(d, fcb[f], size)
           h == [size |-> size, direct |-> r.direct, indirect |-> r.indirect]
<1>1. CASE fcb[f] = NoFile
  <2>1. fs' = "no_fcb" /\ UNCHANGED <<fcb, bitmap, block_file, unsaved>>
    BY <1>1 DEF TruncateFile
  <2> QED BY <2>1 DEF TypeOK
<1>2. CASE fcb[f] # NoFile
  <2>1. d \in Disks /\ fcb[f] \in Headers /\ size \in Nat
    BY <1>2, SizesAssumption DEF TypeOK, Disks, Values
  <2>2. Typed(r)
    <3> HIDE DEF d
    <3> QED BY <2>1, ResizeTyped
  <2>3. /\ fcb' = fcb
        /\ \/ /\ bitmap' = r.disk.bitmap /\ block_file' = r.disk.words
              /\ unsaved' = [file |-> f, header |-> h] /\ fs' = fs
           \/ fs' = "bad_block" /\ UNCHANGED <<bitmap, block_file, unsaved>>
    BY <1>2 DEF TruncateFile
  <2> HIDE DEF r
  <2>4. h \in Headers /\ r.disk.bitmap \subseteq Blocks /\ r.disk.words \in [Words -> Values]
    BY <2>1, <2>2 DEF Typed, Headers, Disks
  <2> HIDE DEF h
  <2> QED BY <2>3, <2>4 DEF TypeOK, Values
<1> QED BY <1>1, <1>2

LEMMA WriteFileTyped ==
  ASSUME TypeOK, usage \in Usages, NEW f \in Files, NEW pos \in Positions,
         NEW n \in Lengths[usage], WriteFile(f, pos, n)
  PROVE  TypeOK'
<1>1. UNCHANGED <<fcb, bitmap, unsaved>>
  BY DEF WriteFile
<1>2. CASE Reaches(fcb[f], block_file, pos, n)
  <2>1. block_file' = Overwritten(f, fcb[f], block_file, pos, n) /\ fs' = fs
    BY <1>2 DEF WriteFile, Overwritten, Hits
  <2>2. pos \in Nat /\ n \in Nat /\ block_file \in [Words -> Values]
    BY SizesAssumption DEF Positions, TypeOK, Values
  <2>3. block_file' \in [Words -> Values]
    BY <1>2, <2>1, <2>2, OverwrittenIs
  <2> QED BY <1>1, <2>1, <2>3 DEF TypeOK, Values
<1>3. CASE ~Reaches(fcb[f], block_file, pos, n)
  BY <1>1, <1>3 DEF WriteFile, TypeOK
<1> QED BY <1>2, <1>3

(* Every pointer and every word of the disk is one that the code can have  *)
(* put there, on a new disk and with sizes that do not fit too: no request *)
(* makes a block number that is not of the disk, but the -1 of a full one. *)
THEOREM TypeCorrect == Spec => []TypeOK
<1> DEFINE T == TypeOK /\ usage \in Usages
<1>1. Init => T
  BY InitInv DEF FsInv
<1>2. T /\ [Next]_vars => T'
  <2> SUFFICES ASSUME T, [Next]_vars PROVE T'
    OBVIOUS
  <2>1. usage' = usage
    BY DEF Next, vars, OpenFile, TruncateFile, WriteFile, SaveFcb, Crash
  <2>2. ASSUME NEW f \in Files, OpenFile(f) PROVE TypeOK'
    <3>1. [size |-> 0, direct |-> Empty, indirect |-> Empty] \in Headers
      BY DEF Headers, Pointers
    <3> QED BY <2>2, <3>1 DEF OpenFile, TypeOK
  <2>3. ASSUME NEW f \in Files, NEW size \in Sizes[usage], TruncateFile(f, size) PROVE TypeOK'
    BY <2>3, TruncateFileTyped
  <2>4. ASSUME NEW f \in Files, NEW pos \in Positions, NEW n \in Lengths[usage],
               WriteFile(f, pos, n)
        PROVE  TypeOK'
    BY <2>4, WriteFileTyped
  <2>5. CASE SaveFcb
    <3>1. unsaved.header \in Headers
      BY <2>5 DEF SaveFcb, TypeOK
    <3> QED BY <2>5, <3>1 DEF SaveFcb, TypeOK
  <2>6. CASE Crash
    BY <2>6 DEF Crash, TypeOK
  <2>7. CASE UNCHANGED vars
    BY <2>7 DEF vars, TypeOK
  <2> QED BY <2>1, <2>2, <2>3, <2>4, <2>5, <2>6, <2>7 DEF Next
<1>3. T => TypeOK
  OBVIOUS
<1> QED BY <1>1, <1>2, <1>3, PTL DEF Spec

-----------------------------------------------------------------------------
(* The theorems, for disks and blocks of any size, new or not, and for any *)
(* histories in which the file system knows its blocks (InTrack): up to    *)
(* the truncation, if any, that gives out block 0 as a pointer block or    *)
(* into one, or that runs over a pointer block.                            *)

LEMMA LapsesAreKept ==
  ASSUME [Next]_vars
  PROVE  lapses \subseteq lapses'
<1>1. CASE \E f \in Files, size \in Sizes[usage] : TruncateFile(f, size)
  <2>1. PICK f \in Files, size \in Sizes[usage] : TruncateFile(f, size)
    BY <1>1
  <2> DEFINE d == [bitmap |-> bitmap, words |-> block_file, ok |-> TRUE]
  <2>2. lapses' = lapses \/ lapses' = lapses \cup Lapses(d, fcb[f], size)
    BY <2>1 DEF TruncateFile
  <2> HIDE DEF d
  <2> QED BY <2>2
<1>2. CASE UNCHANGED vars
  BY <1>2 DEF vars
<1>3. CASE \E f \in Files : OpenFile(f)
  BY <1>3 DEF OpenFile
<1>4. CASE \E f \in Files, pos \in Positions, n \in Lengths[usage] : WriteFile(f, pos, n)
  BY <1>4 DEF WriteFile
<1>5. CASE SaveFcb \/ Crash
  BY <1>5 DEF SaveFcb, Crash
<1> QED BY <1>1, <1>2, <1>3, <1>4, <1>5 DEF Next

(* The FCBs, the pointer blocks, the bitmap and the words of the disk stay *)
(* as the invariant of FileSystemInvariant says, through every request,    *)
(* every save of an FCB and every restart.                                 *)
THEOREM FsInvariant == Spec => [](InTrack => FsInv)
<1>1. Init => (InTrack => FsInv)
  BY InitInv
<1>2. (InTrack => FsInv) /\ [Next]_vars => (InTrack => FsInv)'
  <2> SUFFICES ASSUME InTrack => FsInv, [Next]_vars, InTrack' PROVE FsInv'
    OBVIOUS
  <2>0. FsInv
    BY LapsesAreKept DEF InTrack
  <2>1. ASSUME NEW f \in Files, OpenFile(f) PROVE FsInv'
    BY <2>0, <2>1, OpenFileInv
  <2>2. ASSUME NEW f \in Files, NEW size \in Sizes[usage], TruncateFile(f, size) PROVE FsInv'
    BY <2>0, <2>2, TruncateFileInv
  <2>3. ASSUME NEW f \in Files, NEW pos \in Positions, NEW n \in Lengths[usage],
               WriteFile(f, pos, n)
        PROVE  FsInv'
    <3>1. CASE Reaches(fcb[f], block_file, pos, n)
      BY <2>0, <2>3, <3>1, WriteFileInv
    <3>2. CASE ~Reaches(fcb[f], block_file, pos, n)
      BY <2>0, <2>3, <3>2, StoppedInv DEF WriteFile
    <3> QED BY <3>1, <3>2
  <2>4. CASE SaveFcb
    BY <2>0, <2>4, SaveFcbInv
  <2>5. CASE Crash
    BY <2>0, <2>5, CrashInv
  <2>6. CASE UNCHANGED vars
    BY <2>0, <2>6, StoppedInv DEF vars, FsInv, TypeOK
  <2> QED BY <2>1, <2>2, <2>3, <2>4, <2>5, <2>6 DEF Next
<1> QED BY <1>1, <1>2, PTL DEF Spec

(* Through any history of truncations, writes and restarts, no block is in *)
(* two files, or twice in one: resize_block never hands out a block that a *)
(* pointer still names.                                                    *)
THEOREM BlocksAreNotShared == Spec => []NoSharedBlock
<1>1. ASSUME FsInv PROVE NoSharedBlock
  <2> SUFFICES ASSUME NEW f \in Files, NEW g \in Files,
                      NEW j \in DOMAIN PointersOf(f), NEW k \in DOMAIN PointersOf(g),
                      PointersOf(f)[j] = PointersOf(g)[k], PointersOf(f)[j] \in Blocks
               PROVE  f = g /\ j = k
    BY DEF NoSharedBlock
  <2>1. Header(f) # NoFile /\ Header(g) # NoFile
    BY DEF PointersOf
  <2>2. /\ PointersOf(f)[j] \in Own(block_file, Header(f))
        /\ PointersOf(g)[k] \in Own(block_file, Header(g))
    BY <1>1, <2>1, BlocksOfIs
  <2>3. Header(f) \in Views(f) /\ Header(g) \in Views(g)
    BY <2>1 DEF Views
  <2>4. f = g
    BY <1>1, <2>2, <2>3 DEF FsInv, Owners
  <2>5. j = k
    BY <1>1, <2>1, <2>4, BlocksOfIs
  <2> QED BY <2>4, <2>5
<1>2. (InTrack => FsInv) => NoSharedBlock
  BY <1>1 DEF NoSharedBlock
<1> QED BY <1>2, FsInvariant, PTL

(* A block that a file names is never free, not even after the module was  *)
(* killed before it saved the FCB of a file that grew.                     *)
THEOREM NamedBlocksAreUsed == Spec => []NoFreeBlockInUse
<1>1. ASSUME FsInv PROVE NoFreeBlockInUse
  <2> SUFFICES ASSUME NEW f \in Files PROVE BlocksOf(f) \subseteq bitmap
    BY DEF NoFreeBlockInUse
  <2>1. CASE Header(f) = NoFile
    BY <2>1 DEF BlocksOf, PointersOf, ToSet
  <2>2. CASE Header(f) # NoFile
    <3>1. Header(f) \in Views(f)
      BY <2>2 DEF Views
    <3> QED BY <1>1, <2>2, <3>1, BlocksOfIs, ViewIs
  <2> QED BY <2>1, <2>2
<1>2. (InTrack => FsInv) => NoFreeBlockInUse
  BY <1>1 DEF NoFreeBlockInUse
<1> QED BY <1>2, FsInvariant, PTL

(* The bitmap marks the blocks of the files and no other: three structures *)
(* updated apart agree after every truncation.                             *)
THEOREM BitmapIsExact == Spec => []BitmapIsOwners
<1>1. ASSUME FsInv PROVE BitmapIsOwners
  <2> SUFFICES ASSUME Careful PROVE bitmap = Reserved \cup UNION {BlocksOf(f) : f \in Files}
    BY DEF BitmapIsOwners
  <2>1. ASSUME NEW f \in Files
        PROVE  BlocksOf(f) = UNION {Own(block_file, h) : h \in Views(f)}
               /\ BlocksOf(f) \subseteq bitmap
    <3>1. CASE Header(f) = NoFile
      BY <3>1 DEF BlocksOf, PointersOf, ToSet, Views
    <3>2. CASE Header(f) # NoFile
      <4>1. Views(f) = {Header(f)}
        BY <3>2 DEF Views
      <4>2. Own(block_file, Header(f)) \subseteq bitmap
        BY <1>1, <4>1, ViewIs
      <4>3. BlocksOf(f) = Own(block_file, Header(f))
        BY <1>1, <3>2, BlocksOfIs
      <4> QED BY <4>1, <4>2, <4>3
    <3> QED BY <3>1, <3>2
  <2>2. bitmap \subseteq Reserved \cup UNION {BlocksOf(f) : f \in Files}
    BY <1>1, <2>1 DEF FsInv, NoneLost
  <2>3. Reserved \subseteq bitmap
    BY <1>1 DEF FsInv
  <2> QED BY <2>1, <2>2, <2>3
<1>2. (InTrack => FsInv) => BitmapIsOwners
  BY <1>1 DEF BitmapIsOwners
<1> QED BY <1>2, FsInvariant, PTL

(* What a file gets when it grows is zeros.                                *)
THEOREM FreedIsBlank == Spec => []FreeBlocksAreBlank
<1>1. ASSUME FsInv PROVE FreeBlocksAreBlank
  <2> SUFFICES ASSUME Careful, NEW b \in Blocks \ bitmap, NEW w \in WordsOf(b) PROVE block_file[w] = 0
    BY DEF FreeBlocksAreBlank
  <2> DEFINE k == w - b * BlockWords + 1
  <2>1. b * BlockWords \in Nat /\ BlockWords \in Nat
    BY DiskIs
  <2>2. k \in 1 .. BlockWords /\ b * BlockWords + k - 1 = w
    BY <2>1 DEF WordsOf
  <2> HIDE DEF k
  <2>3. WordIn(block_file, b, k) = 0
    BY <1>1, <2>2 DEF FsInv, Blanks
  <2> QED BY <2>2, <2>3 DEF WordIn
<1>2. (InTrack => FsInv) => FreeBlocksAreBlank
  BY <1>1 DEF FreeBlocksAreBlank
<1> QED BY <1>2, FsInvariant, PTL

(* A file has the pointers its size calls for, and no other, whatever      *)
(* sizes it had before.                                                    *)
THEOREM SizesAreKept == Spec => []PointersMatchSize
<1>1. ASSUME FsInv PROVE PointersMatchSize
  <2> SUFFICES ASSUME Careful, lapses = {}, NEW f \in Files, fcb[f] # NoFile, unsaved = NoFile
               PROVE  Len(PointersOf(f)) = CalledFor(fcb[f].size)
    BY DEF PointersMatchSize
  <2> DEFINE h == fcb[f]
             l == Listed(h)
  <2>1. Header(f) = h /\ h \in Views(f)
    BY DEF Header, Views
  <2>2. /\ Exact(block_file, h) /\ h.size \in Nat /\ BlockWords \in Nat /\ BlockWords >= 1
        /\ BlocksFor(h.size) <= BlockWords + 1
    BY <1>1, <2>1, ViewIs, DiskIs DEF Sound, Headers, Tight
  <2>3. /\ h.size = 0 => Len(PointersOf(f)) = 0
        /\ h.size > 0 /\ h.size <= BlockWords => Len(PointersOf(f)) = 1
        /\ h.size > BlockWords => Len(PointersOf(f)) = 2 + Len(l)
        /\ h.indirect \in Blocks =>
             Packed(block_file, h.indirect, Len(l)) /\ Len(l) \in 0 .. BlockWords
    BY <1>1, <2>1, PointersAre
  <2>4. /\ BlocksFor(h.size) \in Nat /\ (h.size = 0 => BlocksFor(h.size) = 0)
        /\ (h.size > 0 /\ h.size <= BlockWords => BlocksFor(h.size) = 1)
        /\ (h.size > BlockWords => BlocksFor(h.size) >= 2)
    BY <2>2, BlocksForIs
  <2> HIDE DEF h, l
  <2>5. h.size > BlockWords => Len(l) = BlocksFor(h.size) - 1
    <3> SUFFICES ASSUME h.size > BlockWords PROVE Len(l) = BlocksFor(h.size) - 1
      OBVIOUS
    <3> DEFINE n == BlocksFor(h.size) - 1
    <3>1. /\ Packed(block_file, h.indirect, Len(l)) /\ Len(l) \in 0 .. BlockWords
          /\ Packed(block_file, h.indirect, n) /\ n \in 0 .. BlockWords
      BY <2>2, <2>3, <2>4 DEF Exact
    <3> HIDE DEF n
    <3>2. \A k \in 1 .. BlockWords : k <= Len(l) <=> k <= n
      BY <3>1 DEF Packed
    <3>3. ~(Len(l) < n)
      <4> SUFFICES ASSUME Len(l) < n PROVE FALSE
        OBVIOUS
      <4> QED BY <2>2, <3>1, <3>2
    <3>4. ~(n < Len(l))
      <4> SUFFICES ASSUME n < Len(l) PROVE FALSE
        OBVIOUS
      <4> QED BY <2>2, <3>1, <3>2
    <3>5. Len(l) = n
      BY <2>2, <3>1, <3>3, <3>4
    <3> QED BY <3>5 DEF n
  <2>6. Len(PointersOf(f)) = CalledFor(h.size)
    <3>1. CalledFor(h.size) = BlocksFor(h.size) + (IF h.size > BlockWords THEN 1 ELSE 0)
      BY DEF CalledFor
    <3>2. CASE h.size <= BlockWords
      <4>1. CalledFor(h.size) = BlocksFor(h.size)
        BY <2>2, <2>4, <3>1, <3>2
      <4>2. CASE h.size = 0
        <5>1. Len(PointersOf(f)) = 0 /\ BlocksFor(h.size) = 0
          BY <2>3, <2>4, <4>2
        <5> QED BY <4>1, <5>1
      <4>3. CASE h.size > 0
        <5>1. Len(PointersOf(f)) = 1 /\ BlocksFor(h.size) = 1
          BY <2>3, <2>4, <3>2, <4>3
        <5> QED BY <4>1, <5>1
      <4> QED BY <2>2, <4>2, <4>3
    <3>3. CASE h.size > BlockWords
      <4>1. CalledFor(h.size) = BlocksFor(h.size) + 1
        BY <3>1, <3>3
      <4> QED BY <2>3, <2>4, <2>5, <3>3, <4>1
    <3> QED BY <2>2, <3>2, <3>3
  <2> QED BY <2>6 DEF h
<1>2. (InTrack => FsInv) => PointersMatchSize
  BY <1>1 DEF PointersMatchSize, InTrack
<1> QED BY <1>2, FsInvariant, PTL

(* A file gives back what was last written at each position it still has,  *)
(* whatever was written to the others and however it grew and shrank.      *)
THEOREM FilesKeepTheirData == Spec => []FilesReadBack
<1>1. ASSUME FsInv PROVE FilesReadBack
  <2> SUFFICES ASSUME Careful, NEW f \in Files, unsaved = NoFile, fcb[f] # NoFile,
                      fcb[f].indirect # -1,
                      NEW o \in DOMAIN written[f]
               PROVE  /\ Reaches(fcb[f], block_file, o, 1)
                      /\ ReadFile(f, o, 1) = <<written[f][o]>>
    BY DEF FilesReadBack
  <2> DEFINE h == fcb[f]
             b == BlockAt(block_file, h, o)
  <2>1. Header(f) = h /\ h \in Views(f)
    BY DEF Header, Views
  <2>2. /\ Sound(block_file, h) /\ h.indirect \in Pointers /\ h.size \in Nat
        /\ BlockWords \in Nat /\ BlockWords >= 1
        /\ block_file \in [Words -> Values]
    BY <1>1, <2>1, ViewIs, DiskIs DEF Sound, Headers, FsInv, TypeOK, Values
  <2>3. /\ o \in 0 .. (BlocksFor(h.size) * BlockWords - 1) /\ b \in Blocks
        /\ Held(block_file, h, o)
        /\ block_file[b * BlockWords + (o % BlockWords)] = written[f][o]
    BY <1>1, <2>1 DEF FsInv, ReadBack
  <2>4. o \in Nat /\ o < BlocksFor(h.size) * BlockWords
    <3>1. BlocksFor(h.size) * BlockWords \in Nat
      <4>1. BlocksFor(h.size) \in Nat
        BY <2>2, BlocksForIs
      <4> QED BY <2>2, <4>1
    <3> HIDE DEF h, b
    <3> QED BY <2>3, <3>1
  <2>5. /\ AsInt(h.indirect) \in Blocks /\ o \div BlockWords < Len(BlockList(h, block_file))
        /\ BlockList(h, block_file)[(o \div BlockWords) + 1] = b
    <3>1. AsInt(h.indirect) \in Blocks
      BY <2>2, DiskIs DEF AsInt, Pointers
    <3> HIDE DEF h, b
    <3> QED BY <2>2, <2>3, <2>4, <3>1, PlaceIs DEF b
  <2>6. \A p \in o .. (o + 1 - 1) : p = o
    BY <2>4
  <2>7. Reaches(h, block_file, o, 1)
    <3> HIDE DEF h, b
    <3> QED BY <2>3, <2>5, <2>6 DEF Reaches
  <2>8. WordAt(h, block_file, o) = b * BlockWords + (o % BlockWords)
    BY <2>5 DEF WordAt
  <2>9. ReadFile(f, o, 1) = [k \in 1 .. 1 |-> block_file[WordAt(h, block_file, o + k - 1)]]
    BY DEF ReadFile
  <2>10. \A k \in 1 .. 1 : o + k - 1 = o
    BY <2>4
  <2> HIDE DEF h, b
  <2>11. ReadFile(f, o, 1) = [k \in 1 .. 1 |-> written[f][o]]
    BY <2>3, <2>8, <2>9, <2>10
  <2>12. [k \in 1 .. 1 |-> written[f][o]] = <<written[f][o]>>
    OBVIOUS
  <2> QED BY <2>7, <2>11, <2>12 DEF h
<1>2. (InTrack => FsInv) => FilesReadBack
  BY <1>1 DEF FilesReadBack
<1> QED BY <1>2, FsInvariant, PTL
=============================================================================
