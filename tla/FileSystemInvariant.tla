------------------------ MODULE FileSystemInvariant ------------------------
(***************************************************************************)
(* The inductive invariant behind the theorems of FileSystemProofs.        *)
(***************************************************************************)
EXTENDS FileSystem

(* The k-th word of block b, and a block whose first n are the ones set.   *)
WordIn(words, b, k) == words[b * BlockWords + k - 1]
Packed(words, b, n) ==
  \A k \in 1 .. BlockWords : WordIn(words, b, k) # 0 <=> k <= n

(* The blocks a header leads to.                                           *)
Named(words, h, b) ==
  \/ b = h.direct \/ b = h.indirect
  \/ /\ h.indirect \in Blocks
     /\ \E k \in 1 .. BlockWords : WordIn(words, h.indirect, k) = b /\ b # 0
Own(words, h) == {b \in Blocks : Named(words, h, b)}

(* A header has the pointers its size calls for, the blocks among them are *)
(* distinct, and block 0 is at most its first: as a pointer block, or in   *)
(* one, it would not be told from the words that are not set.              *)
Distinct(words, h) ==
  /\ h.direct \in Blocks => h.direct # h.indirect
  /\ h.indirect \in Blocks => \A k \in 1 .. BlockWords :
       LET b == WordIn(words, h.indirect, k) IN
       b \in Blocks \ {0} =>
         /\ b # h.direct /\ b # h.indirect
         /\ \A j \in 1 .. BlockWords : WordIn(words, h.indirect, j) = b => j = k
Sound(words, h) ==
  /\ h \in Headers
  /\ h.direct = Empty <=> h.size = 0
  /\ h.indirect = Empty <=> h.size <= BlockWords
  /\ h.indirect # 0
  /\ BlocksFor(h.size) <= BlockWords + 1
  /\ Distinct(words, h)
  /\ h.indirect \in Blocks => \E n \in 0 .. BlockWords : Packed(words, h.indirect, n)
Exact(words, h) ==
  h.size > BlockWords =>
    h.indirect \in Blocks /\ Packed(words, h.indirect, BlocksFor(h.size) - 1)

(* A careful user's pointers are all there until the data of block 0 were  *)
(* read as pointers.                                                       *)
Tight == Careful /\ "unset" \notin lapses

(* The FCBs of a file that the module may still read: the one in memory,   *)
(* and the one on disk if it may be killed.                                *)
Views(f) == ({Header(f)} \cup (IF Careful THEN {} ELSE {fcb[f]})) \ {NoFile}

Owners ==
  \A f \in Files : \A h \in Views(f) :
    /\ Sound(block_file, h)
    /\ Tight => Exact(block_file, h)
    /\ Own(block_file, h) \subseteq bitmap \ Reserved
    /\ \A g \in Files \ {f} : \A i \in Views(g) :
         Own(block_file, h) \cap Own(block_file, i) = {}
Blanks ==
  /\ \A b \in Blocks \ bitmap : Careful \/ b # 0 =>
       \A k \in 1 .. BlockWords : WordIn(block_file, b, k) = 0
  /\ \A k \in 1 .. BlockWords : WordIn(block_file, 0, k) \notin (-1 .. BlockCount - 1) \ {0}
NoneLost ==
  Careful => \A b \in bitmap : b \in Reserved \/
               \E f \in Files : \E h \in Views(f) : b \in Own(block_file, h)
Pending ==
  unsaved # NoFile => fcb[unsaved.file] # NoFile

(* The block of position o in a file, which is its first or is listed.     *)
BlockAt(words, h, o) ==
  IF o < BlockWords THEN h.direct ELSE WordIn(words, h.indirect, o \div BlockWords)
Held(words, h, o) ==
  o >= BlockWords =>
    h.indirect \in Blocks /\ WordIn(words, h.indirect, o \div BlockWords) # 0
ReadBack ==
  /\ DOMAIN written = Files
  /\ Careful => \A f \in Files : \A o \in DOMAIN written[f] :
       /\ Header(f) # NoFile
       /\ o \in 0 .. (BlocksFor(Header(f).size) * BlockWords - 1)
       /\ BlockAt(block_file, Header(f), o) \in Blocks /\ Held(block_file, Header(f), o)
       /\ block_file[BlockAt(block_file, Header(f), o) * BlockWords + (o % BlockWords)]
            = written[f][o]

(* It holds of every disk that is InTrack.                                 *)
FsInv ==
  /\ TypeOK /\ usage \in Usages /\ Reserved \subseteq bitmap
  /\ Owners /\ Blanks /\ NoneLost /\ Pending /\ ReadBack
=============================================================================
