----------------------------- MODULE FileSystem -----------------------------
(***************************************************************************)
(* The file system module: the FCBs, the bitmap and the block file, under  *)
(* the requests the kernel sends one at a time.  The bitmap and the block  *)
(* file are mapped and shared: they change in place, while the FCB that a  *)
(* truncation changes reaches the disk with its config_save.               *)
(*                                                                         *)
(* The unit of size and position is the word of 4 bytes: the size of a     *)
(* pointer in a pointer block.  A word of data that a process writes is a  *)
(* letter that tells its file and its position, never a block number: as a *)
(* pointer it is far out of the disk, like four characters of text.        *)
(***************************************************************************)
EXTENDS Integers, Sequences, FiniteSets, SequencesExt

CONSTANTS
  Files,        \* the file names
  Letters,      \* Letters[f]: what is written to f, one position after another
  BlockCount,   \* BLOCK_COUNT
  BlockWords,   \* BLOCK_SIZE, in words
  Usages,       \* how the file system is used: "careful", "killed"
  Sizes,        \* bound: the sizes of truncations by usage, in words
  Lengths,      \* bound: the lengths of writes by usage, in words
  Reserved,     \* blocks that a file nobody touches owns from the start
  Empty,        \* a pointer of an FCB that is not set: the empty string
  NoFile        \* no FCB

ASSUME DiskAssumption == BlockCount \in Nat \ {0} /\ BlockWords \in Nat \ {0}
ASSUME SizesAssumption ==
  Sizes \in [Usages -> SUBSET Nat] /\ Lengths \in [Usages -> SUBSET (Nat \ {0})]
ASSUME LettersAssumption ==
  /\ DOMAIN Letters = Files
  /\ \A f \in Files :
       /\ Letters[f] \in Seq(ToSet(Letters[f])) /\ Letters[f] # <<>>
       /\ \A b \in -1 .. (BlockCount - 1) : b \notin ToSet(Letters[f])
ASSUME ReservedAssumption == Reserved \subseteq 0 .. (BlockCount - 1)
ASSUME UsagesAssumption == Usages \subseteq {"careful", "killed"}

VARIABLES
  usage,        \* "careful": every write is to blocks of the file; "killed":
                \* writes at any position, files that only grow, and the module
                \* may be killed and started again
  fs,           \* "up", or the way the file system ended
  fcb,          \* the FCBs on disk
  bitmap,       \* the set of the blocks marked as used
  block_file,   \* the words of the block file
  unsaved,      \* the FCB a truncation has still to save
  written,      \* what was last written to each file of a careful user, by position
  lapses        \* what truncations took no notice of so far: see Lapses

vars == <<usage, fs, fcb, bitmap, block_file, unsaved, written, lapses>>

Up == fs = "up"
Careful == usage = "careful"
Blocks == 0 .. (BlockCount - 1)
Words == 0 .. (BlockCount * BlockWords - 1)
WordsOf(b) == (b * BlockWords) .. (b * BlockWords + BlockWords - 1)
Blank == [o \in {} |-> 0]

(* config_get_int_value of a pointer: atoi("") is 0.                       *)
AsInt(pointer) == IF pointer = Empty THEN 0 ELSE pointer

-----------------------------------------------------------------------------
(* What a truncation does to the disk: a record of the bitmap, of the      *)
(* words, and of whether the accesses so far stayed inside of the disk.    *)

(* The blocks whose bit is clear.                                          *)
FreeBlocks(disk) == Blocks \ disk.bitmap

(* next_bit_position: the first free block, marked as used; -1 if there is *)
(* none.  Fault: the bit is not set.                                       *)
BitForgotten(disk, b) == disk
BitSet(disk, b) == [disk EXCEPT !.bitmap = @ \cup {b}]
NextBit(disk) ==
  IF FreeBlocks(disk) = {}
    THEN [disk |-> disk, block |-> -1]
    ELSE [disk |-> BitSet(disk, Min(FreeBlocks(disk))), block |-> Min(FreeBlocks(disk))]

(* A pointer that is set stays; one that is not gets a block.              *)
Allocated(disk, pointer) ==
  IF pointer = Empty THEN NextBit(disk) ELSE [disk |-> disk, block |-> pointer]

(* n more blocks at the end of the list.                                   *)
Extended(disk, list, n) ==
  FoldLeft(LAMBDA acc, k : LET next == NextBit(acc.disk) IN
             [disk |-> next.disk, list |-> Append(acc.list, next.block)],
           [disk |-> disk, list |-> list], [k \in 1 .. n |-> k])

(* The words of block b cleared; outside of the disk, the access faults.   *)
Cleared(disk, b) ==
  IF b \in Blocks
    THEN [disk EXCEPT !.words = [w \in Words |-> IF w \in WordsOf(b) THEN 0 ELSE @[w]]]
    ELSE [disk EXCEPT !.ok = FALSE]

(* A block given back: its words cleared and its bit.  Faults: one of the  *)
(* two forgotten.                                                          *)
FreedNotCleared(disk, b) == [disk EXCEPT !.bitmap = @ \ {b}]
FreedKeepsBit(disk, b) == Cleared(disk, b)
Freed(disk, b) == [Cleared(disk, b) EXCEPT !.bitmap = @ \ {b}]
AllFreed(disk, list) == FoldLeft(Freed, disk, list)

FreedIfSet(disk, pointer) ==
  IF pointer = Empty THEN disk ELSE Freed(disk, pointer)

(* get_bf_ip: the words of block b that are not 0.                         *)
AddPointer(list, word) == IF word # 0 THEN Append(list, word) ELSE list
GetBfIp(words, b) ==
  FoldLeft(AddPointer, <<>>, [k \in 1 .. BlockWords |-> words[b * BlockWords + k - 1]])

(* set_bf_ip: the list, from the start of block b; nothing stops it at the *)
(* end of the block.                                                       *)
SetBfIp(disk, b, list) ==
  LET first == b * BlockWords
      place == first .. (first + Len(list) - 1) IN
  IF place \subseteq Words
    THEN [disk EXCEPT !.words =
            [w \in Words |-> IF w \in place THEN list[w - first + 1] ELSE @[w]]]
    ELSE [disk EXCEPT !.ok = FALSE]

BlocksFor(size) == (size + BlockWords - 1) \div BlockWords

-----------------------------------------------------------------------------
(* resize_block: the disk and the pointers it leaves, for each of its      *)
(* three cases.                                                            *)

(* Lines 211-247: all the blocks go back.                                  *)
ToNothing(disk, old, list) ==
  LET direct == FreedIfSet(disk, old.direct) IN
  [ disk |-> IF old.indirect = Empty THEN direct
             ELSE Freed(AllFreed(direct, list), old.indirect),
    direct |-> Empty, indirect |-> Empty ]

(* Lines 248-276: one block stays.                                         *)
PointersFreed(disk, old, list) == Freed(AllFreed(disk, list), old.indirect)
ToOneBlock(disk, old, list) ==
  LET direct == Allocated(disk, old.direct) IN
  [ disk |-> IF old.indirect = Empty THEN direct.disk
             ELSE PointersFreed(direct.disk, old, list),
    direct |-> direct.block, indirect |-> Empty ]

(* Line 290: how many blocks the pointer block has to list.  Fault: the    *)
(* block of PUNTERO_DIRECTO is counted among them.                         *)
CountWithDirect(size) == BlocksFor(size)
CountPiNeed(size) == BlocksFor(size) - 1

(* Lines 277-327.                                                          *)
ToManyBlocks(disk, old, list, size) ==
  LET direct   == Allocated(disk, old.direct)
      indirect == Allocated(direct.disk, old.indirect)
      need     == CountPiNeed(size)
      grown    == Extended(indirect.disk, list, need - Len(list))
      kept     == SubSeq(list, 1, need)
      shrunk   == Cleared(AllFreed(indirect.disk, Reverse(SubSeq(list, need + 1, Len(list)))),
                          indirect.block) IN
  [ disk |-> IF need > Len(list) THEN SetBfIp(grown.disk, indirect.block, grown.list)
             ELSE IF need < Len(list) THEN SetBfIp(shrunk, indirect.block, kept)
             ELSE indirect.disk,
    direct |-> direct.block, indirect |-> indirect.block ]

(* A pointer block outside of the disk cannot be read.                     *)
Faulted(disk, old) ==
  [disk |-> [disk EXCEPT !.ok = FALSE], direct |-> old.direct, indirect |-> old.indirect]

Resize(disk, old, size) ==
  LET b    == AsInt(old.indirect)
      list == GetBfIp(disk.words, b) IN
  IF size = old.size
    THEN [disk |-> disk, direct |-> old.direct, indirect |-> old.indirect]
  ELSE IF b \notin Blocks THEN Faulted(disk, old)
  ELSE IF size = 0 THEN ToNothing(disk, old, list)
  ELSE IF size <= BlockWords THEN ToOneBlock(disk, old, list)
  ELSE ToManyBlocks(disk, old, list, size)

(* What a truncation to many blocks takes no notice of, each of them a     *)
(* wrong list of pointers later on: that block 0 becomes the pointer block *)
(* or is listed in one, where a word 0 is no pointer; that the list runs   *)
(* over the end of the pointer block; and that a file without a pointer    *)
(* block starts from the words of block 0, which are data if it has them.  *)
ZeroListed(disk, old, size) ==
  /\ 0 \in FreeBlocks(disk) /\ old.direct # Empty
  /\ old.indirect = Empty
       \/ CountPiNeed(size) > Len(GetBfIp(disk.words, old.indirect))
Overrun(size) == CountPiNeed(size) > BlockWords
UnsetRead(disk, old) == old.indirect = Empty /\ GetBfIp(disk.words, 0) # <<>>
Lapses(disk, old, size) ==
  IF size = old.size \/ size <= BlockWords THEN {}
  ELSE (IF ZeroListed(disk, old, size) THEN {"zero"} ELSE {})
         \cup (IF Overrun(size) THEN {"overrun"} ELSE {})
         \cup (IF UnsetRead(disk, old) THEN {"unset"} ELSE {})

-----------------------------------------------------------------------------
(* iterate_block_file: the block where the position of the file is, taken  *)
(* from PUNTERO_DIRECTO and the pointer block, set or not; 0 of an empty   *)
(* file or of a position inside of it is a block like any other.           *)
BlockList(header, words) == <<AsInt(header.direct)>> \o GetBfIp(words, AsInt(header.indirect))

(* The positions [pos, pos + n) that the file's blocks hold.               *)
Reaches(header, words, pos, n) ==
  /\ AsInt(header.indirect) \in Blocks
  /\ \A o \in pos .. (pos + n - 1) :
       /\ o \div BlockWords < Len(BlockList(header, words))
       /\ BlockList(header, words)[o \div BlockWords + 1] \in Blocks

(* Fault: the position within the block is not counted.                    *)
WordAtStart(header, words, o) ==
  BlockList(header, words)[o \div BlockWords + 1] * BlockWords
WordAt(header, words, o) ==
  BlockList(header, words)[o \div BlockWords + 1] * BlockWords + (o % BlockWords)

ReadFile(f, pos, n) ==
  [k \in 1 .. n |-> block_file[WordAt(fcb[f], block_file, pos + k - 1)]]

-----------------------------------------------------------------------------
Init ==
  /\ usage \in Usages
  /\ fs = "up"
  /\ fcb = [f \in Files |-> NoFile]
  /\ bitmap = Reserved
  /\ block_file = [w \in Words |-> 0]
  /\ unsaved = NoFile
  /\ written = [f \in Files |-> Blank]
  /\ lapses = {}

Idle == Up /\ unsaved = NoFile

(* F_OPEN of a file that is not there: the kernel asks again to create it. *)
(* F_OPEN of a file that is there changes nothing.                         *)
OpenFile(f) ==
  /\ Idle /\ fcb[f] = NoFile
  /\ fcb' = [fcb EXCEPT ![f] = [size |-> 0, direct |-> Empty, indirect |-> Empty]]
  /\ UNCHANGED <<usage, fs, bitmap, block_file, unsaved, written, lapses>>

(* F_TRUNCATE.  The kernel does not ask whether the file exists; without   *)
(* its FCB, config_create returns NULL and it is read.                     *)
TruncateFile(f, size) ==
  /\ Idle
  /\ ~Careful /\ fcb[f] # NoFile => size >= fcb[f].size
  /\ IF fcb[f] = NoFile
       THEN fs' = "no_fcb" /\ UNCHANGED <<fcb, bitmap, block_file, unsaved, written, lapses>>
       ELSE LET disk   == [bitmap |-> bitmap, words |-> block_file, ok |-> TRUE]
                result == Resize(disk, fcb[f], size) IN
            /\ IF result.disk.ok
                 THEN /\ bitmap' = result.disk.bitmap
                      /\ block_file' = result.disk.words
                      /\ unsaved' = [file |-> f,
                                     header |-> [size     |-> size,
                                                 direct   |-> result.direct,
                                                 indirect |-> result.indirect]]
                      /\ written' = [written EXCEPT ![f] =
                           [o \in DOMAIN @ \cap (0 .. (BlocksFor(size) * BlockWords - 1))
                              |-> @[o]]]
                      /\ lapses' = lapses \cup Lapses(disk, fcb[f], size)
                      /\ UNCHANGED fs
                 ELSE fs' = "bad_block" /\ UNCHANGED <<bitmap, block_file, unsaved, written, lapses>>
            /\ UNCHANGED fcb
  /\ UNCHANGED usage

(* config_save, line 330.                                                  *)
SaveFcb ==
  /\ Up /\ unsaved # NoFile
  /\ fcb' = [fcb EXCEPT ![unsaved.file] = unsaved.header]
  /\ unsaved' = NoFile
  /\ UNCHANGED <<usage, fs, bitmap, block_file, written, lapses>>

(* The process is killed before config_save and started again: the mapped  *)
(* files keep what they had.                                               *)
Crash ==
  /\ ~Careful /\ Up /\ unsaved # NoFile
  /\ unsaved' = NoFile
  /\ UNCHANGED <<usage, fs, fcb, bitmap, block_file, written, lapses>>

(* The data a process writes at position o of f.                           *)
Letter(f, o) == Letters[f][(o % Len(Letters[f])) + 1]

(* F_WRITE of n words at a position.  list_get of a block the file does    *)
(* not have is NULL, which is followed; a block outside of the disk is     *)
(* written to all the same.                                                *)
WriteFile(f, pos, n) ==
  /\ Idle /\ fcb[f] # NoFile
  /\ Careful => pos + n <= fcb[f].size /\ Reaches(fcb[f], block_file, pos, n)
  /\ IF Reaches(fcb[f], block_file, pos, n)
       THEN LET range == pos .. (pos + n - 1)
                At(w) == {o \in range : WordAt(fcb[f], block_file, o) = w} IN
            /\ block_file' = [w \in Words |->
                 IF At(w) = {} THEN block_file[w] ELSE Letter(f, Max(At(w)))]
            /\ written' = IF Careful
                            THEN [written EXCEPT ![f] =
                                   [o \in range \cup DOMAIN @ |->
                                      IF o \in range THEN Letter(f, o) ELSE @[o]]]
                            ELSE written
            /\ UNCHANGED fs
       ELSE fs' = "bad_block" /\ UNCHANGED <<block_file, written>>
  /\ UNCHANGED <<usage, fcb, bitmap, unsaved, lapses>>

Positions == 0 .. (BlockCount * BlockWords - 1)
Next ==
  \/ \E f \in Files : OpenFile(f)
  \/ \E f \in Files, size \in Sizes[usage] : TruncateFile(f, size)
  \/ \E f \in Files, pos \in Positions, n \in Lengths[usage] : WriteFile(f, pos, n)
  \/ SaveFcb \/ Crash

Spec == Init /\ [][Next]_vars

-----------------------------------------------------------------------------
(* Type correctness of the disk.                                           *)
Pointers == Blocks \cup {-1, Empty}
Headers == [size : Nat, direct : Pointers, indirect : Pointers]
ASSUME NullAssumption ==
  /\ Empty \notin Blocks \cup {-1}
  /\ NoFile \notin Headers \cup [file : Files, header : Headers]
TypeOK ==
  /\ fs \in {"up", "no_fcb", "bad_block"}
  /\ fcb \in [Files -> Headers \cup {NoFile}]
  /\ bitmap \subseteq Blocks
  /\ block_file \in [Words -> Blocks \cup {-1} \cup UNION {ToSet(Letters[f]) : f \in Files}]
  /\ unsaved \in [file : Files, header : Headers] \cup {NoFile}

(* The FCB of f as the module sees it: one not yet saved is in its memory. *)
Header(f) == IF unsaved # NoFile /\ unsaved.file = f THEN unsaved.header ELSE fcb[f]

(* The pointers of a file, those that its pointer block lists included,    *)
(* and the blocks of the disk among them.                                  *)
Listed(h) ==
  IF h.indirect \in Blocks THEN GetBfIp(block_file, h.indirect) ELSE <<>>
IfSet(pointer) == IF pointer = Empty THEN <<>> ELSE <<pointer>>
PointersOf(f) ==
  IF Header(f) = NoFile THEN <<>>
  ELSE IfSet(Header(f).direct) \o IfSet(Header(f).indirect) \o Listed(Header(f))
BlocksOf(f) == ToSet(PointersOf(f)) \cap Blocks

(* The blocks that the size of a file calls for, its pointer block with    *)
(* them if they are more than one.                                         *)
CalledFor(size) == BlocksFor(size) + (IF size > BlockWords THEN 1 ELSE 0)

(* The file system knows its blocks: no truncation has handed out block 0  *)
(* as a pointer block or into one, and none has run over a pointer block.  *)
(* Nothing is said of a disk where one has: the next truncation of such a  *)
(* file can free the blocks of another.                                    *)
InTrack == lapses \subseteq {"unset"}

(* No block is in two files, or twice in one, through any history of       *)
(* truncations that give blocks back and take them again.                  *)
NoSharedBlock ==
  InTrack => \A f, g \in Files :
    LET p == PointersOf(f) q == PointersOf(g) IN
    \A j \in DOMAIN p, k \in DOMAIN q :
      p[j] = q[k] /\ p[j] \in Blocks => f = g /\ j = k

(* The bitmap, the FCBs and the pointer blocks, three structures updated   *)
(* apart, agree: the used blocks are those of the files, and none is lost. *)
BitmapIsOwners ==
  Careful /\ InTrack => bitmap = Reserved \cup UNION {BlocksOf(f) : f \in Files}

(* Killed before the FCB of a file that grows is saved, the file system    *)
(* loses blocks but names none that it may give to another file.           *)
NoFreeBlockInUse == InTrack => \A f \in Files : BlocksOf(f) \subseteq bitmap

(* A file gives back what was written to it, as long as it keeps the       *)
(* block, whatever is written to the others and however the disk filled;   *)
(* but a file whose pointer block the disk had no room for, -1, is not to  *)
(* be read at all.                                                         *)
FilesReadBack ==
  Careful /\ InTrack => \A f \in Files :
    unsaved = NoFile /\ fcb[f] # NoFile /\ fcb[f].indirect # -1 =>
      \A o \in DOMAIN written[f] :
        Reaches(fcb[f], block_file, o, 1) /\ ReadFile(f, o, 1) = <<written[f][o]>>

(* The free blocks are blank: what a file gets when it grows is zeros, and *)
(* never the pointers or the data of another file.                         *)
FreeBlocksAreBlank ==
  Careful /\ InTrack => \A b \in Blocks \ bitmap : \A w \in WordsOf(b) : block_file[w] = 0

(* A file has a pointer for each block its size calls for and no other,    *)
(* whatever sizes it had before; on a full disk some of them are -1.  Not  *)
(* so once the data of block 0 were read as pointers.                      *)
PointersMatchSize ==
  Careful /\ lapses = {} => \A f \in Files : fcb[f] # NoFile /\ unsaved = NoFile =>
    Len(PointersOf(f)) = CalledFor(fcb[f].size)

=============================================================================
