----------------------------- MODULE MemoriaData ----------------------------
(***************************************************************************)
(* The contents of memory: what read_memory and write_memory, asked for by *)
(* the CPU and the file system, do to the heap while the segments of       *)
(* Memoria come, go and are moved by compaction.                           *)
(***************************************************************************)
EXTENDS Memoria

NUL == 0        \* the terminator of a string, and what the heap starts with

VARIABLES
  heap,      \* heap[a]: the byte at address a; the last one is past the heap
  written    \* written[s]: what the process last wrote in segment s, by offset

dataVars == <<vars, heap, written>>

Addresses == 0 .. MemorySize
Distances == 0 .. MemorySize     \* bounds offsets and lengths: more is refused
Blank == [o \in {} |-> NUL]

(* get_segment_by_id: the first segment of that id in the table, segment 0 *)
(* included, as a set: it is empty if there is none.                       *)
GetSegmentById(m, pid, s_id) ==
  LET k == SelectInSeq(m.table[pid], LAMBDA s : m.segment[s].s_id = s_id)
  IN  {m.table[pid][j] : j \in {k} \ {0}}

(* Both read_memory and write_memory refuse what does not fit in the       *)
(* segment (lines 164 and 189).                                            *)
FitsInSegment(sg, offset, size) == offset + size <= sg.offset

(* read_memory, which copies 16 bytes at a time: what it returns.          *)
ReadMemory(sg, offset, size) ==
  IF FitsInSegment(sg, offset, size)
    THEN [k \in 1 .. size |-> heap[sg.base + offset + k - 1]]
    ELSE <<>>                                                 \* SEG_FAULT

(* The copy of strlen + 1 bytes: n letters and the terminator at that      *)
(* offset.  In each segment the letter is its own, its id.                 *)
Copied(bytes, sg, offset, n) ==
  [x \in Addresses |-> IF x \in Cells(sg.base + offset, n) THEN sg.s_id
                       ELSE IF x = sg.base + offset + n THEN NUL
                       ELSE bytes[x]]

(* MEM_WRITE_ADDRESS with a string of n letters.  What does not fit is     *)
(* answered SEG_FAULT and changes nothing.                                 *)
WriteMemory(pid, s_id) ==
  /\ Up /\ HasTable(structure, pid)
  /\ \E s \in GetSegmentById(structure, pid, s_id), offset, n \in Distances :
     LET sg == structure.segment[s]
         put == Cells(offset, n + 1) \cap Cells(0, sg.offset) IN
     /\ FitsInSegment(sg, offset, n)
     /\ heap' = Copied(heap, sg, offset, n)
     /\ written' = [written EXCEPT ![s] =
          [o \in DOMAIN written[s] \cup put |->
             IF o = offset + n THEN NUL ELSE IF o \in put THEN s_id ELSE written[s][o]]]
  /\ UNCHANGED vars

(* The bytes compact_memory moves, segment by segment in the order of ram, *)
(* each through a buffer.                                                  *)
MoveBytes(acc, s) ==
  LET sg == structure.segment[s] IN
  [ heap |-> [x \in Addresses |->
                IF x \in Cells(acc.end, sg.offset)
                  THEN acc.heap[sg.base + (x - acc.end)]
                  ELSE acc.heap[x]],
    end  |-> acc.end + sg.offset ]

CompactedHeap ==
  FoldLeft(MoveBytes, [heap |-> heap, end |-> ZeroSize],
           Tail(SortedRam(structure))).heap

(* A step of Memoria: compaction moves the bytes, nothing else touches     *)
(* them (a new segment keeps what was there).                              *)
Layout ==
  /\ Next
  /\ heap' = IF kernel = "compact" /\ kernel' = "retry" THEN CompactedHeap ELSE heap
  /\ written' = [s \in Objects |->
       IF s \in ToSet(structure'.ram) /\ s \in Live THEN written[s] ELSE Blank]

DataInit ==
  /\ Init
  /\ heap = [a \in Addresses |-> NUL]
  /\ written = [s \in Objects |-> Blank]

DataNext ==
  \/ Layout
  \/ \E pid \in Pids, s_id \in SegmentIds : WriteMemory(pid, s_id)

DataSpec == DataInit /\ [][DataNext]_dataVars

-----------------------------------------------------------------------------
(* Type correctness of the contents.                                       *)
DataTypeOK ==
  /\ heap \in [Addresses -> SegmentIds \cup {NUL}]
  /\ DOMAIN written = Objects
  /\ \A s \in Objects : DOMAIN written[s] \subseteq Nat

Kept(s, o) == ReadMemory(LiveSegment(s), o, 1) = <<written[s][o]>>
Cut(s, o) == o = 0 /\ ReadMemory(LiveSegment(s), o, 1) = <<NUL>>

(* A process reads in its segment what it last wrote there, whatever the   *)
(* others wrote in theirs and however often compaction moved it, but for   *)
(* one byte: the first of a segment may have become the terminator of a    *)
(* string that fills the segment before it.                                *)
OnlyTheFirstByteIsCut ==
  \A s \in Live \ {Zero} : \A o \in DOMAIN written[s] : Kept(s, o) \/ Cut(s, o)

=============================================================================
