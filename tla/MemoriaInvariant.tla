--------------------------- MODULE MemoriaInvariant --------------------------
(***************************************************************************)
(* The inductive invariant behind the theorems of MemoriaProofs, by parts: *)
(* what every request keeps of the memory structure m, and what the kernel *)
(* knows of memory between its requests.                                   *)
(***************************************************************************)
EXTENDS Memoria, FiniteSetsExt

Holes == [base : Nat, size : Nat \ {0}]
LiveRecords == [base : Nat, offset : Nat \ {0}, s_id : SegmentIds \cup {0}]

(* The structure is one, each object of ram is a segment with bytes, and   *)
(* segment 0 is where it was put.                                          *)
Shape(m) ==
  /\ m \in [segment   : [Objects -> SegmentRecords \cup {NoSegment}],
            ram       : Seq(Objects),
            table     : [Pids -> Seq(Objects)],
            hole_list : Seq(Holes),
            remaining : Nat]
  /\ \A s \in ToSet(m.ram) : m.segment[s] \in LiveRecords
  /\ m.segment[Zero] = [base |-> 0, offset |-> ZeroSize, s_id |-> 0]

(* TablesMatchRam, said without counting.                                  *)
Ram(m) == m.ram # <<>> /\ m.ram[1] = Zero /\ IsInjective(m.ram)
Tables(m) ==
  \A pid \in Pids : HasTable(m, pid) =>
    m.table[pid][1] = Zero /\ IsInjective(m.table[pid])
Owned(m) ==
  \A s \in Segments :
    /\ Contains(m.ram, s) <=> \E pid \in Pids : Contains(m.table[pid], s)
    /\ \A pid, other \in Pids :
         Contains(m.table[pid], s) /\ Contains(m.table[other], s) => pid = other

(* Two pieces of memory are apart: one ends before the other starts.  All  *)
(* segments and holes are, and none ends later than a byte after the heap. *)
Apart(b, n, c, k) == b + n <= c \/ c + k <= b
SegmentsApart(m) ==
  \A s, t \in ToSet(m.ram) : s # t =>
    Apart(m.segment[s].base, m.segment[s].offset, m.segment[t].base, m.segment[t].offset)
HolesApart(holes) ==
  \A j, k \in 1 .. Len(holes) : j # k =>
    Apart(holes[j].base, holes[j].size, holes[k].base, holes[k].size)
ApartFromHoles(holes, b, n) ==
  \A k \in 1 .. Len(holes) : Apart(b, n, holes[k].base, holes[k].size)
SegmentsInside(m) == \A s \in ToSet(m.ram) : End(m.segment[s]) <= MemorySize + 1
HolesInside(holes) ==
  \A k \in 1 .. Len(holes) : holes[k].base + holes[k].size <= MemorySize + 1
Geometry(m) ==
  /\ SegmentsApart(m)
  /\ HolesApart(m.hole_list)
  /\ \A s \in ToSet(m.ram) :
       ApartFromHoles(m.hole_list, m.segment[s].base, m.segment[s].offset)
  /\ SegmentsInside(m)
  /\ HolesInside(m.hole_list)

(* The accounting of the remaining memory.                                 *)
SumOfHoles(holes) == FoldLeft(LAMBDA n, h : n + h.size, 0, holes)
SumOfSegments(segment, S) == MapThenSumSet(LAMBDA s : segment[s].offset, S)
Accounts(m) ==
  /\ m.remaining = SumOfHoles(m.hole_list)
  /\ m.remaining + SumOfSegments(m.segment, ToSet(m.ram)) = MemorySize

Sound(m) ==
  Shape(m) /\ Ram(m) /\ Tables(m) /\ Owned(m) /\ Geometry(m) /\ Accounts(m)

(* What the kernel waits for is a request of a process that has its table; *)
(* there is room for it until the compaction, and after it all the room is *)
(* one hole.                                                               *)
Requests == [pid : Pids, s_id : SegmentIds, size : Sizes]
Waiting ==
  /\ kernel # "idle" => request \in Requests /\ HasTable(structure, request.pid)
  /\ kernel \in {"compact", "retry"} => request.size <= structure.remaining
  /\ kernel = "retry" =>
       /\ Len(structure.hole_list) = 1
       /\ structure.hole_list[1].size = structure.remaining
  /\ kernel = "idle" => request = NoSegment

MemoryInv ==
  /\ memory \in {"up", "no_segment_to_move", "no_segment_to_delete"}
  /\ algorithm \in Algorithms
  /\ kernel \in {"idle", "compact", "retry", "exit"}
  /\ Sound(structure)
  /\ Waiting
=============================================================================
