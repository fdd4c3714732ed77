------------------------------ MODULE Memoria -------------------------------
(***************************************************************************)
(* The memory module: the segments of the processes, the list of holes,    *)
(* the three placement algorithms and compaction, driven by the requests   *)
(* of the kernel.  The mutex memory_access makes the service of a request  *)
(* one step.  The kernel's main thread asks for one segment at a time and, *)
(* when told to, for a compaction before it asks again; its console        *)
(* threads may create processes in between.                                *)
(*                                                                         *)
(* A segment is an object that the list `ram' and the table of its process *)
(* share.  An address is its distance from the start of the heap.          *)
(***************************************************************************)
EXTENDS Naturals, Sequences, FiniteSets, SequencesExt

CONSTANTS
  Pids,          \* processes; the pid of an ended one stands for the next one
  Segments,      \* bound: the segment objects that may live at the same time
  Zero,          \* the object of segment 0
  SegmentIds,    \* bound: the ids that processes give their segments
  Sizes,         \* bound: the sizes they ask for, never 0
  MemorySize,    \* TAM_MEMORIA
  ZeroSize,      \* TAM_SEGMENTO_0
  Algorithms,    \* the values of ALGORITMO_ASIGNACION
  NoSegment      \* what is in an object that is not a segment

ASSUME MemoryAssumption ==
  MemorySize \in Nat /\ ZeroSize \in 1 .. (MemorySize - 1)
ASSUME SizesAssumption == Sizes \subseteq 1 .. MemorySize
ASSUME ZeroAssumption == Zero \notin Segments /\ 0 \notin SegmentIds
ASSUME PidsAssumption == IsFiniteSet(Pids)
ASSUME NoSegmentAssumption ==
  NoSegment \notin [pid : Pids, s_id : SegmentIds, size : Sizes]
ASSUME AlgorithmsAssumption == Algorithms \subseteq {"BEST", "FIRST", "WORST"}

VARIABLES
  memory,      \* "up", or the way the memory module ended
  algorithm,   \* config_memory.algorithm
  structure,   \* t_memory_structure and config_memory.remaining_memory
  kernel,      \* what the kernel's main thread does next
  request      \* the segment it has still to get or die for

vars == <<memory, algorithm, structure, kernel, request>>

Up == memory = "up"
Objects == Segments \cup {Zero}

(* new_memory_structure.                                                   *)
NewMemoryStructure == [
  segment   |-> [s \in Objects |->
                   IF s = Zero THEN [base |-> 0, offset |-> ZeroSize, s_id |-> 0]
                               ELSE NoSegment],
  ram       |-> <<Zero>>,
  table     |-> [pid \in Pids |-> <<>>],     \* <<>>: the pid has no table
  hole_list |-> <<[base |-> ZeroSize, size |-> MemorySize - ZeroSize]>>,
  remaining |-> MemorySize - ZeroSize ]

HasTable(m, pid) == m.table[pid] # <<>>
End(sg) == sg.base + sg.offset

-----------------------------------------------------------------------------
(* The placement algorithms: the index of the hole each takes, 0 if none   *)
(* is large enough.  They walk the list with the best hole so far.         *)

(* The comparisons of first_fit, best_fit and worst_fit; fault: those of   *)
(* BEST and WORST exchanged.                                               *)
BeatsExchanged(alg, size, best) ==
  (alg = "WORST" /\ size < best) \/ (alg = "BEST" /\ size > best)
Beats(alg, size, best) ==
  (alg = "BEST" /\ size < best) \/ (alg = "WORST" /\ size > best)

Fit(alg, holes, size) ==
  FoldLeftDomain(
    LAMBDA best, k :
      IF /\ holes[k].size >= size
         /\ best = 0 \/ Beats(alg, holes[k].size, holes[best].size)
        THEN k ELSE best,
    0, holes)

(* What is left of the hole: it goes when nothing is.                      *)
HoleTaken(holes, k, size) ==
  IF holes[k].size = size
    THEN RemoveAt(holes, k)
    ELSE [holes EXCEPT ![k] = [base |-> @.base + size, size |-> @.size - size]]

Free(m) == Segments \ ToSet(m.ram)
Placed(m, k, req, s) ==
  [m EXCEPT
    !.segment[s] = [base   |-> m.hole_list[k].base,
                    offset |-> req.size,
                    s_id   |-> req.s_id],
    !.ram = Append(@, s),
    !.table[req.pid] = Append(@, s),
    !.hole_list = HoleTaken(@, k, req.size)]

(* add_segment.  The answer is OUT_OF_MEMORY without room for the segment, *)
(* COMPACT_REQUEST with room but no hole for it, MESSAGE_OK otherwise; the *)
(* segment is then the new object s.  Fault: the accounting of the         *)
(* remaining memory forgotten.                                             *)
Forgets(m, size) == m.remaining
Spends(m, size) == m.remaining - size

Answer(m, size) ==
  IF m.remaining < size THEN "OUT_OF_MEMORY"
  ELSE IF Fit(algorithm, m.hole_list, size) = 0 THEN "COMPACT_REQUEST"
  ELSE "MESSAGE_OK"

AddSegment(m, req, s) ==
  [Placed(m, Fit(algorithm, m.hole_list, req.size), req, s)
     EXCEPT !.remaining = Spends(m, req.size)]

-----------------------------------------------------------------------------
(* compact_hole_list: a hole and the next of the list become one when they *)
(* are adjacent, and the loop then skips a position: neither the new hole  *)
(* nor the one after it is compared with its next.                         *)
MergeStep(acc, hole) ==
  IF acc.skip = 0 /\ Last(acc.holes).base + Last(acc.holes).size = hole.base
    THEN [holes |-> Append(Front(acc.holes),
                           [Last(acc.holes) EXCEPT !.size = @ + hole.size]),
          skip |-> 2]
    ELSE [holes |-> Append(acc.holes, hole),
          skip |-> IF acc.skip = 0 THEN 0 ELSE acc.skip - 1]

CompactHoleList(holes) ==
  FoldLeft(MergeStep, [holes |-> <<>>, skip |-> 1], holes).holes

(* Where segment s_id is in the table of pid, 0 if it is not; segment 0,   *)
(* the first of the table, is not looked at.                               *)
IndexInTable(m, pid, s_id) ==
  LET k == SelectInSeq(Tail(m.table[pid]), LAMBDA s : m.segment[s].s_id = s_id)
  IN  IF k = 0 THEN 0 ELSE k + 1

(* The segment of that base leaves ram (lines 78-86).                      *)
RamWithout(m, base) ==
  LET k == SelectInSeq(Tail(m.ram), LAMBDA s : m.segment[s].base = base)
  IN  IF k = 0 THEN m.ram ELSE RemoveAt(m.ram, k + 1)

(* delete_segment, for a segment that is in the table.                     *)
DeleteSegmentAt(m, pid, k) ==
  LET s  == m.table[pid][k]
      sg == m.segment[s] IN
  [ segment   |-> [m.segment EXCEPT ![s] = NoSegment],
    ram       |-> RamWithout(m, sg.base),
    table     |-> [m.table EXCEPT ![pid] = RemoveAt(@, k)],
    hole_list |-> CompactHoleList(
                    Append(m.hole_list, [base |-> sg.base, size |-> sg.offset])),
    remaining |-> m.remaining + sg.offset ]

(* remove_sg_table: as long as the table has a segment besides segment 0,  *)
(* the one with the id of the last is deleted, and then the table.  Fault: *)
(* only the table goes.                                                    *)
TableDropped(m, pid) == [m EXCEPT !.table[pid] = <<>>]
RemoveSgTable(m, pid) ==
  LET DeleteLast(acc, s) ==
        DeleteSegmentAt(acc, pid,
          IndexInTable(acc, pid, acc.segment[Last(acc.table[pid])].s_id))
  IN  [FoldLeft(DeleteLast, m, Tail(m.table[pid])) EXCEPT !.table[pid] = <<>>]

-----------------------------------------------------------------------------
(* compact_memory: ram is sorted by base (fault: it is not), each segment  *)
(* is moved to the end of the one before it, and one hole is left, one     *)
(* byte after the end of the last segment.                                 *)
UnsortedRam(m) == m.ram
SortedRam(m) ==
  LET Before(s) == {t \in ToSet(m.ram) : m.segment[t].base < m.segment[s].base}
  IN  [k \in DOMAIN m.ram |->
         CHOOSE s \in ToSet(m.ram) : Cardinality(Before(s)) = k - 1]

MoveStep(acc, s) ==
  [ segment |-> [acc.segment EXCEPT ![s].base = acc.end],
    end     |-> acc.end + acc.segment[s].offset ]

(* Faults: the hole starts at the end of segment 0; it is as large as all  *)
(* the memory there is; the byte lost before it is taken from its size.    *)
LastHoleAtZero(end, remaining) == [base |-> ZeroSize, size |-> remaining]
LastHoleOfAll(end, remaining) == [base |-> end + 1, size |-> MemorySize - ZeroSize]
LastHoleWithin(end, remaining) == [base |-> end + 1, size |-> remaining - 1]
LastHole(end, remaining) == [base |-> end + 1, size |-> remaining]

CompactMemory(m) ==
  LET moved == FoldLeft(MoveStep, [segment |-> m.segment, end |-> ZeroSize],
                        Tail(SortedRam(m))) IN
  [m EXCEPT !.segment = moved.segment,
            !.ram = SortedRam(m),
            !.hole_list = <<LastHole(moved.end, m.remaining)>>]

-----------------------------------------------------------------------------
Init ==
  /\ memory = "up"
  /\ algorithm \in Algorithms
  /\ structure = NewMemoryStructure
  /\ kernel = "idle"
  /\ request = NoSegment

(* MEM_INIT_PROCESS, from whatever thread of the kernel.                   *)
InitProcess(pid) ==
  /\ Up /\ ~HasTable(structure, pid)
  /\ structure' = [structure EXCEPT !.table[pid] = <<Zero>>]
  /\ UNCHANGED <<memory, algorithm, kernel, request>>

(* MEM_END_PROCCESS: a process that ends, of its own or out of memory.     *)
EndProcess(pid) ==
  /\ Up /\ HasTable(structure, pid)
  /\ kernel = "idle" \/ (kernel = "exit" /\ pid = request.pid)
  /\ structure' = RemoveSgTable(structure, pid)
  /\ kernel' = "idle" /\ request' = NoSegment
  /\ UNCHANGED <<memory, algorithm>>

(* MEM_CREATE_SEGMENT.                                                     *)
CreateSegment(pid, s_id, size) ==
  /\ Up /\ kernel = "idle" /\ HasTable(structure, pid)
  /\ Free(structure) # {}
  /\ LET req    == [pid |-> pid, s_id |-> s_id, size |-> size]
         answer == Answer(structure, size) IN
     \/ /\ answer = "MESSAGE_OK"
        /\ \E s \in Free(structure) : structure' = AddSegment(structure, req, s)
        /\ UNCHANGED <<kernel, request>>
     \/ /\ answer # "MESSAGE_OK"
        /\ kernel' = IF answer = "OUT_OF_MEMORY" THEN "exit" ELSE "compact"
        /\ request' = req
        /\ UNCHANGED structure
  /\ UNCHANGED <<memory, algorithm>>

(* MEM_COMPACT_ALL.  With segment 0 alone in ram, line 131 reads the       *)
(* fields of list_get(ram, 1), which is NULL.                              *)
CompactAll ==
  /\ Up /\ kernel = "compact"
  /\ IF Len(structure.ram) = 1
       THEN memory' = "no_segment_to_move" /\ UNCHANGED <<structure, kernel>>
       ELSE /\ structure' = CompactMemory(structure)
            /\ kernel' = "retry"
            /\ UNCHANGED memory
  /\ UNCHANGED <<algorithm, request>>

(* The kernel asks again.  A second COMPACT_REQUEST is logged as an error, *)
(* and the process goes on without its segment.                            *)
RetryCreate ==
  /\ Up /\ kernel = "retry"
  /\ LET answer == Answer(structure, request.size) IN
     /\ IF answer = "MESSAGE_OK"
          THEN \E s \in Free(structure) : structure' = AddSegment(structure, request, s)
          ELSE UNCHANGED structure
     /\ kernel' = IF answer = "OUT_OF_MEMORY" THEN "exit" ELSE "idle"
     /\ request' = IF answer = "OUT_OF_MEMORY" THEN request ELSE NoSegment
  /\ UNCHANGED <<memory, algorithm>>

(* MEM_DELETE_SEGMENT.  For a segment the process does not have,           *)
(* segment_to_delete stays NULL and its fields are read.                   *)
DeleteSegment(pid, s_id) ==
  /\ Up /\ kernel = "idle" /\ HasTable(structure, pid)
  /\ LET k == IndexInTable(structure, pid, s_id) IN
     IF k = 0
       THEN memory' = "no_segment_to_delete" /\ UNCHANGED structure
       ELSE structure' = DeleteSegmentAt(structure, pid, k) /\ UNCHANGED memory
  /\ UNCHANGED <<algorithm, kernel, request>>

Next ==
  \/ \E pid \in Pids : InitProcess(pid) \/ EndProcess(pid)
  \/ \E pid \in Pids, s_id \in SegmentIds, size \in Sizes :
       CreateSegment(pid, s_id, size)
  \/ \E pid \in Pids, s_id \in SegmentIds : DeleteSegment(pid, s_id)
  \/ CompactAll \/ RetryCreate

Spec == Init /\ [][Next]_vars

-----------------------------------------------------------------------------
(* Type correctness of the memory structure.                               *)
SegmentRecords == [base : Nat, offset : Nat, s_id : SegmentIds \cup {0}]
TypeOK ==
  /\ memory \in {"up", "no_segment_to_move", "no_segment_to_delete"}
  /\ algorithm \in Algorithms
  /\ kernel \in {"idle", "compact", "retry", "exit"}
  /\ structure.segment \in [Objects -> SegmentRecords \cup {NoSegment}]
  /\ structure.ram \in Seq(Objects)
  /\ structure.table \in [Pids -> Seq(Objects)]
  /\ structure.hole_list \in Seq([base : Nat, size : Nat \ {0}])
  /\ structure.remaining \in Nat

Live == ToSet(structure.ram)
LiveSegment(s) == structure.segment[s]
SizeOf(S) == MapThenSumSet(LAMBDA s : LiveSegment(s).offset, S)
HoleSizes == FoldLeft(LAMBDA n, h : n + h.size, 0, structure.hole_list)

(* remaining_memory, kept apart from the hole list on every path (create,  *)
(* delete, end of a process, compaction), is what the holes add up to and  *)
(* what the segments leave of the heap.                                    *)
RemainingIsFree ==
  /\ structure.remaining = HoleSizes
  /\ structure.remaining + SizeOf(Live) = MemorySize

(* The bytes of the heap: no two segments, no two holes and no segment and *)
(* hole share one, whatever was merged, moved or split.                    *)
Cells(base, size) == base .. (base + size - 1)
SegmentCells(s) == Cells(LiveSegment(s).base, LiveSegment(s).offset)
HoleCells(k) == Cells(structure.hole_list[k].base, structure.hole_list[k].size)
NoOverlap ==
  /\ \A s, t \in Live : s # t => SegmentCells(s) \cap SegmentCells(t) = {}
  /\ \A j, k \in DOMAIN structure.hole_list :
       j # k => HoleCells(j) \cap HoleCells(k) = {}
  /\ \A s \in Live, k \in DOMAIN structure.hole_list :
       SegmentCells(s) \cap HoleCells(k) = {}

(* Compaction leaves its hole one byte late, so segments may end one byte  *)
(* past the heap, and never more, however many compactions there are.      *)
AtMostOneByteOut == \A s \in Live : End(LiveSegment(s)) <= MemorySize + 1

(* Each object of ram but segment 0 is in the table of one process, once,  *)
(* and no table holds anything else: nothing of an ended process is left   *)
(* in ram, and no table points to a deleted segment.                       *)
TablesMatchRam ==
  /\ structure.ram[1] = Zero /\ IsInjective(structure.ram)
  /\ \A pid \in Pids : HasTable(structure, pid) =>
       Head(structure.table[pid]) = Zero /\ IsInjective(structure.table[pid])
  /\ \A s \in Segments :
       Cardinality({pid \in Pids : s \in ToSet(structure.table[pid])})
         = IF s \in Live THEN 1 ELSE 0

(* kernel.c:242-243: once memory is compacted the segment fits, although   *)
(* processes may have been created in between; the error branch for a      *)
(* second COMPACT_REQUEST is never taken.                                  *)
NoConsecutiveCompaction ==
  kernel = "retry" => Answer(structure, request.size) = "MESSAGE_OK"

(* The hole a segment is placed in is the one its algorithm is named for:  *)
(* of those large enough, a smallest, a largest or the first.              *)
FitsIts(alg, holes, base, size) ==
  \E k \in DOMAIN holes :
    /\ holes[k].base = base /\ holes[k].size >= size
    /\ \A j \in DOMAIN holes :
         holes[j].size >= size =>
           CASE alg = "BEST"  -> holes[k].size <= holes[j].size
             [] alg = "WORST" -> holes[k].size >= holes[j].size
             [] alg = "FIRST" -> k <= j
PlacedAsConfigured ==
  [][\A s \in Segments :
       s \notin Live /\ s \in ToSet(structure'.ram) =>
         FitsIts(algorithm, structure.hole_list,
                 structure'.segment[s].base, structure'.segment[s].offset)]_vars

(* To the kernel memory is a store limited only by the sizes of all the    *)
(* segments together: it refuses one exactly when they would not fit, and  *)
(* a segment it defers, to be compacted first, is then given; compaction   *)
(* and the ends of processes lose no segment and no byte.                  *)
SegmentsOf(pid) ==
  [k \in 1 .. Len(structure.table[pid]) - 1 |->
     LET sg == structure.segment[structure.table[pid][k + 1]]
     IN  [s_id |-> sg.s_id, size |-> sg.offset]]
Store == INSTANCE SegmentStore WITH
  Capacity <- MemorySize - ZeroSize,
  None     <- NoSegment,
  open     <- {pid \in Pids : HasTable(structure, pid)},
  table    <- [pid \in Pids |-> SegmentsOf(pid)],
  deferred <- IF kernel \in {"compact", "retry"} THEN request ELSE NoSegment,
  refused  <- IF kernel = "exit" THEN request.pid ELSE NoSegment
ImplementsStore == Store!Spec

=============================================================================
