------------------------------ MODULE Segments ------------------------------
(***************************************************************************)
(* The segments of a process in three places: its PCB in the kernel, the   *)
(* copy the CPU translates addresses with, and the table of memory, which  *)
(* is a SegmentStore here (Memoria implements it).  The main loop of the   *)
(* kernel, the console threads that admit processes, and the execution     *)
(* context the CPU runs; the two kinds of threads of the kernel ask memory *)
(* on the same socket.  A thread receives an answer whole here: that two   *)
(* may each take a part of its bytes is left out.                          *)
(*                                                                         *)
(* How processes queue and are chosen is in Kernel, files are in           *)
(* KernelFiles: here each console sends one process and any READY one may  *)
(* be chosen.  No compaction waits for a transfer: KernelFiles shows that  *)
(* the one handle_fs has taken may go on through a compaction.             *)
(***************************************************************************)
EXTENDS Integers, Sequences, FiniteSets, SequencesExt

CONSTANTS
  Procs,           \* the processes
  SegmentIds,      \* bound: the ids they give their segments
  Sizes,           \* bound: the sizes they ask for
  AccessSizes,     \* bound: the bytes an access is for; <= 0 for a bad register
  Capacity,        \* the bytes that memory has for segments
  ZeroSize,        \* TAM_SEGMENTO_0
  MaxSegmentSize,  \* TAM_MAX_SEGMENTO of the CPU
  TableBound,      \* bound: the entries of a PCB's table
  Manners,         \* how processes use ids: "careful", "careless"
  NULL

ASSUME NullAssumption ==
  /\ NULL \notin Procs \cup SegmentIds /\ NULL # "main" /\ "main" \notin Procs
  /\ NULL \notin Seq([s_id : SegmentIds \cup {0}, size : Nat])
  /\ NULL \notin [pid : Procs, s_id : SegmentIds, size : Sizes]
ASSUME IdsAssumption == SegmentIds \subseteq Nat \ {0} /\ Sizes \subseteq Nat \ {0}
ASSUME SizesAssumption == MaxSegmentSize \in Nat \ {0} /\ ZeroSize \in Nat /\ Capacity \in Nat
ASSUME MannersAssumption == Manners \subseteq {"careful", "careless"}

VARIABLES
  system,          \* "up", or the way one of the modules ended
  manner,          \* how the processes of this run use ids
  state,           \* pcb->state
  main, pcb,       \* where the main loop is, and the PCB it has in its hands
  request,         \* the CREATE_SEGMENT it serves, [s_id, size], or NULL
  active_pcbs,     \* the PCBs of the active queue
  segments_table,  \* of each PCB: a sequence of segments, or NULL
  planner,         \* who runs long_term_schedule: "main", a console, or NULL
  planning,        \* where it is: "look", "end" or "init"
  ending,          \* the PCB it destroys, or NULL
  snapshot,        \* the tables the main loop got from a compaction, or NULL
  asked, answers,  \* the two directions of the kernel's socket_memory
  transfers,       \* F_READ and F_WRITE on their way: [pcb, s_id, offset, size]
  open, table, deferred, refused    \* memory

kernelVars == <<state, main, pcb, request, active_pcbs, segments_table, snapshot, transfers>>
plannerVars == <<planner, planning, ending>>
socketVars == <<asked, answers>>
memoryVars == <<open, table, deferred, refused>>
vars == <<system, manner, kernelVars, plannerVars, socketVars, memoryVars>>

Store == INSTANCE SegmentStore WITH Pids <- Procs, None <- NULL

Up == system = "up"
Goto(next) == main' = next
Become(p, s) == state' = [state EXCEPT ![p] = s]
Careful == manner = "careful"

Zero == [s_id |-> 0, size |-> ZeroSize]
MemoryTable(p) == <<Zero>> \o table[p]

Init ==
  /\ system = "up" /\ manner \in Manners
  /\ state = [p \in Procs |-> "none"]
  /\ main = "pick" /\ pcb = NULL /\ request = NULL /\ active_pcbs = {}
  /\ segments_table = [p \in Procs |-> <<>>]
  /\ planner = NULL /\ planning = "look" /\ ending = NULL
  /\ snapshot = NULL /\ asked = <<>> /\ answers = <<>>
  /\ transfers = {}
  /\ Store!Init

-----------------------------------------------------------------------------
(* The socket: requests are served in order, and whichever thread receives *)
(* first takes the first answer.                                           *)
Ask(op, p, s_id, size) ==
  asked' = Append(asked, [op |-> op, pcb |-> p, s_id |-> s_id, size |-> size])
Receive(answer) ==
  answers # <<>> /\ answer = Head(answers) /\ answers' = Tail(answers)

(* The main loop goes on with the answer a console waits for as with one   *)
(* of its own, until the console gets another and aborts: not followed.    *)
AnswerTaken(answer) ==
  /\ answer.type = "SEGMENTS_TABLE" /\ system' = "answer_taken"
  /\ UNCHANGED <<main, pcb, request, active_pcbs, state, segments_table, snapshot, asked>>
Reply(type, content) ==
  /\ answers' = Append(answers, [type |-> type, content |-> content])
  /\ asked' = Tail(asked)

(* The first segment of a table with that id, as list_get_by_sid and       *)
(* get_segment_by_id look for it.                                          *)
HasId(segments, s_id) == \E k \in DOMAIN segments : segments[k].s_id = s_id
BySid(segments, s_id) == segments[SelectInSeq(segments, LAMBDA sg : sg.s_id = s_id)]

-----------------------------------------------------------------------------
(* Memory.  The tables that come with the answer to a compaction are those *)
(* of the processes it has one for.                                        *)
AllTables == [p \in open |-> MemoryTable(p)]

(* read_memory and write_memory.                                           *)
MemoryAllows(p, s_id, offset, size) ==
  /\ p \in open /\ HasId(MemoryTable(p), s_id)
  /\ offset + size <= BySid(MemoryTable(p), s_id).size

(* Fault: a table outlives its process.                                    *)
TableStays(p) == UNCHANGED memoryVars
TableGoes(p) == Store!Finish(p)

MemServeCreate(r) ==
  \/ Store!GrantNow(r.pcb, r.s_id, r.size) /\ Reply("MESSAGE_OK", NULL)
  \/ Store!Defer(r.pcb, r.s_id, r.size) /\ Reply("COMPACT_REQUEST", NULL)
  \/ /\ deferred # NULL
     /\ Store!GrantDeferred /\ Reply("MESSAGE_OK", NULL)
  \/ Store!Refuse(r.pcb, r.size) /\ Reply("OUT_OF_MEMORY", NULL)

(* Deleting a segment that is not there ends memory.                       *)
MemServeDelete(r) ==
  IF HasId(table[r.pcb], r.s_id)
    THEN Store!Delete(r.pcb, r.s_id) /\ Reply("MESSAGE_OK", NULL) /\ UNCHANGED system
    ELSE /\ system' = "no_segment_to_delete"
         /\ UNCHANGED <<memoryVars, socketVars>>

MemServe ==
  /\ Up /\ asked # <<>>
  /\ LET r == Head(asked) IN
     \/ /\ r.op = "MEM_INIT_PROCESS"
        /\ Store!Begin(r.pcb) /\ Reply("SEGMENTS_TABLE", <<Zero>>) /\ UNCHANGED system
     \/ /\ r.op = "MEM_END_PROCCESS"
        /\ TableGoes(r.pcb) /\ Reply("MESSAGE_OK", NULL) /\ UNCHANGED system
     \/ r.op = "MEM_CREATE_SEGMENT" /\ MemServeCreate(r) /\ UNCHANGED system
     \/ /\ r.op = "MEM_COMPACT_ALL"
        /\ Reply("ALL_SEGMENTS_TABLES", AllTables) /\ UNCHANGED <<memoryVars, system>>
     \/ r.op = "MEM_DELETE_SEGMENT" /\ MemServeDelete(r)
  /\ UNCHANGED <<manner, kernelVars, plannerVars>>

-----------------------------------------------------------------------------
(* long_term_schedule, by a console thread with a new process or by the    *)
(* main loop with one that ended; a mutex keeps them apart.                *)
Arrive(p) ==
  /\ Up /\ state[p] = "none" /\ planner = NULL
  /\ Become(p, "NEW")
  /\ planner' = p /\ planning' = "look"
  /\ UNCHANGED <<system, manner, request, main, pcb, active_pcbs, segments_table,
                 snapshot, transfers, ending, socketVars, memoryVars>>

MainPlans ==
  /\ Up /\ main = "plan" /\ planner = NULL
  /\ planner' = "main" /\ planning' = "look"
  /\ Goto("planning")
  /\ UNCHANGED <<system, manner, request, state, pcb, active_pcbs, segments_table, snapshot,
                 transfers, ending, socketVars, memoryVars>>

Ended == {p \in active_pcbs : state[p] = "EXIT_PROCESS"}

LookEnded(p) ==
  /\ Up /\ planner # NULL /\ planning = "look" /\ p \in Ended
  /\ active_pcbs' = active_pcbs \ {p}
  /\ ending' = p /\ planning' = "end"
  /\ Ask("MEM_END_PROCCESS", p, 0, 0)
  /\ UNCHANGED <<system, manner, request, state, main, pcb, segments_table, snapshot, transfers,
                 planner, answers, memoryVars>>

(* Any other answer makes it abort, and the kernel with it.                *)
EndAnswer ==
  /\ Up /\ planning = "end"
  /\ \E answer \in ToSet(answers) :
       /\ Receive(answer)
       /\ IF answer.type = "MESSAGE_OK"
            THEN /\ Become(ending, "freed")
                 /\ segments_table' = [segments_table EXCEPT ![ending] = <<>>]
                 /\ planning' = "look" /\ ending' = NULL
                 /\ UNCHANGED system
            ELSE /\ system' = "aborted"
                 /\ UNCHANGED <<state, segments_table, planning, ending>>
  /\ UNCHANGED <<manner, request, main, pcb, active_pcbs, snapshot, transfers, planner, asked,
                 memoryVars>>

NoneEnded ==
  /\ Up /\ planner # NULL /\ planning = "look" /\ Ended = {}
  /\ IF planner = "main"
       THEN /\ planner' = NULL /\ Goto("pick")
            /\ UNCHANGED <<planning, asked>>
       ELSE /\ Ask("MEM_INIT_PROCESS", planner, 0, 0) /\ planning' = "init"
            /\ UNCHANGED <<planner, main>>
  /\ UNCHANGED <<system, manner, request, state, pcb, active_pcbs, segments_table, snapshot,
                 transfers, ending, answers, memoryVars>>

InitAnswer ==
  /\ Up /\ planning = "init"
  /\ \E answer \in ToSet(answers) :
       /\ Receive(answer)
       /\ IF answer.type = "SEGMENTS_TABLE"
            THEN /\ Become(planner, "READY")
                 /\ segments_table' = [segments_table EXCEPT ![planner] = answer.content]
                 /\ active_pcbs' = active_pcbs \cup {planner}
                 /\ planner' = NULL /\ planning' = "look"
                 /\ UNCHANGED system
            ELSE /\ system' = "aborted"
                 /\ UNCHANGED <<state, segments_table, active_pcbs, planner, planning>>
  /\ UNCHANGED <<manner, request, main, pcb, snapshot, transfers, ending, asked, memoryVars>>

-----------------------------------------------------------------------------
(* The main loop gives the CPU a process.  Without a table for it, line 25 *)
(* of the serializer follows a null pointer.                               *)
Pick(p) ==
  /\ Up /\ main = "pick" /\ p \in active_pcbs /\ state[p] = "READY"
  /\ pcb' = p /\ Become(p, "EXEC")
  /\ active_pcbs' = active_pcbs \ {p}
  /\ IF segments_table[p] = NULL
       THEN system' = "null_table" /\ UNCHANGED main
       ELSE Goto("cpu") /\ UNCHANGED system
  /\ UNCHANGED <<manner, request, segments_table, snapshot, transfers, plannerVars, socketVars,
                 memoryVars>>

(* The end of a request: the PCB goes back to the active queue.            *)
Back(next) ==
  /\ Goto(next)
  /\ active_pcbs' = active_pcbs \cup {pcb}
  /\ pcb' = NULL /\ request' = NULL

Yield ==
  /\ Up /\ main = "cpu"
  /\ Become(pcb, "READY") /\ Back("pick")
  /\ UNCHANGED <<system, manner, segments_table, snapshot, transfers, plannerVars,
                 socketVars, memoryVars>>

Exit ==
  /\ Up /\ main = "cpu"
  /\ Become(pcb, "EXIT_PROCESS") /\ Back("plan")
  /\ UNCHANGED <<system, manner, segments_table, snapshot, transfers, plannerVars,
                 socketVars, memoryVars>>

(* mmu: the segment is that of the address over the maximum size.  Fault:  *)
(* the size of the access is left out of the comparison.                   *)
Addresses == 0 .. (1 + Cardinality(SegmentIds)) * MaxSegmentSize - 1
SidOf(address) == address \div MaxSegmentSize
OffsetOf(address) == address % MaxSegmentSize
MmuFindsSegment(address, size) ==
  size \in 1 .. MaxSegmentSize =>
    HasId(segments_table[pcb], SidOf(address))
ForgetsSize(address, size) ==
  /\ size \in 1 .. MaxSegmentSize
  /\ OffsetOf(address) <= BySid(segments_table[pcb], SidOf(address)).size
MmuAllows(address, size) ==
  /\ size \in 1 .. MaxSegmentSize
  /\ OffsetOf(address) + size <= BySid(segments_table[pcb], SidOf(address)).size

(* A careful process addresses only segments it has.                       *)
MayAddress(address) ==
  Careful => HasId(MemoryTable(pcb), SidOf(address))

Instruction(address) == Up /\ main = "cpu" /\ MayAddress(address)

MmuFails(address, size) ==
  /\ Instruction(address) /\ ~MmuFindsSegment(address, size)
  /\ system' = "null_segment"
  /\ UNCHANGED <<manner, kernelVars, plannerVars, socketVars, memoryVars>>

(* MOV_IN and MOV_OUT: a refusal of the mmu ends the process; that of      *)
(* memory does after MOV_OUT, and is only logged after MOV_IN.  MOV_IN     *)
(* asks memory for the register; MOV_OUT sends what is in it up to the     *)
(* first NUL, which may be a later register when this one is full.         *)
MovIn(address, size) ==
  /\ Instruction(address) /\ MmuFindsSegment(address, size)
  /\ IF MmuAllows(address, size)
       THEN UNCHANGED <<state, main, active_pcbs, pcb, request>>
       ELSE Become(pcb, "EXIT_PROCESS") /\ Back("plan")
  /\ UNCHANGED <<system, manner, segments_table, snapshot, transfers, plannerVars,
                 socketVars, memoryVars>>

MovOut(address, size, strlen) ==
  /\ Instruction(address) /\ MmuFindsSegment(address, size)
  /\ IF /\ MmuAllows(address, size)
        /\ MemoryAllows(pcb, SidOf(address), OffsetOf(address), strlen)
       THEN UNCHANGED <<state, main, active_pcbs, pcb, request>>
       ELSE Become(pcb, "EXIT_PROCESS") /\ Back("plan")
  /\ UNCHANGED <<system, manner, segments_table, snapshot, transfers, plannerVars,
                 socketVars, memoryVars>>

(* F_READ and F_WRITE: a refusal of the mmu is only logged; otherwise the  *)
(* process is BLOCKed until the file system has been to memory with the    *)
(* segment, the offset and the size.  Fault: it is not BLOCKed.            *)
TransferAwake == Become(pcb, "READY")
TransferBlocks == Become(pcb, "BLOCK")
FReadWrite(address, size) ==
  /\ Instruction(address) /\ MmuFindsSegment(address, size)
  /\ MmuAllows(address, size)
  /\ transfers' = transfers \cup
       {[pcb |-> pcb, s_id |-> SidOf(address), offset |-> OffsetOf(address), size |-> size]}
  /\ TransferBlocks /\ Back("pick")
  /\ UNCHANGED <<system, manner, segments_table, snapshot, plannerVars, socketVars,
                 memoryVars>>

(* The file system reads or writes the segment; if memory refuses, the     *)
(* process stays BLOCKed.                                                  *)
Transfer(t) ==
  /\ Up /\ t \in transfers
  /\ transfers' = transfers \ {t}
  /\ IF MemoryAllows(t.pcb, t.s_id, t.offset, t.size)
       THEN Become(t.pcb, "READY") ELSE UNCHANGED state
  /\ UNCHANGED <<system, manner, request, main, pcb, active_pcbs, segments_table, snapshot,
                 plannerVars, socketVars, memoryVars>>

-----------------------------------------------------------------------------
(* CREATE_SEGMENT.  A careful process does not use an id again that may    *)
(* still be in its table.                                                  *)
Create(s_id, size) ==
  /\ Up /\ main = "cpu"
  /\ Careful => ~HasId(segments_table[pcb], s_id)
  /\ Len(segments_table[pcb]) < TableBound
  /\ Ask("MEM_CREATE_SEGMENT", pcb, s_id, size)
  /\ Goto("create") /\ request' = [s_id |-> s_id, size |-> size]
  /\ UNCHANGED <<system, manner, state, pcb, active_pcbs, segments_table, snapshot,
                 transfers, plannerVars, answers, memoryVars>>

(* What the kernel does with the segment memory gave.  Fault: nothing.     *)
NotAdded(T) == T
Created(T) == [T EXCEPT ![pcb] = Append(@, request)]

(* The first answer, and the one after a compaction, where COMPACT_REQUEST *)
(* would be logged and no more: memory never gives it, which Memoria shows *)
(* (NoConsecutiveCompaction).                                              *)
CreateAnswer ==
  /\ Up /\ main \in {"create", "again"}
  /\ \E answer \in ToSet(answers) :
       /\ Receive(answer)
       /\ \/ AnswerTaken(answer)
          \/ /\ answer.type = "COMPACT_REQUEST" /\ main = "create"
             /\ Goto("compact")
             /\ Ask("MEM_COMPACT_ALL", pcb, 0, 0)
             /\ UNCHANGED <<system, state, active_pcbs, pcb, request, segments_table>>
          \/ /\ answer.type = "OUT_OF_MEMORY"
             /\ Become(pcb, "EXIT_PROCESS") /\ Back("plan")
             /\ UNCHANGED <<system, segments_table, asked>>
          \/ /\ answer.type = "MESSAGE_OK"
             /\ segments_table' = Created(segments_table)
             /\ Become(pcb, "READY") /\ Back("pick")
             /\ UNCHANGED <<system, asked>>
  /\ UNCHANGED <<manner, snapshot, transfers, plannerVars, memoryVars>>

(* The answer to the compaction.                                           *)
CompactAnswer ==
  /\ Up /\ main = "compact"
  /\ \E answer \in ToSet(answers) :
       /\ Receive(answer)
       /\ \/ AnswerTaken(answer)
          \/ /\ answer.type = "ALL_SEGMENTS_TABLES"
             /\ snapshot' = answer.content
             /\ Goto("refresh")
             /\ UNCHANGED <<system, request, state, pcb, active_pcbs, segments_table, asked>>
  /\ UNCHANGED <<manner, transfers, plannerVars, memoryVars>>

(* Lines 222-228: the PCBs of the active queue get the tables of the       *)
(* snapshot, NULL for one that is not in it; the list of one that has NULL *)
(* already is destroyed through it.                                        *)
Refreshed(p) == IF p \in DOMAIN snapshot THEN snapshot[p] ELSE NULL
Refresh ==
  /\ Up /\ main = "refresh"
  /\ IF \E p \in active_pcbs : segments_table[p] = NULL
       THEN system' = "null_table" /\ UNCHANGED <<segments_table, main, asked, snapshot>>
       ELSE /\ segments_table' =
                 [p \in Procs |-> IF p \in active_pcbs THEN Refreshed(p)
                                                      ELSE segments_table[p]]
            /\ Ask("MEM_CREATE_SEGMENT", pcb, request.s_id, request.size)
            /\ Goto("again")
            /\ snapshot' = NULL
            /\ UNCHANGED system
  /\ UNCHANGED <<manner, request, state, pcb, active_pcbs, transfers, plannerVars, answers,
                 memoryVars>>

(* DELETE_SEGMENT: the table of the PCB keeps the segment.                 *)
DeleteSegment(s_id) ==
  /\ Up /\ main = "cpu"
  /\ Careful => HasId(table[pcb], s_id)
  /\ Ask("MEM_DELETE_SEGMENT", pcb, s_id, 0)
  /\ Goto("delete")
  /\ UNCHANGED <<system, manner, request, state, pcb, active_pcbs, segments_table, snapshot,
                 transfers, plannerVars, answers, memoryVars>>

DeleteAnswer ==
  /\ Up /\ main = "delete"
  /\ \E answer \in ToSet(answers) :
       /\ Receive(answer)
       /\ \/ AnswerTaken(answer)
          \/ /\ answer.type = "MESSAGE_OK"
             /\ Become(pcb, "READY") /\ Back("pick")
             /\ UNCHANGED <<system, segments_table, snapshot, asked>>
  /\ UNCHANGED <<manner, transfers, plannerVars, memoryVars>>

-----------------------------------------------------------------------------
Cpu ==
  \/ Yield \/ Exit
  \/ \E address \in Addresses, size \in AccessSizes :
       \/ MmuFails(address, size) \/ MovIn(address, size) \/ FReadWrite(address, size)
       \/ \E strlen \in 0 .. MaxSegmentSize : MovOut(address, size, strlen)
  \/ \E s_id \in SegmentIds, size \in Sizes : Create(s_id, size)
  \/ \E s_id \in SegmentIds : DeleteSegment(s_id)
Planner ==
  \/ MainPlans \/ EndAnswer \/ NoneEnded \/ InitAnswer
  \/ \E p \in Procs : Arrive(p) \/ LookEnded(p)
Next ==
  \/ Cpu \/ Planner \/ MemServe
  \/ CreateAnswer \/ CompactAnswer \/ Refresh \/ DeleteAnswer
  \/ \E p \in Procs : Pick(p)
  \/ \E t \in transfers : Transfer(t)

Spec == Init /\ [][Next]_vars

-----------------------------------------------------------------------------
(* Type correctness.                                                       *)
Tables == Seq([s_id : SegmentIds \cup {0}, size : Nat])
TypeOK ==
  /\ system \in {"up", "aborted", "answer_taken", "null_table", "null_segment",
                 "no_segment_to_delete"}
  /\ state \in [Procs -> {"none", "NEW", "READY", "EXEC", "BLOCK", "EXIT_PROCESS",
                          "freed"}]
  /\ main \in {"pick", "cpu", "create", "compact", "refresh", "again", "delete",
               "plan", "planning"}
  /\ pcb \in Procs \cup {NULL}
  /\ Up => (pcb = NULL <=> main \in {"pick", "plan", "planning"})
  /\ request \in IF main \in {"create", "compact", "refresh", "again"}
                   THEN [s_id : SegmentIds, size : Sizes] ELSE {NULL}
  /\ open \subseteq Procs /\ active_pcbs \subseteq Procs
  /\ segments_table \in [Procs -> Tables \cup {NULL}]
  /\ table \in [Procs -> Tables]
  /\ planner \in Procs \cup {NULL, "main"} /\ planning \in {"look", "end", "init"}
  /\ ending \in IF planning = "end" THEN Procs ELSE {NULL}

(* For a careful process the CPU and memory agree on every access, though  *)
(* the table of the CPU is a copy that deletions leave behind and that     *)
(* only compactions for others bring up to date: the mmu finds the segment *)
(* and lets through what memory allows, and nothing else.                  *)
MmuIsExact ==
  Up /\ Careful /\ main = "cpu" =>
    \A address \in Addresses, size \in 1 .. MaxSegmentSize :
      HasId(MemoryTable(pcb), SidOf(address)) =>
        /\ MmuFindsSegment(address, size)
        /\ MmuAllows(address, size)
             <=> MemoryAllows(pcb, SidOf(address), OffsetOf(address), size)

(* A transfer that the mmu let through is still allowed when the file      *)
(* system gets to memory, whatever processes ran, ended or made memory     *)
(* compact in between.                                                     *)
TransfersFit ==
  Up /\ Careful => \A t \in transfers : MemoryAllows(t.pcb, t.s_id, t.offset, t.size)

(* However careless they are, no process loses a segment from its table:   *)
(* what memory keeps for it is there in the same order, and only one that  *)
(* has no segment yet, admitted while a compaction was answered, can be    *)
(* left without a table.                                                   *)
IsSubsequence(s, t) ==
  \E map \in [DOMAIN s -> DOMAIN t] :
    /\ \A j, k \in DOMAIN s : j < k => map[j] < map[k]
    /\ \A j \in DOMAIN s : s[j] = t[map[j]]
Settled(p) ==
  /\ state[p] \in {"READY", "EXEC", "BLOCK"}
  /\ p = pcb => main \in {"cpu", "delete"}
NothingForgotten ==
  Up => \A p \in Procs : Settled(p) =>
    IF segments_table[p] = NULL
      THEN table[p] = <<>>
      ELSE IsSubsequence(MemoryTable(p), segments_table[p])

(* Memory has a table for every process that lives, and none for one that  *)
(* has ended.                                                              *)
TablesOfTheLiving ==
  Up => \A p \in Procs :
    /\ state[p] \in {"READY", "EXEC", "BLOCK"} => p \in open
    /\ state[p] \in {"none", "freed"} => p \notin open
=============================================================================
