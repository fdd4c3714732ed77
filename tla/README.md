# TUKI in TLA+

Models, checks and proofs of TUKI, the distributed simulation of an operating
system in this repository: five programs (kernel, cpu, memoria, filesystem,
consola) that talk over TCP.

## 1. The system

| component | state it keeps | operations | what makes it correct |
|---|---|---|---|
| **kernel**: processes (`kernel/src/kernel.c`, `scheduler.c`, `algorithms_kernel.c`, `handler_pcb.c`, `kernel_utils.c`) | PCBs, the NEW queue, the active queue (READY and BLOCKed), the resources with their queues, `prioritized_pcb` | one thread per console brings a process in and runs the long-term scheduler; the main thread picks a PCB, sends it to the CPU and serves its request; one thread per I/O wakes its process | a PCB is in one place; the degree is bounded; no wakeup is lost; resources are conserved; nothing freed is followed; every process ends |
| **kernel**: files (`kernel.c` F_*, `handle_fs`) | files open in the system and per process, the queue of F_READ and F_WRITE | open, close, seek, truncate; a thread that exchanges reads and writes with the file system | a file is a lock with a queue; no wakeup comes twice; no thread waits for an answer that was taken |
| **kernel**: segments (`kernel.c`, `scheduler.c`) | the segment table of each PCB | create, delete, compact and refresh; admission and end with memory | the tables of PCBs, CPU and memory agree where it matters |
| **memoria** | segments, holes, segment tables, remaining memory, the heap | create, delete, compact, end of a process, read, write | segments are disjoint and inside; accounting; data survive compaction; compaction is enough |
| **filesystem** | FCBs (saved), bitmap and block file (mapped) | open, truncate, read, write | no block in two files; bitmap, FCBs and pointer blocks agree; files read back; restart |
| **cpu** | registers, execution context of one process | fetch, decode, MMU, execute | the MMU lets through what memory allows; the context comes back as it should |
| **consola** | none | parse a script, send it, wait | it hears the end of its process |
| **shared** | none | packages, serialization, sockets | what is sent is what is received |

How they interact. A console thread and the main thread of the kernel share the
queues without a lock; `long_term_schedule` runs under one, which the main loop
does not take to pick and to push. `long_term_schedule`
asks memory (INIT, END) on a socket that the main thread uses too (CREATE,
DELETE, COMPACT). The main thread and `handle_fs` share the socket to the file
system in the same way. The CPU and the file system ask memory to read and
write. Memory serves one request at a time under `memory_access`; the file
system serves the kernel one request at a time. The hard behaviours are the
interleavings of the kernel's threads around a PCB and around two shared
sockets, hand-over and return of resources and files, copies of segment tables
that fall behind, histories of allocation and compaction in memory, truncation
in the file system with three structures updated apart and a crash in the
middle of it, and the death of a module in the middle of a send.
`PROJECT.json` lists each hazard at its line.

## 2. Plan

Done, in this order: `AlgorithmsKernel`, `Kernel`, `KernelInvariant`,
`KernelProofs`, `Memoria`, `MemoriaData`, `FileSystem`; then `FileLocks`,
`KernelFiles`, `KernelFilesProofs`, `SegmentStore` with the refinement of
`Memoria`, `Segments`, `Package`, `Serializer`, `Exchange`, and liveness of the
files and of the consoles; then the proofs about the places of PCBs and the
choices of HRRN (`KernelProofs`), about memory and its refinement
(`MemoriaInvariant`, `FoldLemmas`, `SumLemmas`, `MemoriaProofs`), about the
segments in their three places (`SegmentsInvariant`, `SegmentsProofs`) and about
the disk (`FileSystemInvariant`, `FileSystemProofs`); and last those of who has the
instances of the resources (`KernelProofs`) and of the bytes of memory (`MemoriaProofs`).

What a continuation would add, most important first:

1. The bytes of a transfer between file system and memory: `FileSystem`
   composed with `MemoriaData`.
2. Two threads that each receive a part of one answer on the sockets they share.
3. `Package` and `Serializer` without RECURSIVE operators, so that what is received
   can be proved to be what was sent.
4. The burst estimates and ready times behind the ratios of HRRN.

## 3. The modules

**`AlgorithmsKernel`** - what takes a PCB out of the active queue in one operation
of the list: `IsFirst`, the element that `list_remove_by_condition` and
`list_remove_element` find, and `PickFifo`, which relates the queue, the PCB taken and
the rest.

**`Kernel`** - one action per step of a thread.

| code | model |
|---|---|
| `handle_new_process` | `Connect`, `HangUp`, `Submit`; `console[p]` is the place of the thread |
| `long_term_schedule` | `LtsLock`; the sweep, a step for each of list_size (`LtsTest`), list_get (`LtsVisit`, `LtsGetNull`), the test of the state (`LtsLookLive`, `LtsLookFinished`) and list_remove (`LtsRemove`, `LtsRemoveOther`), and `LtsReap` (after memory answered); `LtsAdmit`, `LtsInit`, `LtsNothingToAdmit`; `LtsAbort`; the mutex is `long_term_scheduler_execution` |
| `show_queue_ready` | `LtsShow`, `LtsPrint`, `LtsGetNull`, then `LtsUnlock` |
| `short_term_scheduler` | `PickPrioritized`, `PickWithFifo`, `PickWithHrrn` |
| `pick_with_hrrn` | `HrrnStart`, `HrrnOnly`; one turn of the loop of lines 40-68 is `HrrnWalk`, `HrrnWalked` joins the two queues, one turn of lines 77-82 is `HrrnRefill`, and `HrrnReturn` |
| the round of the CPU | `main = "cpu"`, ended by `CpuLost` or by a request of the process (`Serving`) |
| `case WAIT`, `SIGNAL`, ... | `WaitGranted`, `WaitBlocked`, `Signal`, `InputOutput`, `Yield`, `Exit`, `UnknownResource` |
| lines 322 and 323-331 | `Push`, then `Settle`: other threads get in between |
| `handle_pcb_io` | `IoDone` |
| `resource_signal` | `ResourceSignal`, on the set of resources of the caller |

A process is its list of requests (`instructions`, `program_counter`), chosen
from `Programs` when it is submitted. Instructions the CPU executes without the
kernel do not appear. One operation of a commons list is one step, and so is one read
of a PCB's state; what takes several of them takes several steps, with the other
threads in between. That the code takes no lock around a single operation is a data
race the models do not enter. The queues that only the main loop sees
(`queue_temporal`, `queue_fifo`) move together with the operation on the active queue
beside them; the queue_peek and the queue_pop of a turn are one step, because only the
main loop takes PCBs out that have not ended, and none ends while it picks.

The sweep removes by an index it looked at three steps earlier. If the main loop has
picked, run and ended that PCB since, another PCB leaves the list and the one that
is destroyed is, or is about to be, in the active queue (`LtsRemoveOther`). From
there on the kernel works in freed memory, and the code no longer tells what it does:
the model ends, with `kernel = "wrong_pcb"` and the list as it was left.
`PcbInOnePlace`, `HrrnKeepsReady` and `SubmittedEnds` say what holds until then, and
the run `kernel_sweep` shows that it is reached.

A WAIT or a SIGNAL is one step, although the sweep of a console thread also moves
resources: `FinishedStopTheMainLoop` checks what this rests on, that such a sweep
finds a finished PCB only while the main thread is at its own call of the scheduler.
`LtsRemove` takes the release of the resources with the list_remove for the same
reason. Freed memory is read once, at `kernel.c:327`: both outcomes of the test are
possible (`FoundFinished`). A package that is not of INSTRUCTIONS is answered and
decoded all the same: what comes out is one of `Programs` like any other (`Submit`).
The ways in which the kernel ends are
values of `kernel`.

The modules named `*Invariant`, `*Lemmas` and `*Proofs` are in section 6.

**`KernelFiles`** - the requests for files, from `F_OPEN` to `F_WRITE`, in the
main loop, and the thread `handle_fs`. A request that asks the file system is two
actions, one that sends (`FOpenAsk`, `FTruncateAsk`, `HandleTake`) and one that
receives (`FOpenAnswer`, `FCreateAnswer`, `FTruncateAnswer`, `HandleAnswer`);
whichever thread receives first takes the first answer. `FReadWrite` and `Block`
are lines 189 and 190. `FsServe` and `FsLost` are the file system, which may
refuse, end by a request without an FCB, or end of its own. `CompactRequest` and
`Drained` are the wait before a compaction. The scheduler is reduced to `Arrive`,
`Pick`, `Push` and `Settle`. The position of an open file is `"unset"` until an
F_SEEK: `handle_fs` follows that null pointer (`kernel = "null_position"`).

**`FileLocks`** - what a file is to processes: a lock with a queue, which stays
with `Gone` when its holder ends. `KernelFiles` implements it (`ImplementsLocks`)
with `holder` read off `global_files` and the tables of the processes.

**`Memoria`** - the structures of `t_memory_structure` as the record
`structure`; one action per request. A segment is an object shared by `ram` and
a table, as in the code. `algorithm` is a variable with no action, so that one
run covers the three algorithms. The kernel's part is `kernel` and `request`:
the main thread has one creation under way and compacts and retries when told
to; processes may be created in between by the console threads. The pid of a
process that ended is used again for another one. `SortedRam` is what
`list_sort` by base leaves, said by ranks: the segment with k segments below it
comes at place k + 1. The code prints no error for a segment of size 0 or of id
0, and no script asks for one: `Sizes` and `SegmentIds` leave both out. An
address is its distance from the heap.

**`SegmentStore`** - what memory promises the kernel: tables of segments limited
only by the bytes they take together, where a segment that fits may come after
one compaction and never after two. `Memoria` implements it (`ImplementsStore`),
and `Segments` uses it as its memory.

**`MemoriaData`** - extends `Memoria` with the bytes of the heap. A write puts
the letters of the segment's id and a terminator, at any offset and of any
length, the empty text too (a register or a file that is empty) and those
`write_memory` refuses; `written` remembers what was last put at each offset.
The byte after the heap, which a compaction makes reachable, keeps what is
written to it. Only compaction moves bytes.

**`Segments`** - the segments of a process in its PCB, in the CPU and in memory.

| code | model |
|---|---|
| `mmu`, `list_get_by_sid` | `MmuFindsSegment`, `MmuAllows`, and `MmuFails` where the code follows NULL |
| MOV_IN, MOV_OUT, F_READ, F_WRITE | `MovIn`, `MovOut`, `FReadWrite`, then `Transfer` when the file system gets to memory |
| CREATE_SEGMENT | `Create`, `CreateAnswer`, `CompactAnswer`, `Refresh` (lines 222-231), `CreateAnswer` again |
| DELETE_SEGMENT | `DeleteSegment`, `DeleteAnswer`: the table of the PCB keeps the segment |
| `long_term_schedule` | `Arrive` or `MainPlans`, `LookEnded`, `EndAnswer`, `NoneEnded`, `InitAnswer`, under its mutex |
| `handle_modules` of memory | `MemServe`, one request at a time in the order of the socket |

`manner` is how the processes of a behaviour use ids. Careful ones address
segments they have and use no id again while it may be in their table: for them
the copies agree. For careless ones the ways in which the code goes wrong are
values of `system`.

**`FileSystem`** - `Resize` follows the three cases of `resize_block` on a
record of bitmap, words and whether an access fell outside of the disk; FCBs
reach the disk in a step of their own, `SaveFcb`, and `Crash` may come before
it. The unit is the word of 4 bytes, a pointer's size; the data of a file are
letters of its own, three in turn, so that a word read from another file,
another block or another place of the block is seen. `Reserved` are blocks that a
file nobody touches owns from the start: none in the run, which starts with a new
disk. `usage`, fixed in each behaviour, says what surrounds the module: `"careful"`
users write within the blocks of the file, and `"killed"` is anything written
anywhere, to files that only grow, in a module that is killed and restarted.

`lapses` remembers what truncations took no notice of: that they used block 0 for a
pointer block or in one, where a word 0 is no pointer (`"zero"`, line 351); that a
list ran over the end of its block (`"overrun"`, line 342); and that the unset pointer
of a file was read as block 0 and the data there as a list (`"unset"`, line 209). The
code goes on after each. After one of the first two a later truncation may free the
blocks of another file, and the properties say nothing of such a disk (`InTrack`);
after the third only the file itself is short of blocks (`PointersMatchSize`).

**`Package`**, **`Serializer`** - packages as sequences of bytes, and every
`serialize_*` and `deserialize_*` on them, with integers of two widths in little
endian. A base address becomes, as in the code, the address of a copy of itself
(`Pointer`): nobody reads it on the far side.

**`Exchange`** - consoles, kernel, CPU and memory with the streams of bytes
between them: scripts parsed and sent, contexts to the CPU and back, requests to
memory and its tables. `net[c]` holds the bytes that are on their way, and, for the
properties only, the packages they were; `executed` holds what the CPU made of
each context without the conversions. A console, the CPU or memory may die when
it is idle, or in the middle of a send (`Cut`); `Received` follows the three
`recv` of `socket_receive`, which takes a body cut short for a whole one (`Torn`).
One thread at a time waits for memory here: `Segments` has the races.

**`MC*`** give the constants values that a `.cfg` cannot write (programs,
instance counts, scripts, symmetry sets).

Definitions whose comment starts with "Fault" are plausible bugs. No action uses
them; each is put in the place of the definition after it to see that a
property fails.

How the models fit. `Kernel` has all the interleavings of scheduling and leaves
files and segments out; `KernelFiles` and `Segments` each have one of the shared
sockets with all who use it, and a scheduler that may choose any READY process,
of which that of `Kernel` is a special case; `Exchange` has the bytes of all of
them. `SegmentStore` is the interface between `Segments` and `Memoria`.

## 4. The runs

Passing:

| run | instance | shows |
|---|---|---|
| `kernel_fifo` | 3 processes, 4 programs (`Mixed`), a resource of 2 instances and one of 1, degree 1 | `PcbInOnePlace`, `MultiprogrammingBound`, `NoLostWakeup`, `NoRoomWasted`, `NoDanglingPcb`, `ResourceConservation`, `EverySignalHasAHolder`, `InstancesAreAccounted`, `ExitIsFinal` |
| `kernel_progress` | 3 processes, 2 resources taken in order and given back in both ways, degree 2, fairness | `SubmittedEnds`, `NobodyWaitsForAFreeInstance`, `FinishedStopTheMainLoop` |
| `kernel_hrrn` | 3 processes, some of which block in I/O, ratios 1 to 3, degree 3 | `HrrnKeepsReady`, `HrrnPicksTheBest` |
| `memoria` | 2 processes, 3 segments, 2 ids, sizes 1-3, 6 bytes, 3 algorithms | `RemainingIsFree`, `NoOverlap`, `AtMostOneByteOut`, `TablesMatchRam`, `NoConsecutiveCompaction`, `PlacedAsConfigured`, `ImplementsStore` |
| `memoria_data` | 1 process, 3 segments, sizes 1-2, 5 bytes, BEST | `OnlyTheFirstByteIsCut` |
| `filesystem` | 2 files, a new disk of 5 blocks of 2 words, both usages, sizes 0, 2, 3, 6 and 0, 5, 7 | `NoSharedBlock`, `NoFreeBlockInUse`, `BitmapIsOwners`, `FilesReadBack`, `FreeBlocksAreBlank`, `PointersMatchSize` |
| `kernel_files` | 3 processes, 2 files, a file system that fails and ends, fairness | `AwaitedOnce`, `OneOwner`, `AnswersAreEnough`, `ImplementsLocks`, `RequestsEnd` |
| `segments` | 2 processes, 2 ids, sizes 1-2, 3 bytes, tables of 3, careful and careless | `MmuIsExact`, `TransfersFit`, `NothingForgotten`, `TablesOfTheLiving` |
| `exchange` | 2 consoles with a script each, integers of 2 bytes, fairness | `InStep`, `ContextSurvives`, `EveryConsoleHears` |

Why these bounds. Three processes are the least with one running, one waiting
and one arriving, and so the least where a sweep of a console thread falls
between two steps of the main loop while another process is affected. Degree 1
makes the admission race happen; degree 2 lets a process wait for a resource
while another holds it; degree 3 lets a process be admitted while HRRN has two in its
hands. In `kernel_fifo`, where two processes are in the system at once although the degree is
1, one program takes both instances of a resource and gives one back, one signals what
it does not have, one waits for a resource with another in its hands, and one leaves a
resource to its end. Programs are short because every request returns to the
same point of the loop. For files, three processes are one that holds, one
that waits and one that another thread serves, and two files let a process hold
one and wait for the other. Three segments and sizes up to 3 in 5 free bytes give
holes on both sides of a segment, holes that merge and holes that do not, and
compactions. In `segments` two processes of two segments in 3 bytes make memory
refuse, defer and compact; while one asks, the other is admitted, and one that
was admitted has a transfer under way. Sizes 0, 2, 3 and 6 words with blocks of 2
are: nothing, one full block, a pointer block with one entry, a full pointer block; 5
blocks are less than two such files need, so the disk fills, and block 0 is given to
each file in each role, since every order of truncations is there; size
5 of `"killed"` is a pointer block with two entries, two such files do not fit, and 7
needs a list longer than its block.
In `exchange` the scripts are a register that is filled, one that is not, a
value too long and an operation that does not exist, and a segment with a
program that ends without EXIT; the pids have one and two digits; `Cuts` leaves a
send with a length and part of the content.

Runs that end in a violation, each a disagreement between the code and what it
says of itself (`PROJECT.json`, "findings", quotes both):

| run | property | what happens |
|---|---|---|
| `kernel_sweep` | `SweepRemovesFinished` | the sweep has a PCB from list_get, the main loop picks and ends it, and list_remove takes out the PCB that now stands at its index |
| `kernel_hrrn_block` | `PcbInOnePlace` | HRRN loses a BLOCKed PCB that had the best ratio so far |
| `kernel_files_wakeup` | `WokenFromBlock` | `handle_fs` wakes a process before the main loop has BLOCKed it, which it then is for ever |

The passing runs beside them show what is left when this happens: but for the sweep
that removes another PCB nothing loses one, under FIFO the degree is within one of
the maximum, no step of HRRN loses a READY process, free memory stays accounted for
and a compaction finds it, and no other process is woken or forgotten.

Other weak spots of the code that the models contain and no run is spent on. Each
passing property is stated, or its instance chosen, so that it holds beside
them:

| code | what happens | where in the models |
|---|---|---|
| `scheduler.c:49` | the running PCB is not counted, so the degree passes the maximum by one | `MultiprogrammingBound` says by no more than one |
| `scheduler.c:49` | under HRRN the queue that is counted may be in the hands of `pick_with_hrrn`, and more are admitted | `MultiprogrammingBound` is checked and proved for FIFO; `AlgorithmIsHrrn = TRUE` breaks it |
| `kernel_utils.c:61` | SIGNAL of a resource without holder or waiters reads through NULL | `kernel = "null_holder"`, which the programs of `kernel_fifo` reach; `EverySignalHasAHolder` says when it cannot |
| `scheduler.c:8`, `:92` | the list may have become shorter since its size was read: list_get is NULL, which is followed | `kernel = "null_pcb"` |
| `kernel.c:327` | a destroyed PCB is read, and the call of the scheduler may be skipped | `FoundFinished` |
| `scheduler.c:23` | of two holders of a resource only the last gives back at its end | `InstancesAreAccounted` says exactly how much is lost; `ResourceConservation` is of the resources it does not happen to (`Tidy`) |
| `kernel.c:131` | F_CLOSE does not ask who has the file | `OwnersClose = FALSE` breaks `OneOwner` |
| `kernel.c:128` | the position of a file opened and never sought is NULL, which `serialize_instruction` follows | `kernel = "null_position"` |
| `kernel.c:209` | the wait before a compaction looks at the queue, not at the request `handle_fs` has in its hands | `Drained` with `handler # NULL` |
| `handler_pcb.c:81` | a process whose transfer fails stays BLOCKed | `HandleAnswer` |
| `kernel.c:202` | the main loop may take the answer a console thread waits for | `system = "answer_taken"`, `"aborted"` |
| `kernel.c:227` | a process admitted while a compaction is answered gets NULL for a table | `system = "null_table"` |
| `kernel.c:266`, `utils_cpu.c:72` | a deleted segment stays in the table; one that is not there is followed | `manner = "careless"`, `system = "null_segment"` |
| `handler_cpu.c:82` | a register that is full has no NUL, and MOV_OUT sends what follows it too | `strlen` of `MovOut` |
| `shared_socket.c:70` | a body cut short is taken for a package ("Recibe un paquete completo" in `shared_socket.h`) | `Torn`, `system = "torn"` |
| `handler_instruction_memoria.c:103` | only holes next to each other in the list, in the order of their addresses, are merged, so that adjacent ones stay apart, although line 90 says they are consolidated | `CompactHoleList`; `RemainingIsFree` and `NoOverlap` hold all the same |
| `handler_instruction_memoria.c:149` | after a compaction a segment may end one byte outside | `AtMostOneByteOut` |
| `handler_instruction_memoria.c:130` | a compaction with nothing to move reads through NULL | `memory = "no_segment_to_move"` |
| `handler_instruction_memoria.c:193` | a terminator lands in the next segment | `OnlyTheFirstByteIsCut` |
| `handler_instruction_filesystem.c:420` | -1 becomes a block number on a full disk | `PointersMatchSize` counts it |
| `handler_instruction_filesystem.c:342` | a pointer list longer than its block overwrites the next block | `"overrun"` of `lapses` |
| `handler_instruction_filesystem.c:209` | an unset pointer is read as block 0, and the data there as a list: the file gets too few blocks | `"unset"` of `lapses`; `PointersMatchSize` needs that it did not happen |
| `handler_instruction_filesystem.c:351` | block 0 is not told from a word that is not set: a file that gets it in its list loses it, and a file that has it as its pointer block shares it with every file that has none | `"zero"` of `lapses` |
| `handler_instruction_filesystem.c:125` | a write to a file without blocks lands in block 0 | `"careful"` excludes it, `"killed"` has it |
| `handler_instruction_filesystem.c:330` | killed between the bitmap and the FCB | smaller sizes in `"killed"` break `NoSharedBlock` |

Not in any model, and seen while reading: `F_WRITE` decodes the empty package of
a SEG_FAULT as the text to write (`handler_instruction_filesystem.c:74`);
`kernel.c:274` tests a `last_burst_time` that is never updated, and
`execution_context_new` leaves another one unset; the pid of a process is the
number of a socket that early returns of `handle_new_process` never close.

Deadlock checking is off: the kernel ends with the CPU or memory and idles when
no process is left, and memory and the file system may end in an access that
faults.

## 5. Fairness

`FairSpec` of `Kernel` asks weak fairness of each thread's next step. The main
loop polls every second; a sleep of `handle_pcb_io` ends; a thread that waits
for the mutex gets it, since each of the others takes it a bounded number of
times per process. Consoles owe nothing: they may never connect or submit. The
CPU and memory may fail but do not have to; a process that keeps asking returns
in the end because its program is finite. Deadlock between processes is theirs
to avoid, so the programs of `kernel_progress` take their two resources in one
order.

`FairSpec` of `KernelFiles` asks weak fairness of `handle_fs`, of the main loop
where it waits for an answer or for the queue, and of the file system, which
answers or, by a request it cannot serve, ends. Processes owe nothing, and
nothing makes the file system succeed.

`FairSpec` of `Exchange` asks weak fairness of all that the modules and threads
do together (`Progress`): as long as something can go on, something does. No
more is needed, because all they do is finite, and it would not be true that each
of them goes on: they die. What dies or connects is outside of `Progress`.

## 6. Proofs

Every theorem holds for all values of the constants that satisfy the assumptions of
the model's module; TLC evaluates those assumptions in each run.

### Processes: `KernelInvariant`, `KernelProofs`

For every set of processes, resources, instances and programs, every maximum and
both algorithms; four theorems need FIFO (`~AlgorithmIsHrrn`), because HRRN does
lose processes and pass the bound (run `kernel_hrrn_block`, and `scheduler.c:49` in section 4). No
theorem supposes anything of what programs ask, nor of the number of instances:

| theorem | statement |
|---|---|
| `TypeCorrect` | `Spec => []TypeOK` |
| `Invariant` | `Spec => []IInv` |
| `DegreeIsBounded` | FIFO: `Spec => []MultiprogrammingBound` |
| `PrioritizedCanRun` | `Spec => []PrioritizedIsReady` |
| `WakeupsAreKept` | `Spec => []NoLostWakeup` |
| `FinishedStayFinished` | `Spec => ExitIsFinal` |
| `SharedInvariant` | `Spec => []SharedInv` |
| `PlacesInvariant` | FIFO: `Spec => []PlacesInv` |
| `EveryPcbInOnePlace` | FIFO: `Spec => []PcbInOnePlace` |
| `NoPointerDangles` | `Spec => []NoDanglingPcb` |
| `FreeInstancesAreTaken` | `Spec => []NobodyWaitsForAFreeInstance` |
| `FinishedWaitForTheSweep` | `Spec => []FinishedStopTheMainLoop` |
| `RoomIsNotWasted` | FIFO: `Spec => []NoRoomWasted` |
| `ReadyAreKept` | `Spec => HrrnKeepsReady` |
| `TheBestIsPicked` | `Spec => HrrnPicksTheBest` |
| `HoldingInvariant` | `Spec => []HoldingInv` |
| `SignalsHaveHolders` | `Spec => []EverySignalHasAHolder` |
| `InstancesBalance` | finitely many processes: `Spec => InstancesAreAccounted` |
| `InstancesAreConserved` | the same: `Spec => []ResourceConservation` |

The assumptions: the maximum and the instances are naturals, `NULL` and `Main` are
no processes, the ratios of HRRN are positive (the code's are a wait plus an
estimate, over that estimate; an estimate of 0, a division by zero, is not
modelled), and a program is a non-empty sequence of requests whose last, and only
its last, is EXIT (the CPU itself adds one at the end of a script).

None of these properties is inductive. That a wakeup reaches a BLOCKed process
rests on which state a PCB has wherever a thread can take hold of it, so `IInv`
says, place by place: consoles that have not submitted own a NEW PCB; the NEW
queue holds NEW PCBs once; whoever waits, in an I/O thread or a queue, is
BLOCKed and waits once; whoever is BLOCKed waits; the PCB in the CPU is in EXEC
and nobody is prioritized then; the prioritized PCB is READY and active, or the
main loop is about to make it so; the PCB being removed or reaped is finished; the
owner of the mutex is a thread that called the scheduler; HRRN has PCBs in its hands
only while it walks (`HandsFull`), and the best so far is the first with the highest
ratio of those it has looked at (`BestSoFar`), from which `TheBestIsPicked` follows. `NoLostWakeup` counts wakers;
the proof turns the count into these facts with the cardinality of singletons.
The step lemma takes the actions by thread (console, long-term scheduler, main
loop, I/O); lemmas on what `resource_signal` does to states and queues are
shared by `Signal` and the sweep.

The places need more, and `SharedInv` and `PlacesInv` add it to `IInv`.
`Placed(lost)` is `PcbInOnePlace` without cardinalities, where nothing is said of
the whereabouts of the processes in `lost`: `SharedInv` has `Placed(Procs)`, for
HRRN may lose any process that is not READY, and `PlacesInv`, with FIFO, has
`Placed({})` (`OnePlace`) until a sweep has removed another PCB than it tested. That no
PCB is in two places holds with both algorithms and even then.

A sweep in the middle of a WAIT or a SIGNAL could only come from a console thread that
finds a finished PCB, and what excludes it is `Swept`: the one finished PCB of the
active queue is the one the main loop put there last; the sweep of the main loop
reaches it (`Reaches`: it has not passed it, and what it has in `visited` is what
stands at its index); and at most one PCB stands behind it, admitted by a console
thread in between, so that the index the sweep skips after a removal never passes a
finished one. The sweep of a console thread may hold anything in `visited`: where it
finds that PCB finished and not at its index, `Sweep` has the other branch, in which
the kernel is in `"wrong_pcb"` and nothing goes on. `Ending` says that whoever is
finished is in the hands of the main loop or of the sweep, so that nobody finishes
while the main loop picks.

`Holders` keeps the holder of a resource in the system until its sweep begins, which
is why no pointer dangles. `Room` is an invariant of the counting kind: where nobody is
in the scheduler, the NEW processes have a call to come each, or there is no room for
them; inside of it, by the place of the sweep, what the index says of the number of
active PCBs makes up for the PCB already taken out; it needs FIFO, because a PCB that
HRRN loses leaves room that no call comes to fill. The degree needs FIFO too:
`MultiprogrammingBound` is part of `PlacesInv` because admission counts a queue from
which no PCB is missing but the one in the CPU.

The last four are about who has the instances of a resource, which no PCB
records: `assigned_to` is one pointer per resource. What a process has is in how far
it is in its program: the WAITs it made and was granted, less the SIGNALs (`Has`).
`InstancesBalance` is about every resource, of any number of instances and whoever
signals it: the free instances and what the processes have add up to the same before
and after a step, unless a process ends, and then the sum changes by what that process
had, less the one instance that comes back if it is the holder on record. That is the
whole of what `scheduler.c:23` loses, and of what a SIGNAL out of turn makes. Its proof
adds the counts of all processes, of which a step changes one or two
(`SetSumShift` of `SumLemmas`).

Nothing is lost or made of a resource that is `Tidy`: of one instance, and with no
process that has signalled it more often than it asked for it. It is a fact about what
has happened so far, not a hypothesis about programs, and the other resources may be
in any state. `HoldingInv` ties it to the record. `Counted` says that a process that has
not begun is at its first request and one that has not ended is not past its last.
`Spare`: an instance is free, or there is a holder on record, and not both. `OnRecord`:
a process has one instance of the resource if it is that holder, and none if it is
not. The holder is in the system (`Holders`, of `SharedInv`), so a SIGNAL that is
preceded by its WAIT finds it; and a hand-over to the head of the queue moves the count
and the record together, because the WAIT of the one who is woken is already behind
it. `EverySignalHasAHolder` and `ResourceConservation` follow.

### Files: `KernelFilesProofs`

For every set of processes and files:

| theorem | statement |
|---|---|
| `FilesTypeCorrect` | `Spec => []TypeOK` |
| `FilesInvariant` | `Spec => []IInv` |
| `FilesAwaitedOnce` | `Spec => []AwaitedOnce` |
| `FilesAnswersAreEnough` | `Spec => []AnswersAreEnough` |
| `FilesOneOwner` | `OwnersClose`: `Spec => []OneOwner` |
| `FilesImplementLocks` | `OwnersClose`: `Spec => ImplementsLocks` |

`AwaitedOnce` alone does not survive a step of the main loop: it needs that the
PCB in its hands is in EXEC while a request is served (`Running`) and never one
that is not there or destroyed (`HandedPcb`), so that nobody who is served waits
as well. `OneOwner` needs that a file the main loop is opening is not open yet
(`NotOpenYet`) and that nobody waits for a closed one (`ClosedIsFree`).
`AnswersAreEnough` counts: one step of a thread moves a request or an answer and the
wait for it together, and the two threads may exchange answers without changing
either count. The refinement maps each step to a step of `FileLocks` or a
stutter: `HolderOf`, `Holders` and `SameHolders` say who the holder of a file is
before and after a step, by `OneOwner`; the queue of a file is the same in both.
`OwnersClose` is an assumption on processes: line 131 does not ask who closes.

### Memory: `MemoriaInvariant`, `MemoriaProofs`

For every size of memory and of segment 0 (at least a byte, and a byte less than
memory), every set of segments and of ids, every finite set of processes and each
of the three algorithms:

| theorem | statement |
|---|---|
| `MemoryInvariant` | `Spec => []MemoryInv` |
| `StructureIsTyped` | `Spec => []TypeOK` |
| `RemainingMemoryIsFree` | `Spec => []RemainingIsFree` |
| `NoByteIsShared` | `Spec => []NoOverlap` |
| `CompactionLosesOneByteOnce` | `Spec => []AtMostOneByteOut` |
| `EverySegmentHasOneOwner` | `Spec => []TablesMatchRam` |
| `OneCompactionIsEnough` | `Spec => []NoConsecutiveCompaction` |
| `PlacementIsTheConfigured` | `Spec => PlacedAsConfigured` |
| `MemoryIsAStore` | `Spec => ImplementsStore` |
| `BytesInvariant` | `DataSpec => []BytesInv` |
| `ContentsAreTyped` | `DataSpec => []DataTypeOK` |
| `WhatIsWrittenIsRead` | `DataSpec => []OnlyTheFirstByteIsCut` |

`MemoryInv` is `Sound(structure)` and what the kernel waits for. `Sound` is said of
any memory structure, because a request is a composition of operations on one
(`add_segment` after the hole is found, the deletion of every segment of a
process, the merge of holes after each), and each operation has a lemma that it
keeps `Sound` or the parts of it that it can disturb. Its parts:

- `Ram`, `Tables`, `Owned`: `TablesMatchRam` without cardinalities.
- `Geometry`: segments and holes are apart in pairs. The defect of compaction, the
  hole one byte late, is part of it: everything ends at most one byte after the heap. That
  it is one byte however many compactions there are is `Accounts`: a compaction
  puts the segments side by side from 0, so the hole ends where the sizes say.
- `Accounts`: `remaining_memory` is the sum of the holes, and with the sizes of the
  segments it makes up the heap. Both parts are needed: the first makes a compaction
  enough, the second is what the refinement is about.

`Waiting` is why one compaction is enough: there was room in total when the
kernel was told to compact, no other request of the main thread may come, and
after the compaction all the room is in one hole.

The refinement reads the tables of `SegmentStore` off the structure; its
`deferred` is the request the kernel is compacting for. `SegmentStore` refuses by the
sum of the sizes in all the tables, and memory by `remaining_memory`:
`UsedAndRemaining` shows that the two agree, by counting the segments of `ram` through
the tables that own them.

The last three are about `MemoriaData`. `BytesInv` adds to `MemoryInv` that every
live segment but segment 0, which all processes share, is `Intact`: at each offset
that was written the heap has the letter, or, at offset 0 only, a terminator.

- A write keeps the others intact because segments are apart (`Geometry`): its letters
  stay inside of its segment and its terminator is at most one byte past the end,
  where only the first byte of another can be.
- A compaction copies each segment in the order of the bases, over what may still be in
  use. `EndsBelow` says that it never is: where a segment goes is not above where it
  comes from, and the segments that are still to be moved start after its end. With
  it `BytesStepKeeps` carries through each turn of the loop that the segments moved
  are at their new bases and the others at their old ones (`Carried`). It is the
  order that matters: in the order of `ram` it is false, as the mutant of
  `memoria_data` shows.
- Every other operation leaves the bytes and, of the segments that stay, base and
  size alone.

Most of these operations are loops over lists, modelled as folds. `FoldLemmas`
proves of any operator that a `FoldLeft` is the last value of a function given
step by step, and `SumLemmas` what a sum over a sequence or a finite set becomes
when an element is added, removed or changed; `MemoriaProofs` takes an instance of
each for each loop and supplies what one step does. The induction behind them is
over a set of naturals (`NatSetInduction`, from the well-foundedness of `<`),
since the library's theorems of induction take an operator. Compaction sorts
by ranks: that there are as many ranks as segments is by cardinality.

### Segments in three places: `SegmentsInvariant`, `SegmentsProofs`

For every set of processes and ids, every sizes, accesses and capacity, careful
and careless:

| theorem | statement |
|---|---|
| `TablesInvariant` | `Spec => []SegmentsInv` |
| `SegmentsAreTyped` | `Spec => []TypeOK` |
| `CpuAndMemoryAgree` | `Spec => []MmuIsExact` |
| `TransfersStayAllowed` | `Spec => []TransfersFit` |
| `NoSegmentIsForgotten` | `Spec => []NothingForgotten` |
| `MemoryKeepsTheLiving` | `Spec => []TablesOfTheLiving` |

The three copies are apart most of the time, and `SegmentsInv` says by how much:

- `Socket`: the main loop and the planner have one request each at most, asked or
  answered. What an answer says fits where its thread is, and the tables in an
  answer to a compaction stay those of memory until they are used, although
  processes may be admitted in between.
- `Threads`: no sweep ends a process while the main loop has a PCB in its hands.
  Without it the answer to an end could be taken for one to a creation.
- `Opened`: memory has a table for the processes that live, and for a NEW one exactly
  when the answer is on its way.
- `Owes`: what memory has deferred is the request of the main loop; it is settled
  before the loop goes on, so that COMPACT_REQUEST never comes twice.
- `Mirrors`: memory's table of a process is a subsequence of the one in its PCB,
  with the segment whose answer is on its way. It cannot be equality: the PCB
  keeps what was deleted.
- `CarefulIds`: a careful process has each id once in its table, so that the first
  entry the MMU finds is the one memory has.
- `Transfers`: a transfer under way is of a BLOCKed process, one for each.

The proof found that the type invariant of `Segments`, as it was first written,
failed after a module had ended, which its run did not reach; it was corrected. TLC
checks `SegmentsInv` on the instance of `segments` as well (put it in the INVARIANTS
of `MCSegments.cfg`; `MemoryInv` in those of `MCMemoria.cfg`, `FsInv` in those of
`MCFileSystem.cfg`, with the invariant module extended); the runs spend their time
on the properties that follow from it.

### Files on disk: `FileSystemInvariant`, `FileSystemProofs`

For every number and size of blocks, every files and letters, and any sizes and
lengths, on a new disk as on any other, under careful users and under kills. No theorem
has a hypothesis; what the code does wrong is in the properties, as a fact about what
has happened so far: `InTrack` (no truncation has used block 0 for or in a pointer
block, or run over the end of one), and for `PointersMatchSize` that no data were read
as a list either.

| theorem | statement |
|---|---|
| `FsInvariant` | `Spec => [](InTrack => FsInv)` |
| `TypeCorrect` | `Spec => []TypeOK` |
| `BlocksAreNotShared` | `Spec => []NoSharedBlock` |
| `NamedBlocksAreUsed` | `Spec => []NoFreeBlockInUse` |
| `BitmapIsExact` | `Spec => []BitmapIsOwners` |
| `FreedIsBlank` | `Spec => []FreeBlocksAreBlank` |
| `SizesAreKept` | `Spec => []PointersMatchSize` |
| `FilesKeepTheirData` | `Spec => []FilesReadBack` |

None of the six is inductive alone: the list of blocks of a file is in the words of the
disk, and stays what it was only if nobody else writes there, which rests on all the
others. Lapses are never forgotten, so a step that ends in a disk that is `InTrack`
starts in one (`LapsesAreKept`), and what the step does not do is known from `lapses'`.
`FsInv` says of every header from which the module may go on (`Views`: the one in
memory and, where it may be killed, the one on disk):

- `Owners`: a header is `Sound` (its pointers are those its size calls for, its blocks
  are distinct, the words set in its pointer block come first, and its pointer block is
  not block 0); for careful users it is `Exact`, as many as the size calls for, unless
  the data of block 0 were read as pointers (`Tight`); and its blocks (`Own`) are used
  and are those of no other file.
- `Blanks`: free blocks are blank, which makes a new pointer block an empty list; and
  block 0, which is read for a file that has no pointer block, has no number of a block
  in it, only data or zeros.
- `NoneLost`: careful users leave no used block without an owner.
- `ReadBack`: what was written is at the word that `BlockAt` computes, through the
  pointer block, from the position.

A truncation is taken apart by what it leaves, not by how. `Resized` says what the
invariant needs of any result: the new header is sound and owns only what it owned
and what was free; what it no longer owns is free and blank; no word outside of
both changed; the blocks kept keep their words. Each of the three cases is shown to
give it from the folds it is made of (`AllFreedIs`, `ExtendedIs`, `GetPacked`, with the
induction of `FoldLemmas`), and one lemma, `ResizedInv`, carries the invariant over the
step. A word is named by its block and its place in it (`WordIn`), so that the blocks a
fold changes can be told from the one its list came from; `SamePlace` and
`PlacesApart` turn distinct blocks and positions into distinct words. `Frame` is what
a file keeps when nobody touched its blocks.

`QueueLemmas` has what these proofs need of `Append`, `Tail`, removal and the
positions of an element.

### Only model-checked

- Everything about bytes in `Exchange` (`InStep`, `ContextSurvives`): `Package`
  and `Serializer` recurse over texts and packages with RECURSIVE operators,
  which the prover cannot handle.
- What the violation runs show: that `"wrong_pcb"` and the other ends are reached.
- Liveness (`SubmittedEnds`, `RequestsEnd`, `EveryConsoleHears`): the prover has no
  rule for fairness and ENABLED.

`FoundFinished` lets the proofs cover the read of freed memory: `ExitIsFinal`
holds whatever it finds.

## 7. Not modelled

- Data races inside of one operation of a commons list or dictionary, and two
  threads that each receive a part of one answer on a shared socket: the models
  would have to be of the library and of the bytes at once.
- The bytes of a transfer between file system and memory, and the value that
  MOV_IN puts into a register: `MemoriaData` and `FileSystem` have each side.
- The clock, the burst estimates and ready times of HRRN: its ratios are any of a
  few positive numbers at every choice.
- Opening of sockets, configuration files, delays, logging, exhaustion of the
  memory of the programs themselves, and the new connection a CPU accepts after
  its kernel left. `BLOCK_COUNT` is a multiple of 8 (`utils_filesystem.c:45`).
- Build, deployment and the test programs.
