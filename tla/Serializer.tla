----------------------------- MODULE Serializer -----------------------------
(***************************************************************************)
(* What the modules say to each other as packages, and what they read out  *)
(* of them: shared/src/shared_serializer.c.                                *)
(***************************************************************************)
EXTENDS Package

CONSTANTS
  RegisterSizes,   \* the bytes of each register, in the order of t_registers
  Heap,            \* the address of the heap of memory
  Pointer,         \* the address malloc gives for the base of a segment
  NULL

ASSUME RegistersAssumption == RegisterSizes \in Seq(Nat \ {0})
ASSUME AddressesAssumption == Heap \in Nat /\ Pointer \in Nat

(* t_package_type, execution_context_index and t_memory_state.             *)
MESSAGE_OK == 1
MESSAGE_FLAW == 2
MESSAGE_DONE == 3
INSTRUCTIONS == 4
EXECUTION_CONTEXT == 5

EC_INSTRUCTIONS == 0
PROGRAM_COUNTER == 1
LAST_BURST_TIME == 2
PROCESS_PID == 3
CPU_REGISTERS == 4
SEGMENTS_TABLE == 5
ALL_SEGMENTS_TABLES == 6
KERNEL_REQUEST == 7

OK_INSTRUCTION == 1
OUT_OF_MEMORY == 2
COMPACT_REQUEST == 3
SEGMENT == 4

-----------------------------------------------------------------------------
(* string_itoa and atoi: a text is the sequence of its characters.         *)
RECURSIVE Itoa(_)
Itoa(n) == IF n < 10 THEN <<48 + n>> ELSE Append(Itoa(n \div 10), 48 + (n % 10))

IsDigit(char) == char \in 48 .. 57
Atoi(text) ==
  LET digits == SelectInSeq(Append(text, 0), LAMBDA char : ~IsDigit(char)) - 1 IN
  FoldLeft(LAMBDA n, char : 10 * n + char - 48, 0, SubSeq(text, 1, digits))

SerializeMessage(text, is_flaw) ==
  PackageWrite(PackageNew(IF is_flaw THEN MESSAGE_FLAW ELSE MESSAGE_OK), text)

-----------------------------------------------------------------------------
(* An instruction is an operation code and the list of its arguments.      *)
Instruction(op_code, args) == [op_code |-> op_code, args |-> args]

SerializeInstruction(instruction) ==
  FoldLeft(PackageWrite, PackageNew(instruction.op_code), instruction.args)
DeserializeInstruction(package) ==
  LET texts == BuffersFrom(package, 0) IN
  Instruction(package.type, [k \in DOMAIN texts |-> CString(texts[k])])

SerializeInstructions(instructions, is_ec) ==
  FoldLeft(LAMBDA package, one : PackageNest(package, SerializeInstruction(one)),
           PackageNew(IF is_ec THEN EC_INSTRUCTIONS ELSE INSTRUCTIONS), instructions)
DeserializeInstructions(package) ==
  LET nested == PackagesFrom(package, 0) IN
  [k \in DOMAIN nested |-> DeserializeInstruction(nested[k])]

(* The registers travel whole, whatever bytes they hold.  Fault: as texts. *)
AddedAsText(package, register) == PackageAdd(package, CString(register))
AddedWhole(package, register) == PackageAdd(package, register)
SerializeCpuRegisters(registers) ==
  FoldLeft(AddedWhole, PackageNew(CPU_REGISTERS), registers)
(* Each is copied over the start of its place, which malloc gave with      *)
(* anything in it.                                                         *)
Garbage == ByteValues - 1
DeserializeCpuRegisters(package) ==
  LET values == BuffersFrom(package, 0) IN
  [k \in DOMAIN RegisterSizes |->
     [b \in 1 .. RegisterSizes[k] |->
        IF k \in DOMAIN values /\ b <= Len(values[k]) THEN values[k][b] ELSE Garbage]]

-----------------------------------------------------------------------------
(* The base of a segment travels as its distance from the heap, and        *)
(* arrives as a pointer to a copy of that number, which nobody reads: the  *)
(* next to send the segment sends the address of the copy.                 *)
SerializeSegment(segment, heap) ==
  SerializeInstruction(Instruction(SEGMENT,
    <<Itoa(segment.base - heap), Itoa(segment.offset), Itoa(segment.s_id)>>))
DeserializeSegment(package) ==
  LET args == DeserializeInstruction(package).args IN
  [base |-> Pointer, offset |-> Atoi(args[2]), s_id |-> Atoi(args[3])]

SerializeSegmentsTable(table, type, heap) ==
  FoldLeft(LAMBDA package, segment : PackageNest(package, SerializeSegment(segment, heap)),
           PackageNew(type), table)
DeserializeSegmentTable(package) ==
  LET nested == PackagesFrom(package, 0) IN
  [k \in DOMAIN nested |-> DeserializeSegment(nested[k])]

(* All the tables of memory, by pid: the type of a package is the pid.     *)
(* The dictionary of memory also has the key of segment zero, which the    *)
(* count of the loop takes for one table more.                             *)
SerializeAllSegmentsTables(tables) ==
  FoldLeft(LAMBDA package, pid :
             PackageNest(package, SerializeSegmentsTable(tables[pid], pid, Heap)),
           PackageNew(ALL_SEGMENTS_TABLES), SetToSortSeq(DOMAIN tables, <))
DeserializeAllSegmentsTables(package) ==
  LET nested == PackagesFrom(package, 0) IN
  [pid \in {nested[k].type : k \in DOMAIN nested} |->
     DeserializeSegmentTable(nested[SelectInSeq(nested, LAMBDA one : one.type = pid)])]

-----------------------------------------------------------------------------
(* The execution context.  The program counter and the pid take a word,    *)
(* the burst time two.                                                     *)
SerializeExecutionContext(ec) ==
  LET parts ==
        << SerializeInstructions(ec.instructions, TRUE),
           PackageNewDict(PROGRAM_COUNTER, Bytes(ec.program_counter, IntBytes)),
           PackageNewDict(LAST_BURST_TIME, Bytes(ec.last_burst_time, LongBytes)),
           PackageNewDict(PROCESS_PID, Bytes(ec.pid, IntBytes)),
           SerializeCpuRegisters(ec.cpu_register),
           SerializeSegmentsTable(ec.segments_table, SEGMENTS_TABLE, 0) >>
      request ==
        IF ec.kernel_request = NULL THEN <<>>
        ELSE <<PackageNewNested(KERNEL_REQUEST, SerializeInstruction(ec.kernel_request))>>
  IN FoldLeft(PackageNest, PackageNew(EXECUTION_CONTEXT), parts \o request)

(* What one of the packages in it sets.                                    *)
FirstBuffer(package) == PackageDecodeBuffer(package.buffer, 0).value
ContextField(ec, nested) ==
  CASE nested.type = EC_INSTRUCTIONS ->
         [ec EXCEPT !.instructions = DeserializeInstructions(nested)]
    [] nested.type = PROGRAM_COUNTER ->
         [ec EXCEPT !.program_counter = Unsigned(FirstBuffer(nested))]
    [] nested.type = LAST_BURST_TIME ->
         [ec EXCEPT !.last_burst_time = Signed(FirstBuffer(nested))]
    [] nested.type = PROCESS_PID ->
         [ec EXCEPT !.pid = Unsigned(FirstBuffer(nested))]
    [] nested.type = CPU_REGISTERS ->
         [ec EXCEPT !.cpu_register = DeserializeCpuRegisters(nested)]
    [] nested.type = SEGMENTS_TABLE ->
         [ec EXCEPT !.segments_table = DeserializeSegmentTable(nested)]
    [] nested.type = KERNEL_REQUEST ->
         [ec EXCEPT !.kernel_request =
            DeserializeInstruction(PackageDecode(nested.buffer, 0).value)]

ExecutionContextNew(pid) ==
  [ instructions |-> <<>>, program_counter |-> 0, last_burst_time |-> 0, pid |-> pid,
    cpu_register |-> [k \in DOMAIN RegisterSizes |-> Bytes(0, RegisterSizes[k])],
    segments_table |-> <<>>, kernel_request |-> NULL ]

(* Only the request may be missing; with anything unknown in it, NULL.     *)
ContextTypes == {EC_INSTRUCTIONS, PROGRAM_COUNTER, LAST_BURST_TIME, PROCESS_PID,
                 CPU_REGISTERS, SEGMENTS_TABLE, KERNEL_REQUEST}
DeserializeExecutionContext(package) ==
  LET nested == PackagesFrom(package, 0) IN
  IF \E k \in DOMAIN nested : nested[k].type \notin ContextTypes THEN NULL
  ELSE FoldLeft(ContextField, ExecutionContextNew(0), nested)
=============================================================================
