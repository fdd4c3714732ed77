------------------------------ MODULE Exchange ------------------------------
(***************************************************************************)
(* Consoles, kernel, CPU and memory at the level of the bytes they send    *)
(* each other: a script that becomes instructions, the execution context   *)
(* that goes to the CPU and back, the requests to memory and its tables.   *)
(* A console, the CPU or memory may die, in the middle of a send too.      *)
(*                                                                         *)
(* Who waits for an answer of memory is one thread at a time: Segments     *)
(* has the others.  Any READY process may be chosen, and all are admitted: *)
(* Kernel has the schedulers.                                              *)
(***************************************************************************)
EXTENDS Serializer, FiniteSets

CONSTANTS
  Procs,           \* the consoles, and the processes they send
  Pid,             \* of each: the socket of its console
  Scripts,         \* bound: those each may have, as sequences of [op, args];
                   \* of SET, CREATE_SEGMENT, YIELD, EXIT and unknown ones
  RegisterNames,   \* in the order of t_registers
  ZeroSize,        \* TAM_SEGMENTO_0
  Cuts,            \* bound: how many bytes leave of a send that is cut
  Torn             \* a package that socket_receive gives with bytes missing

ASSUME PidAssumption ==
  Pid \in [Procs -> Nat] /\ \A p, q \in Procs : Pid[p] = Pid[q] => p = q
ASSUME NamesAssumption == Len(RegisterNames) = Len(RegisterSizes)
ASSUME CutsAssumption == Cuts \subseteq Nat

VARIABLES
  system,    \* "up"; "stopped", the main loop left; "aborted"; or "torn": a
             \* torn package was read, and anything may follow
  script,    \* what each console sends
  console,   \* where it is: "none", "welcome", "waiting", "ended" or "gone"
  phase,     \* where its process is: "none"; "instructions", its thread
             \* waits for them; "NEW"; "asked", for its table; "READY";
             \* "EXEC"; "EXIT_PROCESS"; or "ended"
  context,   \* the execution context of each PCB
  main,      \* where the main loop is: "idle"; "cpu", it waits for it;
             \* "serve", a request; "exit"; "create", "compact", "again" or "end",
             \* it waits for memory
  running,   \* the process whose PCB it has, or NULL
  alive,     \* of the CPU and memory
  tables,    \* the tables of memory, by pid
  net,       \* the streams: the bytes sent and not received, whether the
             \* sender is gone, and the packages those bytes were
  executed   \* what the CPU has made of each context, were it never sent

kernelVars == <<system, phase, context, main, running>>
consoleVars == <<script, console>>
vars == <<kernelVars, consoleVars, alive, tables, net, executed>>

Up == system = "up"
Modules == {"cpu", "memory"}

-----------------------------------------------------------------------------
(* op_code, t_memory_op, and the instructions of a script.  The code of an *)
(* unknown one is -1.                                                      *)
OpCodes ==
  <<"F_READ", "F_WRITE", "SET", "MOV_IN", "MOV_OUT", "F_TRUNCATE", "F_SEEK",
    "CREATE_SEGMENT", "I/O", "WAIT", "SIGNAL", "F_OPEN", "F_CLOSE",
    "DELETE_SEGMENT", "EXIT", "YIELD">>
ParseOpCode(code) == SelectInSeq(OpCodes, LAMBDA op : op = code) - 1

MEM_INIT_PROCESS == 0
MEM_END_PROCCESS == 1
MEM_CREATE_SEGMENT == 4
MEM_COMPACT_ALL == 6

ParseInstruction(line) ==
  FoldLeft(PackageWrite, PackageNew(ParseOpCode(line.op)), line.args)
ProcessInstructions(lines) ==
  FoldLeft(LAMBDA package, line : PackageNest(package, ParseInstruction(line)),
           PackageNew(INSTRUCTIONS), lines)

-----------------------------------------------------------------------------
(* The streams.                                                            *)
ToCpu == <<"kernel", "cpu">>
FromCpu == <<"cpu", "kernel">>
ToMemory == <<"kernel", "memory">>
FromMemory == <<"memory", "kernel">>
ToConsole(p) == <<"kernel", p>>
FromConsole(p) == <<p, "kernel">>
Channels ==
  {ToCpu, FromCpu, ToMemory, FromMemory}
  \cup {ToConsole(p) : p \in Procs} \cup {FromConsole(p) : p \in Procs}

(* socket_send, whole, or cut by the end of the sender.                    *)
Sent(n, c, package) ==
  [n EXCEPT ![c].bytes = @ \o PackageClose(package).buffer,
            ![c].packages = Append(@, package)]
Cut(n, c, package, k) ==
  LET buffer == PackageClose(package).buffer IN
  [n EXCEPT ![c].bytes = @ \o SubSeq(buffer, 1, Min({k, Len(buffer) - 1})),
            ![c].closed = TRUE]
Hung(n, ends) == [c \in Channels |-> [n[c] EXCEPT !.closed = @ \/ c \in ends]]

(* socket_receive: who is in it, and when it returns.  MSG_WAITALL         *)
(* waits for all the bytes of the size, of the type and of the content, or *)
(* for the end of the stream: the pieces TCP makes of it do not show.      *)
Header == LongBytes + IntBytes
SizeOf(s) == Unsigned(SubSeq(s.bytes, 1, LongBytes))
Whole(s) == Len(s.bytes) >= Header /\ Len(s.bytes) >= Header + SizeOf(s)
MemoryIsAsked ==
  main \in {"create", "compact", "again", "end"} \/ \E p \in Procs : phase[p] = "asked"
Waiting(c) ==
  \/ \E p \in Procs : c = ToConsole(p) /\ console[p] \in {"welcome", "waiting"}
  \/ /\ Up
     /\ \/ c = ToCpu /\ "cpu" \in alive
        \/ c = ToMemory /\ "memory" \in alive
        \/ c = FromCpu /\ main = "cpu"
        \/ c = FromMemory /\ MemoryIsAsked
        \/ \E p \in Procs : c = FromConsole(p) /\ phase[p] = "instructions"
Receives(c) == Waiting(c) /\ (Whole(net[c]) \/ net[c].closed)

(* At the end of the stream a recv gives what there is, and only if that   *)
(* is nothing is the package NULL.  An empty content is not waited for.    *)
IsTorn(s) ==
  \/ Len(s.bytes) > Header
  \/ Len(s.bytes) \in LongBytes + 1 .. Header - 1 /\ SizeOf(s) = 0
WholePackage(s) ==
  [type   |-> Signed(SubSeq(s.bytes, LongBytes + 1, Header)),
   buffer |-> SubSeq(s.bytes, Header + 1, Header + SizeOf(s))]
Received(c) ==
  IF Whole(net[c]) THEN WholePackage(net[c]) ELSE IF IsTorn(net[c]) THEN Torn ELSE NULL
Rest(s) ==
  IF Whole(s)
    THEN [s EXCEPT !.bytes = SubSeq(@, Header + SizeOf(s) + 1, Len(@)), !.packages = Tail(@)]
    ELSE [s EXCEPT !.bytes = <<>>]
After(c) == [net EXCEPT ![c] = Rest(@)]

(* With a torn package the kernel goes on with what was in its buffer.     *)
ReadsTorn(c) ==
  /\ Received(c) = Torn
  /\ system' = "torn"
  /\ UNCHANGED <<phase, context, main, running, consoleVars, alive, tables, net, executed>>

(* The end of the kernel closes its sockets.                               *)
KernelEnds(how) ==
  /\ system' = how
  /\ net' = Hung(net, {ToCpu, ToMemory} \cup {ToConsole(p) : p \in Procs})
  /\ UNCHANGED <<phase, context, main, running, consoleVars, alive, tables, executed>>

-----------------------------------------------------------------------------
(* A console connects, and listen_consoles starts its thread, which greets *)
(* it.                                                                     *)
Text == <<72, 105>>
Connect(p, lines) ==
  /\ Up /\ console[p] = "none"
  /\ script' = [script EXCEPT ![p] = lines]
  /\ console' = [console EXCEPT ![p] = "welcome"]
  /\ phase' = [phase EXCEPT ![p] = "instructions"]
  /\ context' = [context EXCEPT ![p] = ExecutionContextNew(Pid[p])]
  /\ net' = Sent(net, ToConsole(p), SerializeMessage(Text, TRUE))
  /\ UNCHANGED <<system, main, running, alive, tables, executed>>

(* The console sends its script after the first message, and waits for the *)
(* others until the process is done, or the kernel gone.                   *)
ConsoleGreeted(p) ==
  /\ console[p] = "welcome" /\ Receives(ToConsole(p))
  /\ console' = [console EXCEPT ![p] = "waiting"]
  /\ net' = Sent(After(ToConsole(p)), FromConsole(p), ProcessInstructions(script[p]))
  /\ UNCHANGED <<kernelVars, script, alive, tables, executed>>

(* Anything but a message ends the wait.                                   *)
EndsTheWait(package) ==
  package = NULL \/ package.type \notin {MESSAGE_OK, MESSAGE_FLAW}
ConsoleHears(p) ==
  /\ console[p] = "waiting" /\ Receives(ToConsole(p))
  /\ console' = [console EXCEPT ![p] =
       IF EndsTheWait(Received(ToConsole(p))) THEN "ended" ELSE @]
  /\ net' = After(ToConsole(p))
  /\ UNCHANGED <<kernelVars, script, alive, tables, executed>>

(* A console dies, in the middle of its send at worst.                     *)
ConsoleGone(p) ==
  /\ Up /\ console[p] \in {"welcome", "waiting"}
  /\ console' = [console EXCEPT ![p] = "gone"]
  /\ \/ net' = Hung(net, {FromConsole(p)})
     \/ /\ console[p] = "welcome" /\ Receives(ToConsole(p))
        /\ \E k \in Cuts :
             net' = Cut(After(ToConsole(p)), FromConsole(p), ProcessInstructions(script[p]), k)
  /\ UNCHANGED <<kernelVars, script, alive, tables, executed>>

(* handle_new_process: the instructions come, and the answer goes out; or  *)
(* the console is gone, and so is the PCB.                                 *)
ReceiveInstructions(p) ==
  LET c == FromConsole(p) IN
  /\ Receives(c)
  /\ \/ ReadsTorn(c)
     \/ /\ Received(c) # Torn
        /\ Received(c) = NULL \/ console[p] = "gone"
        /\ phase' = [phase EXCEPT ![p] = "ended"]
        /\ net' = After(c)
        /\ UNCHANGED <<system, context, main, running, consoleVars, alive, tables, executed>>
     \/ /\ Received(c) \notin {NULL, Torn}
        /\ phase' = [phase EXCEPT ![p] = "NEW"]
        /\ context' = [context EXCEPT ![p].instructions = DeserializeInstructions(Received(c))]
        /\ executed' = [executed EXCEPT ![p] =
             [ExecutionContextNew(Pid[p]) EXCEPT !.instructions =
                [k \in DOMAIN script[p] |->
                   Instruction(ParseOpCode(script[p][k].op), script[p][k].args)]]]
        /\ net' = Sent(After(c), ToConsole(p), SerializeMessage(Text, FALSE))
        /\ UNCHANGED <<system, main, running, consoleVars, alive, tables>>

-----------------------------------------------------------------------------
(* long_term_schedule, for the process that comes in.                      *)
Asked(n, instruction) == Sent(n, ToMemory, SerializeInstruction(instruction))
PidText(p) == Itoa(Pid[p])

Admit(p) ==
  /\ Up /\ phase[p] = "NEW" /\ ~MemoryIsAsked
  /\ phase' = [phase EXCEPT ![p] = "asked"]
  /\ net' = Asked(net, Instruction(MEM_INIT_PROCESS, <<PidText(p)>>))
  /\ UNCHANGED <<system, context, main, running, consoleVars, alive, tables, executed>>

Admitted(p) ==
  LET package == Received(FromMemory) IN
  /\ phase[p] = "asked" /\ Receives(FromMemory)
  /\ \/ ReadsTorn(FromMemory)
     \/ package = NULL /\ KernelEnds("aborted")
     \/ /\ package \notin {NULL, Torn} /\ package.type = SEGMENTS_TABLE
        /\ phase' = [phase EXCEPT ![p] = "READY"]
        /\ context' = [context EXCEPT ![p].segments_table = DeserializeSegmentTable(package)]
        /\ net' = After(FromMemory)
        /\ UNCHANGED <<system, main, running, consoleVars, alive, tables, executed>>

(* The process that the short term scheduler gives goes to the CPU.        *)
Dispatch(p) ==
  /\ Up /\ main = "idle" /\ phase[p] = "READY"
  /\ phase' = [phase EXCEPT ![p] = "EXEC"]
  /\ main' = "cpu" /\ running' = p
  /\ net' = Sent(net, ToCpu, SerializeExecutionContext(context[p]))
  /\ UNCHANGED <<system, context, consoleVars, alive, tables, executed>>

-----------------------------------------------------------------------------
(* fetch, the SET of execute, and set_register: strncpy fills the register *)
(* with NULs, and leaves none when the value is as long.                   *)
StrNCpy(text, size) == BytesAt(text, 0, size)
SetRegister(registers, name, value) ==
  [k \in DOMAIN registers |->
     IF RegisterNames[k] = name /\ Len(value) <= RegisterSizes[k]
       THEN StrNCpy(value, RegisterSizes[k]) ELSE registers[k]]

Requests == {ParseOpCode(op) : op \in {"CREATE_SEGMENT", "EXIT", "YIELD"}}
Execute(instruction, ec) ==
  CASE instruction.op_code = ParseOpCode("SET") ->
         [ec EXCEPT !.cpu_register = SetRegister(@, instruction.args[1], instruction.args[2])]
    [] instruction.op_code \in Requests -> [ec EXCEPT !.kernel_request = instruction]
    [] OTHER -> ec

RECURSIVE Burst(_)
Burst(ec) ==
  IF ec.kernel_request # NULL THEN ec
  ELSE IF ec.program_counter >= Len(ec.instructions)
    THEN [ec EXCEPT !.kernel_request = Instruction(ParseOpCode("EXIT"), <<>>)]
  ELSE Burst([Execute(ec.instructions[ec.program_counter + 1], ec)
                EXCEPT !.program_counter = @ + 1])

(* The CPU executes a context until it asks for something, and sends it    *)
(* back with the time it took.                                             *)
Executed(ec) == [Burst([ec EXCEPT !.kernel_request = NULL]) EXCEPT !.last_burst_time = 1]
CpuRuns ==
  /\ Receives(ToCpu)
  /\ LET answer == SerializeExecutionContext(
                     Executed(DeserializeExecutionContext(Received(ToCpu)))) IN
     \/ net' = Sent(After(ToCpu), FromCpu, answer) /\ UNCHANGED alive
     \/ /\ alive' = alive \ {"cpu"}
        /\ \E k \in Cuts : net' = Cut(After(ToCpu), FromCpu, answer, k)
  /\ executed' = [executed EXCEPT ![running] =
       [Executed(@) EXCEPT !.last_burst_time = 0, !.kernel_request = NULL]]
  /\ UNCHANGED <<kernelVars, consoleVars, tables>>

ModuleDies(m) ==
  /\ Up /\ m \in alive
  /\ alive' = alive \ {m}
  /\ net' = Hung(net, {<<m, "kernel">>})
  /\ UNCHANGED <<kernelVars, consoleVars, tables, executed>>

-----------------------------------------------------------------------------
(* What memory may answer, and its tables then.  Where it puts a segment   *)
(* is the matter of Memoria, and it does not ask for two compactions in a  *)
(* row.                                                                    *)
MemoryAnswers(instruction) ==
  LET pid   == Atoi(Last(instruction.args))
      zero  == [base |-> Heap, offset |-> ZeroSize, s_id |-> 0]
      added == [base |-> Heap + ZeroSize, s_id |-> Atoi(instruction.args[1]),
                offset |-> Atoi(instruction.args[2])]
      one(package, after) == [package |-> package, tables |-> after] IN
  CASE instruction.op_code = MEM_INIT_PROCESS ->
         {one(SerializeSegmentsTable(<<zero>>, SEGMENTS_TABLE, Heap),
              (pid :> <<zero>>) @@ tables)}
    [] instruction.op_code = MEM_END_PROCCESS ->
         {one(PackageNew(OK_INSTRUCTION), [i \in DOMAIN tables \ {pid} |-> tables[i]])}
    [] instruction.op_code = MEM_CREATE_SEGMENT ->
         {one(SerializeMessage(Itoa(added.base), FALSE),
              [tables EXCEPT ![pid] = Append(@, added)]),
          one(PackageNew(OUT_OF_MEMORY), tables)}
         \cup (IF main = "create" THEN {one(PackageNew(COMPACT_REQUEST), tables)} ELSE {})
    [] instruction.op_code = MEM_COMPACT_ALL ->
         {one(SerializeAllSegmentsTables(tables), tables)}

MemoryServes ==
  /\ Receives(ToMemory)
  /\ \E answer \in MemoryAnswers(DeserializeInstruction(Received(ToMemory))) :
       /\ tables' = answer.tables
       /\ \/ net' = Sent(After(ToMemory), FromMemory, answer.package) /\ UNCHANGED alive
          \/ /\ alive' = alive \ {"memory"}
             /\ \E k \in Cuts : net' = Cut(After(ToMemory), FromMemory, answer.package, k)
  /\ UNCHANGED <<kernelVars, consoleVars, executed>>

-----------------------------------------------------------------------------
(* The main loop has the context back.                                     *)
CpuAnswers ==
  LET package == Received(FromCpu) IN
  /\ Receives(FromCpu)
  /\ \/ ReadsTorn(FromCpu)
     \/ package = NULL /\ KernelEnds("stopped")
     \/ /\ package \notin {NULL, Torn}
        /\ context' = [context EXCEPT ![running] = DeserializeExecutionContext(package)]
        /\ main' = "serve"
        /\ net' = After(FromCpu)
        /\ UNCHANGED <<system, phase, running, consoleVars, alive, tables, executed>>

Request == context[running].kernel_request
Serving(op) == Up /\ main = "serve" /\ Request.op_code = ParseOpCode(op)
Released(ec) == [ec EXCEPT !.kernel_request = NULL]

(* The request is over, and the process READY with the context it has now. *)
(* Fault: the process stays in EXEC.                                       *)
StillInExec(p) == phase
BackInReady(p) == [phase EXCEPT ![p] = "READY"]
Settle(ec, n) ==
  /\ context' = [context EXCEPT ![running] = Released(ec)]
  /\ phase' = BackInReady(running)
  /\ main' = "idle" /\ running' = NULL
  /\ net' = n
  /\ UNCHANGED <<system, consoleVars, alive, tables, executed>>

Yield == Serving("YIELD") /\ Settle(context[running], net)

(* The end of a process: its console is told and its socket closed, and    *)
(* memory is asked to end it.                                              *)
ExitProcess(n) ==
  /\ context' = [context EXCEPT ![running] = Released(@)]
  /\ phase' = [phase EXCEPT ![running] = "EXIT_PROCESS"]
  /\ net' = n
  /\ UNCHANGED <<system, running, consoleVars, alive, tables, executed>>

Exit == Serving("EXIT") /\ main' = "exit" /\ ExitProcess(net)

EndProcess ==
  LET c == ToConsole(running) IN
  /\ Up /\ main = "exit" /\ ~MemoryIsAsked
  /\ main' = "end"
  /\ net' = Asked(Hung(Sent(net, c, PackageNew(MESSAGE_DONE)), {c}),
                  Instruction(MEM_END_PROCCESS, <<PidText(running)>>))
  /\ UNCHANGED <<system, phase, context, running, consoleVars, alive, tables, executed>>

Ended ==
  /\ main = "end" /\ Receives(FromMemory)
  /\ \/ ReadsTorn(FromMemory)
     \/ Received(FromMemory) = NULL /\ KernelEnds("aborted")
     \/ /\ Received(FromMemory) \notin {NULL, Torn}
        /\ phase' = [phase EXCEPT ![running] = "ended"]
        /\ main' = "idle" /\ running' = NULL
        /\ net' = After(FromMemory)
        /\ UNCHANGED <<system, context, consoleVars, alive, tables, executed>>

-----------------------------------------------------------------------------
(* CREATE_SEGMENT becomes the request to memory, with the pid, and is sent *)
(* again after a compaction.                                               *)
CreateSegment ==
  LET mem_op == Instruction(MEM_CREATE_SEGMENT, Append(Request.args, PidText(running))) IN
  /\ Serving("CREATE_SEGMENT") /\ ~MemoryIsAsked
  /\ context' = [context EXCEPT ![running].kernel_request = mem_op]
  /\ main' = "create"
  /\ net' = Asked(net, mem_op)
  /\ UNCHANGED <<system, phase, running, consoleVars, alive, tables, executed>>

Created ==
  LET package == Received(FromMemory)
      segment == [base |-> Pointer, s_id |-> Atoi(Request.args[1]),
                  offset |-> Atoi(Request.args[2])] IN
  /\ main \in {"create", "again"} /\ Receives(FromMemory)
  /\ \/ ReadsTorn(FromMemory)
     \/ package = NULL /\ Settle(context[running], After(FromMemory))
     \/ /\ package \notin {NULL, Torn}
        /\ \/ /\ main = "create" /\ package.type = COMPACT_REQUEST
              /\ main' = "compact"
              /\ net' = Asked(After(FromMemory), Instruction(MEM_COMPACT_ALL, <<>>))
              /\ UNCHANGED <<system, phase, context, running, consoleVars, alive, tables,
                             executed>>
           \/ /\ package.type = OUT_OF_MEMORY
              /\ main' = "exit" /\ ExitProcess(After(FromMemory))
           \/ /\ package.type = MESSAGE_OK
              /\ Settle([context[running] EXCEPT !.segments_table = Append(@, segment)],
                        After(FromMemory))

(* The processes of the active queue get the tables that come.             *)
Compacted ==
  LET package == Received(FromMemory) IN
  /\ main = "compact" /\ Receives(FromMemory)
  /\ \/ ReadsTorn(FromMemory)
     \/ package = NULL /\ Settle(context[running], After(FromMemory))
     \/ /\ package \notin {NULL, Torn}
        /\ context' = [p \in Procs |->
             IF phase[p] = "READY"
               THEN [context[p] EXCEPT !.segments_table =
                       DeserializeAllSegmentsTables(package)[Pid[p]]]
               ELSE context[p]]
        /\ main' = "again"
        /\ net' = Asked(After(FromMemory), Request)
        /\ UNCHANGED <<system, phase, running, consoleVars, alive, tables, executed>>

-----------------------------------------------------------------------------
Init ==
  /\ system = "up" /\ main = "idle" /\ running = NULL
  /\ alive = Modules
  /\ tables = <<>>
  /\ script = [p \in Procs |-> <<>>]
  /\ console = [p \in Procs |-> "none"]
  /\ phase = [p \in Procs |-> "none"]
  /\ context = [p \in Procs |-> NULL]
  /\ executed = [p \in Procs |-> NULL]
  /\ net = [c \in Channels |-> [bytes |-> <<>>, closed |-> FALSE, packages |-> <<>>]]

MainStep ==
  \/ \E p \in Procs : Dispatch(p)
  \/ CpuAnswers \/ Yield \/ Exit \/ EndProcess \/ Ended
  \/ CreateSegment \/ Created \/ Compacted
Progress ==
  \/ MainStep \/ MemoryServes \/ CpuRuns
  \/ \E p \in Procs :
       \/ ReceiveInstructions(p) \/ Admit(p) \/ Admitted(p)
       \/ ConsoleGreeted(p) \/ ConsoleHears(p)

Next ==
  \/ Progress
  \/ \E p \in Procs : ConsoleGone(p) \/ \E lines \in Scripts[p] : Connect(p, lines)
  \/ \E m \in Modules : ModuleDies(m)

(* The threads and modules go on as long as one of them can.  This says    *)
(* WF_vars(Progress), without what TLC is slow to evaluate: CanProgress is *)
(* ENABLED Progress, and the steps that are not of Progress, a console     *)
(* that connects and whatever dies, happen once each.                      *)
CanProgress ==
  \/ \E c \in Channels : Receives(c)
  \/ /\ Up
     /\ \/ main = "idle" /\ \E p \in Procs : phase[p] = "READY"
        \/ main \in {"serve", "exit"}
        \/ ~MemoryIsAsked /\ \E p \in Procs : phase[p] = "NEW"
Fairness == []<>~CanProgress \/ []<><<TRUE>>_vars

FairSpec == Init /\ [][Next]_vars /\ Fairness

-----------------------------------------------------------------------------
(* Every package arrives as it was sent, whatever was sent before it on    *)
(* the stream, and nothing is left of it for the next: only the bytes of a *)
(* sender that died in the middle of a send are not a package.             *)
InStep ==
  \A c \in Channels :
    IF net[c].packages = <<>> THEN net[c].bytes = <<>> \/ net[c].closed
    ELSE Whole(net[c]) /\ Received(c) = Head(net[c].packages)

(* A context comes back from the CPU as if the process had run where its   *)
(* PCB is: through all the conversions, the other processes on the CPU and *)
(* the compactions, a READY process has its instructions, its place and    *)
(* its registers, and the segments that memory has for it.                 *)
Kept(segments) == [k \in DOMAIN segments |-> <<segments[k].s_id, segments[k].offset>>]
ContextSurvives ==
  \A p \in Procs :
    phase[p] = "READY" =>
      /\ [context[p] EXCEPT !.segments_table = <<>>, !.last_burst_time = 0] = executed[p]
      /\ "memory" \in alive => Kept(context[p].segments_table) = Kept(tables[Pid[p]])

(* A console that waits hears the end of its process or of the kernel,     *)
(* whoever dies: the other console, the CPU or memory.                     *)
EveryConsoleHears ==
  \A p \in Procs :
    console[p] = "waiting" ~> (console[p] # "waiting" \/ system = "torn")
=============================================================================
