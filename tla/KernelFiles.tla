----------------------------- MODULE KernelFiles -----------------------------
(***************************************************************************)
(* The files of the kernel: F_OPEN, F_CLOSE, F_SEEK, F_TRUNCATE, F_READ    *)
(* and F_WRITE in the main loop, the thread handle_fs that passes reads    *)
(* and writes on to the file system, the socket the two threads share, and *)
(* the compaction that waits for the operations of files.                  *)
(*                                                                         *)
(* How processes are admitted, chosen and destroyed is in Kernel: here one *)
(* arrives in one step, any READY one may be chosen, and one that ends is  *)
(* destroyed in one step.  A process asks for anything at any time.        *)
(***************************************************************************)
EXTENDS Naturals, Sequences, FiniteSets

CONSTANTS
  Procs,        \* the processes
  Files,        \* the file names
  OwnersClose,  \* TRUE: processes close only the files they have
  Gone,         \* in place of a process that ended with a file open
  NULL          \* the null pointer

(* A request for handle_fs, t_file_instruction.                            *)
FileInstructions == [pcb : Procs, file : Files, position : {"unset", "set"}]

ASSUME NullAssumption ==
  /\ NULL \notin Procs \cup Files \cup FileInstructions
  /\ Gone \notin Procs /\ Gone # NULL
ASSUME OwnersCloseAssumption == OwnersClose \in BOOLEAN

VARIABLES
  kernel,             \* "up", or the way the kernel ended
  state,              \* pcb->state
  main,               \* where the main thread is
  pcb,                \* the PCB the main loop has in its hands
  active_pcbs,        \* the PCBs of the active queue
  file,               \* the file of the request it serves
  open,               \* the keys of global_files
  waiting,            \* global_files[f]: the queue of PCBs that wait for f
  local_files,        \* local_files[p][f]: "closed", or the position: "unset", "set"
  file_instructions,  \* the queue of reads and writes for handle_fs
  handler,            \* the one handle_fs has taken, or NULL
  asked, answered,    \* the two directions of socket_filesystem
  fs,                 \* "up", or "lost" once the file system has ended
  created             \* the files that have an FCB

fileVars == <<open, waiting, local_files>>
handlerVars == <<file_instructions, handler>>
socketVars == <<asked, answered, fs, created>>
mainVars == <<main, pcb, active_pcbs, file>>
vars == <<kernel, state, mainVars, fileVars, handlerVars, socketVars>>

Init ==
  /\ kernel = "up"
  /\ state = [p \in Procs |-> "none"]
  /\ main = "pick" /\ pcb = NULL /\ active_pcbs = {} /\ file = NULL
  /\ open = {}
  /\ waiting = [f \in Files |-> <<>>]
  /\ local_files = [p \in Procs |-> [f \in Files |-> "closed"]]
  /\ file_instructions = <<>> /\ handler = NULL
  /\ asked = <<>> /\ answered = <<>> /\ fs = "up"
  /\ created = {}

Up == kernel = "up"
Goto(next) == main' = next
Become(p, s) == state' = [state EXCEPT ![p] = s]
Has(p, f) == local_files[p][f] # "closed"

-----------------------------------------------------------------------------
(* The socket.  What is sent to a file system that has ended is lost, and  *)
(* a receive then returns NULL once the answers it left are read; whichever *)
(* thread receives first takes the first answer, whoever asked for it.     *)
Send(op, f) ==
  asked' = IF fs = "up" THEN Append(asked, [op |-> op, file |-> f]) ELSE asked

Receive(answer) ==
  \/ /\ answered # <<>>
     /\ answer = Head(answered) /\ answered' = Tail(answered)
  \/ /\ answered = <<>> /\ fs = "lost"
     /\ answer = NULL /\ UNCHANGED answered

(* A send to it may also fail; whoever asks then gives up at once.         *)
SendFails == fs = "lost" /\ UNCHANGED asked

-----------------------------------------------------------------------------
(* The life of a process around its requests.                              *)
Arrive(p) ==
  /\ Up /\ state[p] = "none"
  /\ Become(p, "READY")
  /\ active_pcbs' = active_pcbs \cup {p}
  /\ UNCHANGED <<kernel, main, pcb, file, fileVars, handlerVars, socketVars>>

Pick(p) ==
  /\ Up /\ main = "pick" /\ p \in active_pcbs /\ state[p] = "READY"
  /\ Goto("serve") /\ pcb' = p /\ active_pcbs' = active_pcbs \ {p}
  /\ Become(p, "EXEC")
  /\ UNCHANGED <<kernel, file, fileVars, handlerVars, socketVars>>

Serve == Up /\ main = "serve"

(* Any request that has nothing to do with files and does not block.       *)
Other ==
  /\ Serve /\ Goto("push")
  /\ UNCHANGED <<kernel, state, pcb, active_pcbs, file, fileVars, handlerVars, socketVars>>

Exit ==
  /\ Serve /\ Goto("push")
  /\ Become(pcb, "EXIT_PROCESS")
  /\ UNCHANGED <<kernel, pcb, active_pcbs, file, fileVars, handlerVars, socketVars>>

Push ==
  /\ Up /\ main = "push" /\ Goto("settle")
  /\ active_pcbs' = active_pcbs \cup {pcb}
  /\ UNCHANGED <<kernel, state, pcb, file, fileVars, handlerVars, socketVars>>

(* A PCB that ended is destroyed, its local_files with it; global_files    *)
(* keeps the files it had not closed.                                      *)
Settle ==
  /\ Up /\ main = "settle" /\ Goto("pick")
  /\ \/ /\ state[pcb] = "EXEC"
        /\ Become(pcb, "READY") /\ UNCHANGED <<active_pcbs, local_files>>
     \/ /\ state[pcb] = "EXIT_PROCESS"
        /\ Become(pcb, "freed")
        /\ active_pcbs' = active_pcbs \ {pcb}
        /\ local_files' = [local_files EXCEPT ![pcb] = [f \in Files |-> "closed"]]
     \/ /\ state[pcb] \notin {"EXEC", "EXIT_PROCESS"}
        /\ UNCHANGED <<state, active_pcbs, local_files>>
  /\ pcb' = NULL /\ file' = NULL
  /\ UNCHANGED <<kernel, open, waiting, handlerVars, socketVars>>

-----------------------------------------------------------------------------
(* F_OPEN: behind the process that has the file, or with the file system,  *)
(* which is asked a second time to create the file.  Fault: the process    *)
(* is queued and not BLOCKed.                                              *)
WaitAwake == UNCHANGED state
WaitBlocked == Become(pcb, "BLOCK")
FOpenWait(f) ==
  /\ Serve /\ f \in open /\ Goto("push")
  /\ WaitBlocked
  /\ waiting' = [waiting EXCEPT ![f] = Append(@, pcb)]
  /\ UNCHANGED <<kernel, pcb, active_pcbs, file, open, local_files, handlerVars, socketVars>>

Ask(op, f, next) ==
  /\ \/ Send(op, f) /\ Goto(next)
     \/ SendFails /\ Goto("push")
  /\ file' = f

FOpenAsk(f) ==
  /\ Serve /\ f \notin open
  /\ Ask("open", f, "open")
  /\ UNCHANGED <<kernel, state, pcb, active_pcbs, fileVars, handlerVars, answered, fs, created>>

(* Lines 122-127: the file is open, and this process has it.               *)
Opened ==
  /\ open' = open \cup {file}
  /\ waiting' = [waiting EXCEPT ![file] = <<>>]
  /\ local_files' = [local_files EXCEPT ![pcb][file] = "unset"]

FOpenAnswer ==
  /\ Up /\ main = "open"
  /\ \E answer \in {"MESSAGE_OK", "MESSAGE_FLAW", NULL} :
       /\ Receive(answer)
       /\ \/ answer = "MESSAGE_OK" /\ Opened /\ Goto("push") /\ UNCHANGED <<asked, file>>
          \/ answer = "MESSAGE_FLAW" /\ Ask("create", file, "create") /\ UNCHANGED fileVars
          \/ answer = NULL /\ Goto("push") /\ UNCHANGED <<fileVars, asked, file>>
  /\ UNCHANGED <<kernel, state, pcb, active_pcbs, handlerVars, fs, created>>

FCreateAnswer ==
  /\ Up /\ main = "create" /\ Goto("push")
  /\ \E answer \in {"MESSAGE_OK", "MESSAGE_FLAW", NULL} :
       /\ Receive(answer)
       /\ IF answer = "MESSAGE_OK" THEN Opened ELSE UNCHANGED fileVars
  /\ UNCHANGED <<kernel, state, pcb, active_pcbs, file, handlerVars, asked, fs, created>>

(* F_CLOSE looks at global_files only.  Faults: the head of the queue      *)
(* stays in it, and the file stays with the process that closes it.        *)
FileNotOpen(f) ==
  /\ Serve /\ f \notin open /\ Goto("push")
  /\ UNCHANGED <<kernel, state, pcb, active_pcbs, file, fileVars, handlerVars, socketVars>>

HeadStays(f) == waiting[f]
HeadLeaves(f) == Tail(waiting[f])
KeptByCloser(f) == [local_files EXCEPT ![Head(waiting[f])][f] = "unset"]
HandedOver(f) ==
  [local_files EXCEPT ![Head(waiting[f])][f] = "unset", ![pcb][f] = "closed"]
FClose(f) ==
  /\ Serve /\ f \in open /\ Goto("push")
  /\ OwnersClose => Has(pcb, f)
  /\ IF waiting[f] = <<>>
       THEN /\ open' = open \ {f}
            /\ local_files' = [local_files EXCEPT ![pcb][f] = "closed"]
            /\ UNCHANGED <<state, waiting>>
       ELSE /\ waiting' = [waiting EXCEPT ![f] = HeadLeaves(f)]
            /\ local_files' = HandedOver(f)
            /\ Become(Head(waiting[f]), "READY")
            /\ UNCHANGED open
  /\ UNCHANGED <<kernel, pcb, active_pcbs, file, handlerVars, socketVars>>

(* F_SEEK, of a file the process has.                                      *)
FSeek(f) ==
  /\ Serve /\ Has(pcb, f) /\ Goto("push")
  /\ local_files' = [local_files EXCEPT ![pcb][f] = "set"]
  /\ UNCHANGED <<kernel, state, pcb, active_pcbs, file, open, waiting, handlerVars, socketVars>>

(* F_TRUNCATE does not ask whether the file is open.                       *)
FTruncateAsk(f) ==
  /\ Serve /\ Ask("truncate", f, "truncate")
  /\ UNCHANGED <<kernel, state, pcb, active_pcbs, fileVars, handlerVars, answered, fs, created>>

FTruncateAnswer ==
  /\ Up /\ main = "truncate" /\ Goto("push")
  /\ \E answer \in {"MESSAGE_OK", "MESSAGE_FLAW", NULL} : Receive(answer)
  /\ UNCHANGED <<kernel, state, pcb, active_pcbs, file, fileVars, handlerVars, asked, fs, created>>

(* F_SEEK, F_READ and F_WRITE of a file the process does not have.         *)
NotMine(f) ==
  /\ Serve /\ ~Has(pcb, f) /\ Goto("push")
  /\ UNCHANGED <<kernel, state, pcb, active_pcbs, file, fileVars, handlerVars, socketVars>>

(* F_READ and F_WRITE: the request goes to handle_fs first, and only then  *)
(* is the process BLOCKed.                                                 *)
FReadWrite(f) ==
  /\ Serve /\ Has(pcb, f) /\ Goto("block")
  /\ file_instructions' =
       Append(file_instructions, [pcb |-> pcb, file |-> f, position |-> local_files[pcb][f]])
  /\ UNCHANGED <<kernel, state, pcb, active_pcbs, file, fileVars, handler, socketVars>>

Block ==
  /\ Up /\ main = "block" /\ Goto("push")
  /\ Become(pcb, "BLOCK")
  /\ UNCHANGED <<kernel, pcb, active_pcbs, file, fileVars, handlerVars, socketVars>>

(* CREATE_SEGMENT, when memory answers that it has to be compacted: the    *)
(* main loop waits until handle_fs has taken every request.                *)
CompactRequest ==
  /\ Serve /\ Goto("drain")
  /\ UNCHANGED <<kernel, state, pcb, active_pcbs, file, fileVars, handlerVars, socketVars>>

Drained ==
  /\ Up /\ main = "drain" /\ file_instructions = <<>> /\ Goto("push")
  /\ UNCHANGED <<kernel, state, pcb, active_pcbs, file, fileVars, handlerVars, socketVars>>

-----------------------------------------------------------------------------
(* handle_fs takes a request and sends it; a position that was never set   *)
(* is a null pointer, which serialize_instruction follows.  Fault: the     *)
(* request stays in the queue.                                             *)
NotPopped(queue) == queue
Popped(queue) == Tail(queue)
HandleTake ==
  /\ Up /\ handler = NULL /\ file_instructions # <<>>
  /\ file_instructions' = Popped(file_instructions)
  /\ LET fi == Head(file_instructions) IN
     \/ /\ fi.position = "unset"
        /\ kernel' = "null_position"
        /\ UNCHANGED <<handler, asked>>
     \/ /\ fi.position = "set"
        /\ \/ Send("transfer", fi.file) /\ handler' = fi
           \/ SendFails /\ UNCHANGED handler
        /\ UNCHANGED kernel
  /\ UNCHANGED <<state, mainVars, fileVars, answered, fs, created>>

(* Only MESSAGE_OK makes the process READY again; after anything else it   *)
(* stays BLOCKed, and nobody remembers it.                                 *)
HandleAnswer ==
  /\ Up /\ handler # NULL /\ handler' = NULL
  /\ \E answer \in {"MESSAGE_OK", "MESSAGE_FLAW", NULL} :
       /\ Receive(answer)
       /\ IF answer = "MESSAGE_OK" THEN Become(handler.pcb, "READY") ELSE UNCHANGED state
  /\ UNCHANGED <<kernel, mainVars, fileVars, file_instructions, asked, fs, created>>

-----------------------------------------------------------------------------
(* The file system serves one request after another.  Without an FCB it    *)
(* follows a null pointer; a transfer fails when memory refuses it.        *)
FsAnswers(m) ==
  CASE m.op = "open"   -> IF m.file \in created THEN {"MESSAGE_OK"} ELSE {"MESSAGE_FLAW"}
    [] m.op = "create" -> {"MESSAGE_OK"}
    [] m.op = "truncate" -> {"MESSAGE_OK"}
    [] m.op = "transfer" -> {"MESSAGE_OK", "MESSAGE_FLAW"}

Crashes(m) == m.op \in {"truncate", "transfer"} /\ m.file \notin created

(* Each request is answered.  Fault: only those that were processed.       *)
OnlyProcessed(answer) == IF answer = "MESSAGE_OK" THEN Append(answered, answer) ELSE answered
Replied(answer) == Append(answered, answer)

FsServe ==
  /\ fs = "up" /\ asked # <<>> /\ ~Crashes(Head(asked))
  /\ \E answer \in FsAnswers(Head(asked)) : answered' = Replied(answer)
  /\ created' = IF Head(asked).op = "create" THEN created \cup {Head(asked).file} ELSE created
  /\ asked' = Tail(asked)
  /\ UNCHANGED <<kernel, state, mainVars, fileVars, handlerVars, fs>>

(* It ends, by such a request or of its own.                               *)
FsLost ==
  /\ fs = "up" /\ fs' = "lost" /\ asked' = <<>>
  /\ UNCHANGED <<kernel, state, mainVars, fileVars, handlerVars, answered, created>>

HandleFs == HandleTake \/ HandleAnswer
File(f) ==
  \/ FOpenWait(f) \/ FOpenAsk(f) \/ FileNotOpen(f) \/ FClose(f) \/ FSeek(f)
  \/ FTruncateAsk(f) \/ NotMine(f) \/ FReadWrite(f)
Awaited == FOpenAnswer \/ FCreateAnswer \/ FTruncateAnswer \/ Drained
Serving ==
  \/ \E f \in Files : File(f)
  \/ Awaited \/ Block \/ CompactRequest
  \/ Other \/ Exit \/ Push \/ Settle
Next ==
  \/ \E p \in Procs : Arrive(p) \/ Pick(p)
  \/ Serving
  \/ HandleFs \/ FsServe \/ FsLost

Spec == Init /\ [][Next]_vars

(* The threads of the kernel run; a file system that is up answers, and a  *)
(* request that makes it fail ends it.                                     *)
FairSpec ==
  /\ Spec
  /\ WF_vars(HandleFs) /\ WF_vars(Awaited)
  /\ WF_vars(FsServe \/ (FsLost /\ asked # <<>> /\ Crashes(Head(asked))))

-----------------------------------------------------------------------------
(* Type correctness.                                                       *)
Requests == [op : {"open", "create", "truncate", "transfer"}, file : Files]
Answers == {"MESSAGE_OK", "MESSAGE_FLAW"}
TypeOK ==
  /\ kernel \in {"up", "null_position"}
  /\ state \in [Procs -> {"none", "READY", "EXEC", "BLOCK", "EXIT_PROCESS", "freed"}]
  /\ main \in {"pick", "serve", "open", "create", "truncate", "block", "drain",
               "push", "settle"}
  /\ pcb \in IF main = "pick" THEN {NULL} ELSE Procs
  /\ active_pcbs \subseteq Procs
  /\ file \in IF main \in {"open", "create"} THEN Files ELSE Files \cup {NULL}
  /\ open \subseteq Files
  /\ waiting \in [Files -> Seq(Procs)]
  /\ local_files \in [Procs -> [Files -> {"closed", "unset", "set"}]]
  /\ file_instructions \in Seq(FileInstructions)
  /\ handler \in FileInstructions \cup {NULL}
  /\ asked \in Seq(Requests) /\ answered \in Seq(Answers)
  /\ fs \in {"up", "lost"}
  /\ created \subseteq Files

(* A process that handle_fs has to wake is BLOCKed, or about to be.        *)
InTransit(p) ==
  \/ state[p] = "BLOCK"
  \/ p = pcb /\ main = "block" /\ state[p] = "EXEC"

(* Whoever waits, for a file, in the queue of handle_fs or in its hands,   *)
(* waits there once and nowhere else, and nothing else wakes or destroys   *)
(* it: no wakeup comes twice, and none reaches a process that went on.     *)
WaitersOnce ==
  \A f \in Files : \A k \in 1 .. Len(waiting[f]) :
    /\ state[waiting[f][k]] = "BLOCK"
    /\ \A g \in Files : \A l \in 1 .. Len(waiting[g]) :
         waiting[f][k] = waiting[g][l] => f = g /\ k = l
RequestsOnce ==
  /\ \A i \in 1 .. Len(file_instructions) :
       /\ InTransit(file_instructions[i].pcb)
       /\ \A j \in 1 .. Len(file_instructions) :
            file_instructions[i].pcb = file_instructions[j].pcb => i = j
       /\ handler # NULL => handler.pcb # file_instructions[i].pcb
  /\ handler # NULL => InTransit(handler.pcb)
Apart ==
  \A f \in Files : \A k \in 1 .. Len(waiting[f]) :
    /\ \A i \in 1 .. Len(file_instructions) : file_instructions[i].pcb # waiting[f][k]
    /\ handler # NULL => handler.pcb # waiting[f][k]
AwaitedOnce == WaitersOnce /\ RequestsOnce /\ Apart

(* global_files and the tables of the processes say the same: a file that  *)
(* is closed is in no table and nobody waits for it, no file is in two     *)
(* tables, and whoever has one is a live process.  Hand-overs, ends and    *)
(* the wait for the file system come in between.                           *)
OneOwner ==
  /\ \A f \in Files : f \notin open =>
       waiting[f] = <<>> /\ \A p \in Procs : ~Has(p, f)
  /\ \A p, q \in Procs : \A f \in Files : Has(p, f) /\ Has(q, f) => p = q
  /\ \A p \in Procs : \A f \in Files : Has(p, f) => state[p] \notin {"none", "freed"}

(* As long as the file system is up there are as many requests and answers *)
(* on the way as threads that wait for one: although the threads take each *)
(* other's answers, none waits for ever for an answer that does not come.  *)
Awaiting(condition) == IF condition THEN 1 ELSE 0
AnswersAreEnough ==
  fs = "up" =>
    Len(asked) + Len(answered)
      = Awaiting(main \in {"open", "create", "truncate"}) + Awaiting(handler # NULL)

(* The main loop comes back from every request: neither the wait of line   *)
(* 209 for the operations of files, refused and failed ones included, nor  *)
(* handle_fs taking the answers the main loop waits for, holds it for ever.*)
RequestsEnd ==
  main \in {"open", "create", "truncate", "drain"} ~> (main = "push" \/ ~Up)

(* To the processes a file is a lock with a fair queue.                    *)
HolderIn(opened, tables, f) ==
  IF f \notin opened THEN NULL
  ELSE IF \E p \in Procs : tables[p][f] # "closed"
    THEN CHOOSE p \in Procs : tables[p][f] # "closed"
    ELSE Gone
Holder(f) == HolderIn(open, local_files, f)
Locks == INSTANCE FileLocks WITH holder <- [f \in Files |-> Holder(f)]
ImplementsLocks == Locks!Spec

-----------------------------------------------------------------------------
(* A claim of the code's log that it does not keep.                        *)

(* handler_pcb.c:87: a process that handle_fs makes READY was BLOCKed.     *)
WokenFromBlock ==
  [][HandleAnswer => \A p \in Procs : state'[p] # state[p] => state[p] = "BLOCK"]_vars

(* The inductive invariant of the proofs.  What the main loop does with a  *)
(* PCB depends on the state it has at each place of the loop.              *)
Running ==
  main \in {"serve", "open", "create", "truncate", "drain"} => state[pcb] = "EXEC"
HandedPcb == main # "pick" => state[pcb] \notin {"none", "freed"}
NotOpenYet == main \in {"open", "create"} => file \notin open
ClosedIsFree == \A f \in Files : f \notin open => waiting[f] = <<>>
IInv ==
  /\ TypeOK /\ Running /\ HandedPcb /\ NotOpenYet /\ ClosedIsFree
  /\ AwaitedOnce /\ AnswersAreEnough /\ (OwnersClose => OneOwner)
=============================================================================
