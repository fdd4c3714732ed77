------------------------------- MODULE Kernel -------------------------------
(***************************************************************************)
(* The process core of the kernel: the console threads that bring          *)
(* processes in, the long-term scheduler they share with the main thread,  *)
(* the main loop (short-term scheduler, one round of CPU, the request the  *)
(* CPU comes back with), the I/O threads and the resources.                *)
(*                                                                         *)
(* Threads interleave between the steps below.  One operation of a list or *)
(* a queue of the commons library is one indivisible step, although the    *)
(* kernel takes no lock around it, and so is one read of the state of a    *)
(* PCB; whatever takes several of them takes several steps.  The mutex of  *)
(* the long-term scheduler is modelled as the code uses it.                *)
(***************************************************************************)
EXTENDS AlgorithmsKernel

CONSTANTS
  Procs,               \* the processes that may arrive, one console thread each
  Resources,           \* the resource names of the configuration
  Instances,           \* Instances[r]: INSTANCIAS_RECURSOS
  MaxMultiprogramming, \* GRADO_MAX_MULTIPROGRAMACION
  AlgorithmIsHrrn,     \* ALGORITMO_PLANIFICACION: TRUE for HRRN, FALSE for FIFO
  Ratios,              \* the response ratios HRRN may compute for a PCB
  Programs,            \* the sequences of requests that a console may submit
  Main,                \* the main thread
  NULL                 \* the null pointer

ASSUME MaxAssumption == MaxMultiprogramming \in Nat
ASSUME InstancesAssumption == Instances \in [Resources -> Nat]
ASSUME NullAssumption == NULL \notin Procs /\ Main \notin Procs /\ Main # NULL
ASSUME AlgorithmAssumption == AlgorithmIsHrrn \in BOOLEAN
ASSUME RatiosAssumption == Ratios \subseteq Nat \ {0}

(* What a process asks of the kernel when it leaves the CPU.  `arg' is the *)
(* resource of a WAIT or a SIGNAL; a name outside Resources is unknown.    *)
Ops == {"YIELD", "I_O", "WAIT", "SIGNAL", "EXIT"}
ASSUME ProgramsAssumption ==
  \A prog \in Programs :
    /\ prog \in Seq([op : Ops, arg : Resources \cup {NULL}])
    /\ Len(prog) > 0
    /\ \A k \in 1 .. Len(prog) : prog[k].op = "EXIT" <=> k = Len(prog)

(* NEW .. EXIT_PROCESS are the states of t_pcb; "none" is a process whose  *)
(* console has not connected, "freed" one after pcb_destroy.               *)
States == {"none", "NEW", "READY", "EXEC", "BLOCK", "EXIT_PROCESS", "freed"}
Threads == Procs \cup {Main}

VARIABLES
  kernel,               \* "up", or the way the kernel ended
  console,              \* console[p]: where the console thread of p is
  state,                \* pcb->state
  instructions,         \* the requests p will make, in order
  program_counter,      \* how many of them p has made
  io,                   \* the processes with a live handle_pcb_io thread
  new_pcbs,             \* the queue of NEW PCBs
  active_pcbs,          \* the queue of READY and BLOCKed PCBs
  available_instances, assigned_to, enqueued_processes,   \* the resources
  prioritized_pcb,      \* the PCB that runs next whatever the algorithm
  main,                 \* where the main thread is
  pcb,                  \* the PCB the main loop has in its hands
  next_pcb, highest_response_ratio, queue_temporal, queue_fifo,
                        \* the locals of pick_with_hrrn
  walked,               \* history: the PCBs it looked at, and their ratios
  long_term_scheduler_execution,  \* the mutex: its owner, or NULL
  lts,                  \* where its owner is inside long_term_schedule
  i,                    \* the index of its loop over the active queue
  visited,              \* the PCB it found there and has not tested yet
  held                  \* the PCB it has taken out of a queue

procVars == <<console, state, instructions, program_counter, io>>
queueVars == <<new_pcbs, active_pcbs, prioritized_pcb>>
resourceVars == <<available_instances, assigned_to, enqueued_processes>>
hrrnVars == <<next_pcb, highest_response_ratio, queue_temporal, queue_fifo, walked>>
mainVars == <<main, pcb, hrrnVars>>
ltsVars == <<long_term_scheduler_execution, lts, i, visited, held>>
vars == <<kernel, procVars, queueVars, resourceVars, mainVars, ltsVars>>

Init ==
  /\ kernel = "up"
  /\ console = [p \in Procs |-> "none"]
  /\ state = [p \in Procs |-> "none"]
  /\ instructions = [p \in Procs |-> <<>>]
  /\ program_counter = [p \in Procs |-> 0]
  /\ io = {}
  /\ new_pcbs = <<>> /\ active_pcbs = <<>> /\ prioritized_pcb = NULL
  /\ available_instances = Instances
  /\ assigned_to = [r \in Resources |-> NULL]
  /\ enqueued_processes = [r \in Resources |-> <<>>]
  /\ main = "pick" /\ pcb = NULL
  /\ next_pcb = NULL /\ highest_response_ratio = 0
  /\ queue_temporal = <<>> /\ queue_fifo = <<>> /\ walked = <<>>
  /\ long_term_scheduler_execution = NULL
  /\ lts = "idle" /\ i = 0 /\ visited = NULL /\ held = NULL

Up == kernel = "up"
Goto(next) == main' = next
Become(p, s) == state' = [state EXCEPT ![p] = s]

-----------------------------------------------------------------------------
(* The console threads.                                                    *)

(* socket_accept, pcb_new and the welcome message.                         *)
Connect(p) ==
  /\ Up /\ console[p] = "none"
  /\ console' = [console EXCEPT ![p] = "greeted"]
  /\ Become(p, "NEW")
  /\ UNCHANGED <<kernel, instructions, program_counter, io, queueVars,
                 resourceVars, mainVars, ltsVars>>

(* The console goes away before its program is in: the PCB is destroyed.   *)
HangUp(p) ==
  /\ Up /\ console[p] = "greeted"
  /\ console' = [console EXCEPT ![p] = "done"]
  /\ Become(p, "freed")
  /\ UNCHANGED <<kernel, instructions, program_counter, io, queueVars,
                 resourceVars, mainVars, ltsVars>>

(* The program arrives: the PCB joins the NEW queue and the thread goes    *)
(* for the long-term scheduler.  A package of another type is answered and *)
(* then decoded all the same, to whatever program that makes.              *)
Submit(p) ==
  /\ Up /\ console[p] = "greeted"
  /\ console' = [console EXCEPT ![p] = "schedule"]
  /\ \E prog \in Programs : instructions' = [instructions EXCEPT ![p] = prog]
  /\ new_pcbs' = Append(new_pcbs, p)
  /\ UNCHANGED <<kernel, state, program_counter, io, active_pcbs,
                 prioritized_pcb, resourceVars, mainVars, ltsVars>>

-----------------------------------------------------------------------------
(* resource_signal, on every resource of the set rs.  A resource with a    *)
(* queue goes to the head of the queue, which becomes READY; one without   *)
(* gets its instance back and loses its holder.                            *)
Contended(r) == enqueued_processes[r] # <<>>
Woken(rs) == {Head(enqueued_processes[r]) : r \in {q \in rs : Contended(q)}}

(* Fault: the instance is given back and handed over as well.              *)
InstancesGivenTwice(rs) ==
  [r \in Resources |-> IF r \in rs THEN available_instances[r] + 1
                                   ELSE available_instances[r]]

SignalledInstances(rs) ==
  [r \in Resources |-> IF r \in rs /\ ~Contended(r)
                         THEN available_instances[r] + 1
                         ELSE available_instances[r]]

(* Fault: the process that is woken is not recorded as the holder.         *)
HoldersDropped(rs) ==
  [r \in Resources |-> IF r \in rs THEN NULL ELSE assigned_to[r]]

(* Fault: line 62 forgotten, the last holder stays on record.              *)
HoldersKept(rs) ==
  [r \in Resources |-> IF r \in rs /\ Contended(r)
                         THEN Head(enqueued_processes[r])
                         ELSE assigned_to[r]]

SignalledHolders(rs) ==
  [r \in Resources |-> IF r \notin rs THEN assigned_to[r]
                       ELSE IF Contended(r) THEN Head(enqueued_processes[r])
                       ELSE NULL]

(* Fault: queue_peek for queue_pop.                                        *)
QueuesPeeked(rs) == enqueued_processes

SignalledQueues(rs) ==
  [r \in Resources |-> IF r \in rs /\ Contended(r)
                         THEN Tail(enqueued_processes[r])
                         ELSE enqueued_processes[r]]

ResourceSignal(rs) ==
  /\ available_instances' = SignalledInstances(rs)
  /\ assigned_to' = SignalledHolders(rs)
  /\ enqueued_processes' = SignalledQueues(rs)

Wake(s, rs) == [p \in Procs |-> IF p \in Woken(rs) THEN "READY" ELSE s[p]]

-----------------------------------------------------------------------------
(* long_term_schedule, run by the console threads and by the main thread.  *)

Calls(t) == IF t = Main THEN main = "schedule" ELSE console[t] = "schedule"

LtsLock(t) ==
  /\ Up /\ Calls(t) /\ long_term_scheduler_execution = NULL
  /\ long_term_scheduler_execution' = t
  /\ lts' = "test" /\ i' = 0
  /\ UNCHANGED <<kernel, procVars, queueVars, resourceVars, mainVars, visited, held>>

Runs(t, where) == Up /\ long_term_scheduler_execution = t /\ lts = where

(* Line 7, the test of the sweep loop.                                     *)
LtsTest(t) ==
  /\ Runs(t, "test")
  /\ lts' = IF i < Len(active_pcbs) THEN "visit" ELSE "admit"
  /\ UNCHANGED <<kernel, procVars, queueVars, resourceVars, mainVars,
                 long_term_scheduler_execution, i, visited, held>>

(* A list_get past the end of the list, which the main thread has made     *)
(* shorter since the test: it returns NULL, which is followed.             *)
LtsGetNull(t) ==
  /\ Runs(t, "visit") \/ Runs(t, "print")
  /\ i >= Len(active_pcbs)
  /\ kernel' = "null_pcb"
  /\ UNCHANGED <<procVars, queueVars, resourceVars, mainVars, ltsVars>>

(* Line 8, the list_get of the sweep.                                      *)
LtsVisit(t) ==
  /\ Runs(t, "visit") /\ i < Len(active_pcbs)
  /\ visited' = active_pcbs[i + 1]
  /\ lts' = "look"
  /\ UNCHANGED <<kernel, procVars, queueVars, resourceVars, mainVars,
                 long_term_scheduler_execution, i, held>>

(* Line 9, its test: whatever became of that PCB since, in the list or out *)
(* of it.                                                                  *)
LtsLookLive(t) ==
  /\ Runs(t, "look") /\ state[visited] # "EXIT_PROCESS"
  /\ lts' = "test" /\ i' = i + 1 /\ visited' = NULL
  /\ UNCHANGED <<kernel, procVars, queueVars, resourceVars, mainVars,
                 long_term_scheduler_execution, held>>

LtsLookFinished(t) ==
  /\ Runs(t, "look") /\ state[visited] = "EXIT_PROCESS"
  /\ lts' = "remove"
  /\ UNCHANGED <<kernel, procVars, queueVars, resourceVars, mainVars,
                 long_term_scheduler_execution, i, visited, held>>

(* The resources a finished PCB gives back: those assigned to it.  Fault:  *)
(* none of them.                                                           *)
ReleasedNone(p) == {}
Released(p) == {r \in Resources : assigned_to[r] = p}

(* Line 10, the list_remove: by the index, not by the PCB.                 *)
AtIndex == i < Len(active_pcbs) /\ active_pcbs[i + 1] = visited

(* A finished PCB leaves the list and gives its resources back.  The code  *)
(* also takes it out of every resource queue: a finished PCB is in none    *)
(* (EXIT_PROCESS is only set on the PCB that was running), so there is     *)
(* nothing to remove; NoLostWakeup checks it.                              *)
LtsRemove(t) ==
  /\ Runs(t, "remove") /\ AtIndex
  /\ held' = visited /\ visited' = NULL
  /\ active_pcbs' = RemoveAt(active_pcbs, i + 1)
  /\ ResourceSignal(Released(visited))
  /\ state' = Wake(state, Released(visited))
  /\ lts' = "reap"
  /\ UNCHANGED <<kernel, console, instructions, program_counter, io, new_pcbs,
                 prioritized_pcb, mainVars, long_term_scheduler_execution, i>>

(* The main thread has picked, run and ended that PCB since line 8, and    *)
(* the list has another one at the index, or none: that one is taken out   *)
(* and lost, and the PCB that is then destroyed is, or is about to be, in  *)
(* the active queue.  The kernel goes on in memory that was freed: nothing *)
(* is said of it from here on.                                             *)
LtsRemoveOther(t) ==
  /\ Runs(t, "remove") /\ ~AtIndex
  /\ kernel' = "wrong_pcb"
  /\ active_pcbs' = IF i < Len(active_pcbs) THEN RemoveAt(active_pcbs, i + 1)
                                           ELSE active_pcbs
  /\ UNCHANGED <<procVars, new_pcbs, prioritized_pcb, resourceVars, mainVars, ltsVars>>

(* MEM_END_PROCCESS answered, the PCB is destroyed and the sweep goes on   *)
(* with the next index.                                                    *)
LtsReap(t) ==
  /\ Runs(t, "reap")
  /\ Become(held, "freed")
  /\ lts' = "test" /\ i' = i + 1 /\ held' = NULL
  /\ UNCHANGED <<kernel, console, instructions, program_counter, io, queueVars,
                 resourceVars, mainVars, long_term_scheduler_execution, visited>>

(* Faults of the admission test, for the mutants of the properties.        *)
CanAdmitOneMore == Len(active_pcbs) <= MaxMultiprogramming /\ new_pcbs # <<>>
CanAdmitOneLess == Len(active_pcbs) + 1 < MaxMultiprogramming /\ new_pcbs # <<>>

(* Line 49: the running PCB is not in the active queue and is not counted. *)
CanAdmit == Len(active_pcbs) < MaxMultiprogramming /\ new_pcbs # <<>>

LtsAdmit(t) ==
  /\ Runs(t, "admit") /\ CanAdmit
  /\ held' = Head(new_pcbs) /\ new_pcbs' = Tail(new_pcbs)
  /\ Become(Head(new_pcbs), "READY")
  /\ lts' = "init"
  /\ UNCHANGED <<kernel, console, instructions, program_counter, io,
                 active_pcbs, prioritized_pcb, resourceVars, mainVars,
                 long_term_scheduler_execution, i, visited>>

LtsNothingToAdmit(t) ==
  /\ Runs(t, "admit") /\ ~CanAdmit
  /\ lts' = "show" /\ i' = 0
  /\ UNCHANGED <<kernel, procVars, queueVars, resourceVars, mainVars,
                 long_term_scheduler_execution, visited, held>>

(* MEM_INIT_PROCESS answered, the PCB joins the active queue.              *)
LtsInit(t) ==
  /\ Runs(t, "init")
  /\ active_pcbs' = Append(active_pcbs, held)
  /\ lts' = "show" /\ i' = 0 /\ held' = NULL
  /\ UNCHANGED <<kernel, procVars, new_pcbs, prioritized_pcb, resourceVars, mainVars,
                 long_term_scheduler_execution, visited>>

(* show_queue_ready, which reads the size and then the PCB in each round,  *)
(* as the sweep does.                                                      *)
LtsShow(t) ==
  /\ Runs(t, "show") /\ i < Len(active_pcbs)
  /\ lts' = "print"
  /\ UNCHANGED <<kernel, procVars, queueVars, resourceVars, mainVars,
                 long_term_scheduler_execution, i, visited, held>>

LtsPrint(t) ==
  /\ Runs(t, "print") /\ i < Len(active_pcbs)
  /\ lts' = "show" /\ i' = i + 1
  /\ UNCHANGED <<kernel, procVars, queueVars, resourceVars, mainVars,
                 long_term_scheduler_execution, visited, held>>

(* A console thread ends, the main thread goes back to its loop.           *)
LtsUnlock(t) ==
  /\ Runs(t, "show") /\ i >= Len(active_pcbs)
  /\ long_term_scheduler_execution' = NULL
  /\ lts' = "idle" /\ i' = 0
  /\ IF t = Main
       THEN Goto("pick") /\ pcb' = NULL /\ UNCHANGED <<console, hrrnVars>>
       ELSE console' = [console EXCEPT ![t] = "done"] /\ UNCHANGED mainVars
  /\ UNCHANGED <<kernel, state, instructions, program_counter, io, queueVars,
                 resourceVars, visited, held>>

(* Memory does not answer either request as expected: abort().             *)
LtsAbort(t) ==
  /\ Runs(t, "reap") \/ Runs(t, "init")
  /\ kernel' = "aborted"
  /\ UNCHANGED <<procVars, queueVars, resourceVars, mainVars, ltsVars>>

Lts(t) ==
  \/ LtsLock(t) \/ LtsTest(t) \/ LtsGetNull(t)
  \/ LtsVisit(t) \/ LtsLookLive(t) \/ LtsLookFinished(t)
  \/ LtsRemove(t) \/ LtsRemoveOther(t) \/ LtsReap(t)
  \/ LtsAdmit(t) \/ LtsNothingToAdmit(t) \/ LtsInit(t)
  \/ LtsShow(t) \/ LtsPrint(t) \/ LtsUnlock(t)

-----------------------------------------------------------------------------
(* The main loop.                                                          *)

(* The PCB chosen by short_term_scheduler goes to the CPU.                 *)
Dispatch(p) ==
  /\ pcb' = p
  /\ Become(p, "EXEC")
  /\ Goto("cpu")
  /\ UNCHANGED <<kernel, console, instructions, program_counter, io, new_pcbs,
                 resourceVars, ltsVars>>

Ready == {p \in Procs : state[p] = "READY"}

(* Line 80, and the fault of leaving it out.                               *)
KeepPrioritized == UNCHANGED prioritized_pcb
ForgetPrioritized == prioritized_pcb' = NULL

PickPrioritized ==
  /\ Up /\ main = "pick" /\ prioritized_pcb # NULL
  /\ \/ \E k \in 1 .. Len(active_pcbs) :
          /\ IsFirst(active_pcbs, {prioritized_pcb}, k)
          /\ active_pcbs' = RemoveAt(active_pcbs, k)
     \/ /\ \A k \in 1 .. Len(active_pcbs) : active_pcbs[k] # prioritized_pcb
        /\ UNCHANGED active_pcbs
  /\ ForgetPrioritized
  /\ Dispatch(prioritized_pcb)
  /\ UNCHANGED hrrnVars

PickWithFifo ==
  /\ Up /\ main = "pick" /\ prioritized_pcb = NULL /\ ~AlgorithmIsHrrn
  /\ \E p \in Ready : PickFifo(active_pcbs, Ready, p, active_pcbs') /\ Dispatch(p)
  /\ UNCHANGED <<prioritized_pcb, hrrnVars>>

-----------------------------------------------------------------------------
(* pick_with_hrrn: it empties the active queue into two others, keeps the  *)
(* best PCB, and fills it again, with no lock: the long-term scheduler     *)
(* finds the queue, and counts it, at any length on the way.               *)

InHrrn(where) == Up /\ main = where /\ UNCHANGED <<kernel, prioritized_pcb, ltsVars>>

(* Lines 17-24: an empty queue gives NULL, a queue of one is a case of its *)
(* own, any other is walked.                                               *)
HrrnStart ==
  /\ InHrrn("pick") /\ AlgorithmIsHrrn /\ prioritized_pcb = NULL
  /\ active_pcbs # <<>>
  /\ Goto(IF Len(active_pcbs) = 1 THEN "only" ELSE "drain")
  /\ UNCHANGED <<procVars, new_pcbs, active_pcbs, resourceVars, pcb, hrrnVars>>

(* Lines 19-20.  The PCB is still there: nobody else takes one that has    *)
(* not ended out of the queue.                                             *)
HrrnOnly ==
  /\ InHrrn("only") /\ active_pcbs # <<>>
  /\ LET p == Head(active_pcbs) IN
     IF p \in Ready
       THEN active_pcbs' = Tail(active_pcbs) /\ Dispatch(p)
       ELSE /\ Goto("pick")
            /\ UNCHANGED <<procVars, new_pcbs, active_pcbs, resourceVars, pcb>>
  /\ UNCHANGED hrrnVars

(* Lines 51-54: a best PCB that is beaten goes to the temporary queue when *)
(* it is READY.  Fault: never.                                             *)
PassOverNever == queue_temporal
PassOver ==
  IF next_pcb \in Ready THEN Append(queue_temporal, next_pcb) ELSE queue_temporal

(* Line 47.  Fault: a tie goes to the later PCB.                           *)
BeatsOrTies(ratio) == ratio >= highest_response_ratio
Beats(ratio) == ratio > highest_response_ratio

(* One round of the loop of lines 40-68.  The ratio depends on the clock   *)
(* and on the burst estimates: any ratio.                                  *)
HrrnWalk(ratio) ==
  /\ InHrrn("drain") /\ active_pcbs # <<>>
  /\ LET p == Head(active_pcbs) IN
     /\ \/ /\ Beats(ratio)
           /\ highest_response_ratio' = ratio /\ next_pcb' = p
           /\ queue_temporal' = PassOver
           /\ UNCHANGED queue_fifo
        \/ /\ ~Beats(ratio) /\ ratio = highest_response_ratio
           /\ queue_fifo' = Append(queue_fifo, p)
           /\ UNCHANGED <<highest_response_ratio, next_pcb, queue_temporal>>
        \/ /\ ratio < highest_response_ratio
           /\ queue_temporal' = Append(queue_temporal, p)
           /\ UNCHANGED <<highest_response_ratio, next_pcb, queue_fifo>>
     /\ walked' = Append(walked, [pcb |-> p, ratio |-> ratio])
  /\ active_pcbs' = Tail(active_pcbs)
  /\ UNCHANGED <<procVars, new_pcbs, resourceVars, main, pcb>>

(* Lines 70-74, once the active queue is empty.                            *)
HrrnWalked ==
  /\ InHrrn("drain") /\ active_pcbs = <<>>
  /\ queue_temporal' = queue_temporal \o queue_fifo /\ queue_fifo' = <<>>
  /\ Goto("refill")
  /\ UNCHANGED <<procVars, new_pcbs, active_pcbs, resourceVars, pcb, next_pcb,
                 highest_response_ratio, walked>>

(* One round of lines 77-82.                                               *)
HrrnRefill ==
  /\ InHrrn("refill") /\ queue_temporal # <<>>
  /\ active_pcbs' = Append(active_pcbs, Head(queue_temporal))
  /\ queue_temporal' = Tail(queue_temporal)
  /\ UNCHANGED <<procVars, new_pcbs, resourceVars, main, pcb, next_pcb,
                 highest_response_ratio, queue_fifo, walked>>

(* Lines 92-98: the best PCB, if it is READY.                              *)
HrrnReturn ==
  /\ InHrrn("refill") /\ queue_temporal = <<>>
  /\ IF next_pcb \in Ready
       THEN Dispatch(next_pcb)
       ELSE Goto("pick") /\ UNCHANGED <<procVars, new_pcbs, resourceVars, pcb>>
  /\ next_pcb' = NULL /\ highest_response_ratio' = 0 /\ walked' = <<>>
  /\ UNCHANGED <<active_pcbs, queue_temporal, queue_fifo>>

PickWithHrrn ==
  \/ HrrnStart \/ HrrnOnly
  \/ \E ratio \in Ratios : HrrnWalk(ratio)
  \/ HrrnWalked \/ HrrnRefill \/ HrrnReturn

-----------------------------------------------------------------------------
(* The CPU goes away: the main thread leaves its loop and the program      *)
(* ends, with every other thread in it.                                    *)
CpuLost ==
  /\ Up /\ main = "cpu"
  /\ kernel' = "stopped"
  /\ UNCHANGED <<procVars, queueVars, resourceVars, mainVars, ltsVars>>

(* The CPU returns pcb with its next request.                              *)
Request == instructions[pcb][program_counter[pcb] + 1]
Serve(op) ==
  /\ Up /\ main = "cpu" /\ Request.op = op
  /\ program_counter' = [program_counter EXCEPT ![pcb] = @ + 1]
  /\ Goto("push")
  /\ UNCHANGED <<console, instructions, pcb, hrrnVars, new_pcbs, active_pcbs, ltsVars>>

Yield ==
  /\ Serve("YIELD")
  /\ UNCHANGED <<kernel, state, io, prioritized_pcb, resourceVars>>

InputOutput ==
  /\ Serve("I_O")
  /\ Become(pcb, "BLOCK")
  /\ io' = io \cup {pcb}
  /\ UNCHANGED <<kernel, prioritized_pcb, resourceVars>>

(* resource_get ends a process that names no resource.                     *)
UnknownResource ==
  /\ \E op \in {"WAIT", "SIGNAL"} : Serve(op)
  /\ Request.arg \notin Resources
  /\ Become(pcb, "EXIT_PROCESS")
  /\ UNCHANGED <<kernel, io, prioritized_pcb, resourceVars>>

(* Line 287.  Fault: one instance is kept back.                            *)
CanTakeSpare(r) == available_instances[r] > 1
CanTake(r) == available_instances[r] > 0

WaitGranted ==
  /\ Serve("WAIT") /\ Request.arg \in Resources /\ CanTake(Request.arg)
  /\ assigned_to' = [assigned_to EXCEPT ![Request.arg] = pcb]
  /\ available_instances' = [available_instances EXCEPT ![Request.arg] = @ - 1]
  /\ prioritized_pcb' = pcb
  /\ UNCHANGED <<kernel, state, io, enqueued_processes>>

WaitBlocked ==
  /\ Serve("WAIT") /\ Request.arg \in Resources /\ ~CanTake(Request.arg)
  /\ Become(pcb, "BLOCK")
  /\ enqueued_processes' = [enqueued_processes EXCEPT ![Request.arg] = Append(@, pcb)]
  /\ UNCHANGED <<kernel, io, prioritized_pcb, available_instances, assigned_to>>

(* resource_signal reads assigned_to->pid when nobody waits: with no       *)
(* holder either that is a read through NULL.                              *)
SignalNull(r) == ~Contended(r) /\ assigned_to[r] = NULL

Signal ==
  /\ Serve("SIGNAL") /\ Request.arg \in Resources
  /\ kernel' = IF SignalNull(Request.arg) THEN "null_holder" ELSE kernel
  /\ prioritized_pcb' = pcb
  /\ ResourceSignal({Request.arg})
  /\ state' = Wake(state, {Request.arg})
  /\ UNCHANGED io

Exit ==
  /\ Serve("EXIT")
  /\ Become(pcb, "EXIT_PROCESS")
  /\ UNCHANGED <<kernel, io, prioritized_pcb, resourceVars>>

(* Line 322: whatever it asked for, the PCB joins the active queue.        *)
Push ==
  /\ Up /\ main = "push"
  /\ active_pcbs' = Append(active_pcbs, pcb)
  /\ Goto("settle")
  /\ UNCHANGED <<kernel, procVars, new_pcbs, prioritized_pcb, resourceVars,
                 pcb, hrrnVars, ltsVars>>

(* Lines 323-326: a PCB still in EXEC becomes READY.                       *)
(* Fault: the test of line 323 forgotten.                                  *)
SettledAlways(p) == IF state[p] = "freed" THEN "freed" ELSE "READY"
Settled(p) == IF state[p] = "EXEC" THEN "READY" ELSE state[p]

(* What the test of line 327 finds.  The PCB is in the active queue, where *)
(* the sweep of a console thread may have destroyed it: then it is         *)
(* whatever the freed memory holds.  Fault: the test is forgotten.         *)
FoundUnfinished(p) == {FALSE}
FoundFinished(p) ==
  IF state[p] = "freed" THEN BOOLEAN ELSE {state[p] = "EXIT_PROCESS"}

Settle ==
  /\ Up /\ main = "settle"
  /\ Become(pcb, Settled(pcb))
  /\ \/ TRUE \in FoundFinished(pcb) /\ Goto("schedule") /\ UNCHANGED pcb
     \/ FALSE \in FoundFinished(pcb) /\ Goto("pick") /\ pcb' = NULL
  /\ UNCHANGED <<kernel, console, instructions, program_counter, io, queueVars,
                 resourceVars, hrrnVars, ltsVars>>

Serving ==
  \/ Yield \/ InputOutput \/ UnknownResource \/ WaitGranted \/ WaitBlocked
  \/ Signal \/ Exit

-----------------------------------------------------------------------------
(* handle_pcb_io after its sleep.                                          *)
IoDone(p) ==
  /\ Up /\ p \in io
  /\ Become(p, "READY")
  /\ io' = io \ {p}
  /\ UNCHANGED <<kernel, console, instructions, program_counter, queueVars,
                 resourceVars, mainVars, ltsVars>>

Next ==
  \/ \E p \in Procs : Connect(p) \/ HangUp(p) \/ Submit(p) \/ IoDone(p)
  \/ \E t \in Threads : Lts(t) \/ LtsAbort(t)
  \/ PickPrioritized \/ PickWithFifo \/ PickWithHrrn
  \/ CpuLost \/ Serving \/ Push \/ Settle

Spec == Init /\ [][Next]_vars

(* Every thread keeps running: the main loop, the I/O threads (a sleep     *)
(* ends), and a thread that waits for the mutex, which every other thread  *)
(* takes once per process at most.  Consoles owe nothing, and neither the  *)
(* CPU nor memory has to fail.                                             *)
Fairness ==
  /\ WF_vars(PickPrioritized \/ PickWithFifo \/ PickWithHrrn)
  /\ WF_vars(Serving) /\ WF_vars(Push) /\ WF_vars(Settle)
  /\ \A t \in Threads : WF_vars(Lts(t))
  /\ \A p \in Procs : WF_vars(IoDone(p))

FairSpec == Spec /\ Fairness

-----------------------------------------------------------------------------
(* Type correctness of the kernel state.                                   *)
TypeOK ==
  /\ kernel \in {"up", "stopped", "aborted", "null_pcb", "null_holder", "wrong_pcb"}
  /\ console \in [Procs -> {"none", "greeted", "schedule", "done"}]
  /\ state \in [Procs -> States]
  /\ instructions \in [Procs -> Programs \cup {<<>>}]
  /\ program_counter \in [Procs -> Nat]
  /\ io \subseteq Procs
  /\ new_pcbs \in Seq(Procs)
  /\ active_pcbs \in Seq(Procs)
  /\ prioritized_pcb \in Procs \cup {NULL}
  /\ available_instances \in [Resources -> Nat]
  /\ assigned_to \in [Resources -> Procs \cup {NULL}]
  /\ enqueued_processes \in [Resources -> Seq(Procs)]
  /\ main \in {"pick", "only", "drain", "refill", "cpu", "push", "settle", "schedule"}
  /\ pcb \in Procs \cup {NULL}
  /\ main \in {"cpu", "push", "settle", "schedule"} => pcb # NULL
  /\ next_pcb \in Procs \cup {NULL}
  /\ highest_response_ratio \in Nat
  /\ queue_temporal \in Seq(Procs) /\ queue_fifo \in Seq(Procs)
  /\ walked \in Seq([pcb : Procs, ratio : Ratios])
  /\ long_term_scheduler_execution \in Threads \cup {NULL}
  /\ lts \in {"idle", "test", "visit", "look", "remove", "reap", "admit", "init",
             "show", "print"}
  /\ long_term_scheduler_execution = NULL <=> lts = "idle"
  /\ i \in Nat
  /\ visited \in Procs \cup {NULL}
  /\ visited # NULL <=> lts \in {"look", "remove"}
  /\ held \in Procs \cup {NULL}
  /\ held # NULL <=> lts \in {"reap", "init"}

(* The PCBs that pick_with_hrrn has in its hands.                          *)
Walking == IF next_pcb = NULL THEN <<>> ELSE <<next_pcb>>
InHands == queue_temporal \o queue_fifo \o Walking

(* The PCBs the kernel has admitted and not destroyed: those of the active *)
(* queue, those that HRRN has in its hands, the one in the CPU and the one *)
(* being admitted.                                                         *)
InCpu == main \in {"cpu", "push"}
Degree ==
  Len(active_pcbs) + Len(InHands) + (IF InCpu THEN 1 ELSE 0)
    + (IF lts = "init" THEN 1 ELSE 0)

(* scheduler.c:49: admission counts the active queue only, and while it    *)
(* waits for memory the main loop may push the running PCB back: with FIFO *)
(* the degree of multiprogramming stays within one of the configured       *)
(* maximum whatever the interleaving of the main loop with the long-term   *)
(* scheduler.  With HRRN it does not: the queue is counted while it is     *)
(* being walked.                                                           *)
MultiprogrammingBound == Degree <= MaxMultiprogramming + 1

(* The places of the kernel that hold PCB p.                               *)
Positions(queue, p) == {k \in 1 .. Len(queue) : queue[k] = p}
Places(p) ==
  ({"new"} \X Positions(new_pcbs, p)) \cup ({"active"} \X Positions(active_pcbs, p))
  \cup ({"hrrn"} \X Positions(InHands, p))
  \cup {x \in {<<"cpu", 0>>} : InCpu /\ pcb = p}
  \cup {x \in {<<"lts", 0>>} : held = p}

Submitted(p) == console[p] \in {"schedule", "done"} /\ instructions[p] # <<>>
Live(p) == Submitted(p) /\ state[p] # "freed"

(* Every process that is in the system and not destroyed is in exactly one *)
(* place, between all the hands-over of the threads, so it is neither lost *)
(* nor run twice, and a destroyed one is in none; unless the sweep has     *)
(* taken out another PCB than the one it tested (scheduler.c:8-10).        *)
PcbInOnePlace ==
  kernel # "wrong_pcb" => \A p \in Procs : Cardinality(Places(p)) = IF Live(p) THEN 1 ELSE 0

(* What will wake p: its I/O thread, and each position it has in the queue *)
(* of a resource.                                                          *)
Wakers(p) ==
  {x \in {<<"io", 0>>} : p \in io}
  \cup UNION {{r} \X Positions(enqueued_processes[r], p) : r \in Resources}

(* A BLOCKed process has exactly one thing that will wake it, and a        *)
(* process that is not BLOCKed has none: no wakeup is lost or left over    *)
(* for a later state, whatever becomes of the process that held the        *)
(* resource.                                                               *)
NoLostWakeup ==
  \A p \in Procs : Cardinality(Wakers(p)) = IF state[p] = "BLOCK" THEN 1 ELSE 0

(* Nobody waits for a resource that has a free instance.                   *)
NobodyWaitsForAFreeInstance ==
  \A r \in Resources : Contended(r) => available_instances[r] = 0

(* The instances of r that p has, from the requests it made: WAITs that    *)
(* did not leave it in the queue, less SIGNALs.                            *)
Asked(prog, n, op, r) ==
  Cardinality({k \in 1 .. n : prog[k] = [op |-> op, arg |-> r]})
Made(p, op, r) == Asked(instructions[p], program_counter[p], op, r)
Returned(p) == state[p] = "freed" \/ (lts = "reap" /\ held = p)
Has(p, r) ==
  IF Returned(p) THEN 0
  ELSE Made(p, "WAIT", r) - Cardinality(Positions(enqueued_processes[r], p))
       - Made(p, "SIGNAL", r)

(* Every instance of a resource is free or has been granted to a process,  *)
(* and the books balance in every step whatever the programs ask: WAIT,    *)
(* SIGNAL and the hand-over to a waiter neither make an instance nor lose  *)
(* one.  Only the end of a process does, and by this much: what it had,    *)
(* less the one instance given back if it is the holder on record.         *)
Total(r) == available_instances[r] + SumFunction([p \in Procs |-> Has(p, r)])
Ends(p) == ~Returned(p) /\ Returned(p)'
Due(p, r) == IF assigned_to[r] = p THEN 1 ELSE 0
InstancesAreAccounted ==
  [][\A r \in Resources :
       \/ Total(r)' = Total(r) /\ \A p \in Procs : ~Ends(p)
       \/ \E p \in Procs : Ends(p) /\ Total(r)' + Has(p, r) = Total(r) + Due(p, r)]_vars

(* A resource of one instance that nobody has, so far, signalled more      *)
(* often than it asked for it.                                             *)
Tidy(r) ==
  /\ Instances[r] <= 1
  /\ \A p \in Procs : \A n \in 1 .. program_counter[p] :
       Asked(instructions[p], n, "SIGNAL", r) <= Asked(instructions[p], n, "WAIT", r)

(* The instance of a tidy resource is conserved: it is free, or one        *)
(* process has it, across WAIT, SIGNAL, hand-over to a waiter and the end  *)
(* of the process that has it, whatever becomes of the other resources.    *)
ResourceConservation == \A r \in Resources : Tidy(r) => Total(r) = Instances[r]

(* kernel_utils.c:61: resource_signal follows assigned_to when nobody      *)
(* waits.  It goes through NULL only for a resource of several instances,  *)
(* or one that somebody signalled without having taken it, the last SIGNAL *)
(* counted: the process that a SIGNAL or the end of another process wakes  *)
(* is the holder on record by the time it signals itself.                  *)
LastRequest == instructions[pcb][program_counter[pcb]]
EverySignalHasAHolder == kernel = "null_holder" => ~Tidy(LastRequest.arg)

(* A destroyed PCB is nowhere the kernel would follow a pointer to it.     *)
NoDanglingPcb ==
  \A p \in Procs :
    state[p] = "freed" =>
      /\ p # prioritized_pcb /\ p \notin io
      /\ \A r \in Resources : assigned_to[r] # p /\ Positions(enqueued_processes[r], p) = {}

(* Between two rounds the prioritized PCB is READY and in the active       *)
(* queue: short_term_scheduler returns it without looking.                 *)
PrioritizedIsReady ==
  prioritized_pcb # NULL /\ main = "pick" =>
    state[prioritized_pcb] = "READY" /\ Positions(active_pcbs, prioritized_pcb) # {}

(* No room is wasted: whenever nobody is inside the long-term scheduler    *)
(* and the degree is below the maximum, each NEW process has a call of the *)
(* scheduler still to come, although a call admits one process at most and *)
(* a process that ends may have been swept by somebody else's call.        *)
NoRoomWasted ==
  lts = "idle" /\ Degree < MaxMultiprogramming =>
    Len(new_pcbs) <= Cardinality({t \in Threads : Calls(t)})

(* A finished PCB waits for its sweep only while the main thread waits for *)
(* the mutex or sweeps: the sweep of a console thread, which gives         *)
(* resources back with no lock the main thread takes, never falls in the   *)
(* middle of the WAIT or the SIGNAL of another process.                    *)
FinishedStopTheMainLoop ==
  \A k \in 1 .. Len(active_pcbs) :
    state[active_pcbs[k]] = "EXIT_PROCESS" => main \in {"settle", "schedule"}

(* A process that is to end is never scheduled again: from EXIT_PROCESS    *)
(* the only way is pcb_destroy.                                            *)
ExitIsFinal ==
  [][\A p \in Procs : state[p] = "EXIT_PROCESS" =>
       state'[p] \in {"EXIT_PROCESS", "freed"}]_vars

(* A READY PCB that is in the active queue or in the hands of HRRN stays   *)
(* in one of the two until it runs, wherever the BLOCKed PCBs stand in the *)
(* queue, whoever is admitted in the middle of the walk and even when      *)
(* nobody is taken (algorithms_kernel.c:40-82).                            *)
AmongActive(p) == Contains(active_pcbs \o InHands, p)
HrrnKeepsReady ==
  [][kernel' # "wrong_pcb" =>
       \A p \in Ready : AmongActive(p) => AmongActive(p)' \/ state'[p] = "EXEC"]_vars

(* HRRN is what its name says: the PCB it runs has the highest ratio of    *)
(* those it looked at, and is the first of them that has it.               *)
HrrnPicksTheBest ==
  [][HrrnReturn /\ main' = "cpu" =>
       \E k \in DOMAIN walked :
         /\ walked[k].pcb = pcb'
         /\ \A j \in DOMAIN walked :
              /\ walked[j].ratio <= walked[k].ratio
              /\ walked[j].ratio = walked[k].ratio => k <= j]_vars

(* scheduler.c:6: the sweep takes out the PCBs that have ended.            *)
SweepRemovesFinished ==
  [][\A t \in Threads : LtsRemove(t) \/ LtsRemoveOther(t) =>
       \A p \in ToSet(active_pcbs) \ ToSet(active_pcbs') : state[p] = "EXIT_PROCESS"]_vars

(* Every process whose program came in ends, unless the kernel does, or    *)
(* the sweep takes out another PCB than the one it tested.                 *)
SubmittedEnds ==
  \A p \in Procs : Submitted(p) ~> (state[p] = "freed" \/ ~Up)

=============================================================================
