--------------------------- MODULE KernelInvariant ---------------------------
(***************************************************************************)
(* The inductive invariants behind the theorems of KernelProofs.           *)
(*                                                                         *)
(* NoLostWakeup and ExitIsFinal are not inductive: that a wakeup reaches a *)
(* BLOCKed process, and that nothing moves a finished one, rests on which  *)
(* state a PCB has in each place a thread can reach it from.               *)
(***************************************************************************)
EXTENDS Kernel

(* A console thread that has not submitted yet has a PCB nobody else has.  *)
Consoles ==
  \A p \in Procs :
    /\ console[p] = "none" => state[p] = "none"
    /\ console[p] = "greeted" => state[p] = "NEW"

(* The NEW queue holds NEW PCBs of consoles that have submitted, once each.*)
NewQueue ==
  /\ \A k \in 1 .. Len(new_pcbs) :
       /\ state[new_pcbs[k]] = "NEW"
       /\ console[new_pcbs[k]] \in {"schedule", "done"}
  /\ \A k, l \in 1 .. Len(new_pcbs) : new_pcbs[k] = new_pcbs[l] => k = l

(* Whoever waits, in an I/O thread or in the queue of a resource, is       *)
(* BLOCKed, and waits there once and nowhere else.                         *)
WaitingAreBlocked ==
  /\ \A p \in io :
       /\ state[p] = "BLOCK"
       /\ \A r \in Resources : \A k \in 1 .. Len(enqueued_processes[r]) :
            enqueued_processes[r][k] # p
  /\ \A r \in Resources : \A k \in 1 .. Len(enqueued_processes[r]) :
       state[enqueued_processes[r][k]] = "BLOCK"
  /\ \A r, q \in Resources :
       \A k \in 1 .. Len(enqueued_processes[r]), l \in 1 .. Len(enqueued_processes[q]) :
         enqueued_processes[r][k] = enqueued_processes[q][l] => r = q /\ k = l

(* Whoever is BLOCKed waits somewhere.                                     *)
BlockedAreWaiting ==
  \A p \in Procs :
    state[p] = "BLOCK" =>
      \/ p \in io
      \/ \E r \in Resources : \E k \in 1 .. Len(enqueued_processes[r]) :
           enqueued_processes[r][k] = p

(* The PCB in the CPU is in EXEC, and nobody is prioritized meanwhile, nor *)
(* while HRRN chooses; afterwards nobody else is.                          *)
Hrrn == {"only", "drain", "refill"}
Running ==
  /\ main = "cpu" => state[pcb] = "EXEC"
  /\ main \in Hrrn \cup {"cpu"} => prioritized_pcb = NULL
  /\ main \in {"push", "settle", "schedule"} => prioritized_pcb \in {NULL, pcb}

(* The prioritized PCB is READY, or the main loop is about to make it so.  *)
Prioritized ==
  prioritized_pcb # NULL =>
    \/ state[prioritized_pcb] = "READY"
    \/ /\ main \in {"push", "settle"} /\ prioritized_pcb = pcb
       /\ state[pcb] = "EXEC"

(* The prioritized PCB is in the active queue, or about to join it: the    *)
(* main loop takes it from there without growing the degree.               *)
PrioritizedIsActive ==
  kernel # "wrong_pcb" /\ prioritized_pcb # NULL =>
    \/ main = "push" /\ prioritized_pcb = pcb
    \/ \E k \in 1 .. Len(active_pcbs) : active_pcbs[k] = prioritized_pcb

(* The sweep removes and destroys finished PCBs.                           *)
Reaping ==
  /\ lts = "remove" => state[visited] = "EXIT_PROCESS"
  /\ lts = "reap" => state[held] = "EXIT_PROCESS"

(* The owner of the mutex is a thread that is calling the scheduler.       *)
OwnerCalls ==
  long_term_scheduler_execution # NULL => Calls(long_term_scheduler_execution)

(* HRRN has PCBs in its hands only while it walks, and the best of those   *)
(* it has looked at is the first that has the highest ratio.               *)
HandsFull ==
  /\ main \in Hrrn => AlgorithmIsHrrn
  /\ main \notin {"drain", "refill"} => queue_temporal = <<>> /\ walked = <<>>
  /\ main # "drain" => queue_fifo = <<>>
BestAt(k) ==
  /\ walked[k].pcb = next_pcb /\ walked[k].ratio = highest_response_ratio
  /\ \A j \in 1 .. Len(walked) :
       /\ walked[j].ratio <= walked[k].ratio
       /\ walked[j].ratio = walked[k].ratio => k <= j
BestSoFar ==
  IF walked = <<>> THEN next_pcb = NULL /\ highest_response_ratio = 0
  ELSE \E k \in 1 .. Len(walked) : BestAt(k)

(* The invariant, inductive with either algorithm.                         *)
IInv ==
  /\ TypeOK /\ Consoles /\ NewQueue /\ WaitingAreBlocked /\ BlockedAreWaiting
  /\ Running /\ Prioritized /\ PrioritizedIsActive /\ Reaping
  /\ OwnerCalls /\ HandsFull /\ BestSoFar

-----------------------------------------------------------------------------
(* Where the PCBs are: PcbInOnePlace without its cardinalities.  Of those  *)
(* in `lost' it is not said that they are anywhere.                        *)
OnCpu(p) == InCpu /\ pcb = p
InQueues(p) == Contains(queue_temporal, p) \/ Contains(queue_fifo, p)
Somewhere(p) ==
  \/ Contains(new_pcbs, p) \/ Contains(active_pcbs, p)
  \/ InQueues(p) \/ next_pcb = p \/ OnCpu(p) \/ held = p

Placed(lost) ==
  /\ IsInjective(active_pcbs) /\ IsInjective(queue_temporal) /\ IsInjective(queue_fifo)
  /\ \A p \in Procs :
       /\ Live(p) => Somewhere(p) \/ p \in lost
       /\ Somewhere(p) => Live(p)
       /\ Contains(new_pcbs, p) =>
            ~Contains(active_pcbs, p) /\ ~InQueues(p) /\ next_pcb # p /\ ~OnCpu(p) /\ held # p
       /\ Contains(active_pcbs, p) =>
            ~InQueues(p) /\ next_pcb # p /\ ~OnCpu(p) /\ held # p
       /\ Contains(queue_temporal, p) => ~Contains(queue_fifo, p)
       /\ InQueues(p) => next_pcb # p /\ held # p
       /\ next_pcb = p => held # p
       /\ OnCpu(p) => held # p
OnePlace == kernel # "wrong_pcb" => Placed({})

(* A finished PCB is the one the main loop has just run, or the one the    *)
(* sweep is about to destroy.                                              *)
Ending ==
  \A p \in Procs : state[p] = "EXIT_PROCESS" =>
    \/ pcb = p /\ main \in {"push", "settle", "schedule"}
    \/ lts = "reap" /\ held = p

(* The PCB on its way into the active queue is READY.                      *)
Admitting == lts = "init" => state[held] = "READY"

(* The holder of a resource is in the system, and once its sweep has begun *)
(* it holds nothing.                                                       *)
Holders ==
  \A r \in Resources :
    assigned_to[r] # NULL =>
      /\ state[assigned_to[r]] \in {"READY", "EXEC", "BLOCK", "EXIT_PROCESS"}
      /\ lts = "reap" => held # assigned_to[r]

(* The one finished PCB of the active queue is the one the main loop has   *)
(* just put there; its own sweep does not miss it, and at most one PCB is  *)
(* admitted behind it before a sweep comes.  That sweep finds the queue as *)
(* it is, since the main loop waits.                                       *)
Sweeping == {"test", "visit", "look", "remove"}
Finished(k) == k \in 1 .. Len(active_pcbs) /\ state[active_pcbs[k]] = "EXIT_PROCESS"
Reaches(k) ==
  /\ lts \in Sweeping /\ i < k
  /\ lts \in {"look", "remove"} => visited = active_pcbs[i + 1]
Swept ==
  \A k \in 1 .. Len(active_pcbs) : Finished(k) =>
    /\ main \in {"settle", "schedule"}
    /\ long_term_scheduler_execution = Main => Reaches(k)
    /\ \/ Len(active_pcbs) = k
       \/ Len(active_pcbs) = k + 1 /\ (lts \in {"idle", "show", "print"} \/ Reaches(k))

(* A PCB the main loop has put back is where the sweep will find it.       *)
Queued ==
  main \in {"settle", "schedule"} /\ state[pcb] = "EXIT_PROCESS" =>
    Contains(active_pcbs, pcb) \/ (lts = "reap" /\ held = pcb)

(* Both hold until a sweep takes out another PCB than the one it tested.   *)
Sweep ==
  IF kernel = "wrong_pcb" THEN lts = "remove" /\ prioritized_pcb = NULL
  ELSE Swept /\ Queued

(* The NEW processes have a call of the scheduler each, or there is no     *)
(* room for them: a sweep takes one PCB out at most, and the same call     *)
(* fills its room.  `busy' counts the PCBs that are active or in the CPU.  *)
Callers == {t \in Threads : Calls(t)}
Cpu == IF InCpu THEN 1 ELSE 0
Busy == Len(active_pcbs) + Cpu
RoomFor(where, new, callers, busy, index) ==
  /\ IsFiniteSet(callers)
  /\ where = "idle" => new <= Cardinality(callers) \/ busy >= MaxMultiprogramming
  /\ where \in Sweeping =>
       \/ new <= Cardinality(callers) \/ busy >= MaxMultiprogramming
       \/ busy <= index /\ busy + 1 >= MaxMultiprogramming
  /\ where = "reap" =>
       \/ new <= Cardinality(callers)
       \/ busy <= index + 1 /\ busy + 1 >= MaxMultiprogramming
  /\ where = "admit" =>
       new <= Cardinality(callers) \/ busy + 1 >= MaxMultiprogramming
  /\ where = "init" =>
       new + 1 <= Cardinality(callers) \/ busy + 1 >= MaxMultiprogramming
  /\ where \in {"show", "print"} =>
       new + 1 <= Cardinality(callers) \/ busy >= MaxMultiprogramming
Room ==
  kernel # "wrong_pcb" => RoomFor(lts, Len(new_pcbs), Callers, Busy, i)

(* The invariant of the places for either algorithm, and for FIFO, which   *)
(* loses nobody; each is inductive.                                        *)
SharedInv ==
  /\ IInv /\ Placed(Procs) /\ Admitting /\ Holders /\ Ending /\ Sweep
  /\ NobodyWaitsForAFreeInstance
PlacesInv == SharedInv /\ OnePlace /\ Room /\ MultiprogrammingBound
-----------------------------------------------------------------------------
(* Who has the instances.  A PCB remembers neither what it holds nor how   *)
(* many: assigned_to is one pointer per resource.  It says all there is to *)
(* say of a tidy resource.                                                 *)

(* How far a process is in its program.                                    *)
Counted ==
  \A p \in Procs :
    /\ state[p] \in {"none", "NEW"} => program_counter[p] = 0
    /\ state[p] \in {"READY", "EXEC", "BLOCK"} =>
         instructions[p] \in Programs /\ program_counter[p] < Len(instructions[p])

(* An instance is free or has its holder on record; and the holder on      *)
(* record is the one whose requests say so.                                *)
Spare(r) ==
  available_instances[r] + (IF assigned_to[r] = NULL THEN 0 ELSE 1) = Instances[r]
OnRecord(p, r) == Has(p, r) = Due(p, r)
Holding ==
  \A r \in Resources : Tidy(r) =>
    Spare(r) /\ \A p \in Procs : Returned(p) \/ OnRecord(p, r)

HoldingInv == SharedInv /\ Counted /\ Holding /\ EverySignalHasAHolder
=============================================================================
