-------------------------- MODULE AlgorithmsKernel --------------------------
(***************************************************************************)
(* What the main loop does to the queue of active PCBs in one operation of *)
(* the list: pick_with_fifo of kernel/src/algorithms_kernel.c, and the     *)
(* list_remove_element of a prioritized PCB.  The queue also holds the     *)
(* BLOCKed PCBs; `ready' is the set of the PCBs whose state is READY.      *)
(***************************************************************************)
EXTENDS Naturals, Sequences, FiniteSets, SequencesExt

-----------------------------------------------------------------------------
(* list_remove_by_condition and list_remove_element of the commons list:   *)
(* position i holds the first element of the queue that belongs to S.      *)
IsFirst(queue, S, i) ==
  /\ i \in 1 .. Len(queue)
  /\ queue[i] \in S
  /\ \A j \in 1 .. (i - 1) : queue[j] \notin S

(* Fault: the PCB is returned and stays in the queue.                      *)
PickFifoPeek(queue, ready, pcb, rest) ==
  \E i \in 1 .. Len(queue) :
    IsFirst(queue, ready, i) /\ pcb = queue[i] /\ rest = queue

(* pick_with_fifo: the first READY PCB leaves the queue, and the others    *)
(* keep their order; with no READY PCB the function returns NULL and       *)
(* leaves the queue alone, so no triple satisfies this.                    *)
PickFifo(queue, ready, pcb, rest) ==
  \E i \in 1 .. Len(queue) :
    /\ IsFirst(queue, ready, i)
    /\ pcb = queue[i]
    /\ rest = RemoveAt(queue, i)

=============================================================================
