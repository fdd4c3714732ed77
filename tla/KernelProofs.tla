---------------------------- MODULE KernelProofs ----------------------------
(***************************************************************************)
(* Theorems about the process core of the kernel, for any number of        *)
(* processes, any resources, programs and maximum, and for either          *)
(* algorithm but where FIFO is named: first types and memory safety; then  *)
(* the places: where each PCB is, who sweeps the finished ones, who fills  *)
(* the room they leave and who gets their resources; then what HRRN takes  *)
(* and leaves; last the instances: who has each, and that none is lost.    *)
(***************************************************************************)
EXTENDS KernelInvariant, QueueLemmas, TLAPS, SequenceTheorems, FiniteSetTheorems

-----------------------------------------------------------------------------
(* resource_signal on the resources of rs keeps the types ...              *)
LEMMA SignalType ==
  ASSUME TypeOK, NEW rs \in SUBSET Resources, ResourceSignal(rs)
  PROVE  /\ available_instances' \in [Resources -> Nat]
         /\ assigned_to' \in [Resources -> Procs \cup {NULL}]
         /\ enqueued_processes' \in [Resources -> Seq(Procs)]
         /\ Woken(rs) \subseteq Procs
         /\ Wake(state, rs) \in [Procs -> States]
<1>1. ASSUME NEW r \in Resources, Contended(r)
      PROVE  /\ Head(enqueued_processes[r]) \in Procs
             /\ Tail(enqueued_processes[r]) \in Seq(Procs)
  <2>1. enqueued_processes[r] \in Seq(Procs) BY DEF TypeOK
  <2> QED BY <1>1, <2>1, AppendHeadTail DEF Contended
<1>2. Woken(rs) \subseteq Procs
  BY <1>1 DEF Woken
<1>3. available_instances' \in [Resources -> Nat]
  BY DEF ResourceSignal, SignalledInstances, TypeOK
<1>4. assigned_to' \in [Resources -> Procs \cup {NULL}]
  BY <1>1 DEF ResourceSignal, SignalledHolders, TypeOK
<1>5. enqueued_processes' \in [Resources -> Seq(Procs)]
  BY <1>1 DEF ResourceSignal, SignalledQueues, TypeOK
<1>6. Wake(state, rs) \in [Procs -> States]
  BY DEF Wake, TypeOK, States
<1> QED BY <1>2, <1>3, <1>4, <1>5, <1>6

-----------------------------------------------------------------------------
(* Type correctness, one lemma per thread.                                 *)

LEMMA TypeInit == Init => TypeOK
  BY InstancesAssumption, EmptySeq DEF Init, TypeOK, States

LEMMA TypeConsole ==
  ASSUME TypeOK, NEW p \in Procs,
         Connect(p) \/ HangUp(p) \/ Submit(p) \/ IoDone(p)
  PROVE  TypeOK'
<1> USE DEF procVars, queueVars, resourceVars, mainVars, hrrnVars, ltsVars
<1>1. CASE Connect(p)
  BY <1>1 DEF Connect, Become, TypeOK, States
<1>2. CASE HangUp(p)
  BY <1>2 DEF HangUp, Become, TypeOK, States
<1>3. CASE Submit(p)
  <2>1. new_pcbs' \in Seq(Procs)
    BY <1>3, AppendHeadTail DEF Submit, TypeOK
  <2> QED BY <1>3, <2>1 DEF Submit, TypeOK
<1>4. CASE IoDone(p)
  BY <1>4 DEF IoDone, Become, TypeOK, States
<1> QED BY <1>1, <1>2, <1>3, <1>4

LEMMA TypeLts ==
  ASSUME TypeOK, NEW t \in Threads, Lts(t) \/ LtsAbort(t)
  PROVE  TypeOK'
<1> USE DEF procVars, queueVars, resourceVars, mainVars, hrrnVars, ltsVars
<1>1. CASE LtsLock(t)
  BY <1>1, NullAssumption DEF LtsLock, TypeOK, Threads
<1>2. CASE LtsTest(t)
  BY <1>2 DEF LtsTest, Runs, TypeOK
<1>3. CASE LtsGetNull(t)
  BY <1>3 DEF LtsGetNull, TypeOK
<1>4. CASE LtsVisit(t)
  <2>1. i + 1 \in 1 .. Len(active_pcbs)
    BY <1>4, LenProperties DEF LtsVisit, TypeOK
  <2>2. active_pcbs[i + 1] \in Procs
    BY <2>1, ElementOfSeq DEF TypeOK
  <2> QED BY <1>4, <2>2, NullAssumption DEF LtsVisit, Runs, TypeOK
<1>5. CASE LtsLookLive(t) \/ LtsLookFinished(t)
  BY <1>5 DEF LtsLookLive, LtsLookFinished, Runs, TypeOK
<1>6. CASE LtsRemove(t)
  <2>1. Released(visited) \in SUBSET Resources
    BY DEF Released
  <2>2. i + 1 \in 1 .. Len(active_pcbs)
    BY <1>6, LenProperties DEF LtsRemove, AtIndex, TypeOK
  <2>3. visited \in Procs /\ RemoveAt(active_pcbs, i + 1) \in Seq(Procs)
    BY <1>6, <2>2, RemoveAtProperties DEF LtsRemove, Runs, TypeOK
  <2>4. ResourceSignal(Released(visited)) /\ state' = Wake(state, Released(visited))
    BY <1>6 DEF LtsRemove
  <2>5. /\ available_instances' \in [Resources -> Nat]
        /\ assigned_to' \in [Resources -> Procs \cup {NULL}]
        /\ enqueued_processes' \in [Resources -> Seq(Procs)]
        /\ state' \in [Procs -> States]
    BY <2>1, <2>4, SignalType
  <2> QED BY <1>6, <2>3, <2>5, NullAssumption DEF LtsRemove, Runs, TypeOK
<1>7. CASE LtsRemoveOther(t)
  <2>1. active_pcbs' \in Seq(Procs)
    <3>1. CASE i < Len(active_pcbs)
      <4>1. i + 1 \in 1 .. Len(active_pcbs)
        BY <3>1, LenProperties DEF TypeOK
      <4> QED BY <1>7, <3>1, <4>1, RemoveAtProperties DEF LtsRemoveOther, TypeOK
    <3>2. CASE ~(i < Len(active_pcbs))
      BY <1>7, <3>2 DEF LtsRemoveOther, TypeOK
    <3> QED BY <3>1, <3>2
  <2> QED BY <1>7, <2>1 DEF LtsRemoveOther, TypeOK
<1>8. CASE LtsReap(t)
  BY <1>8 DEF LtsReap, Runs, Become, TypeOK, States
<1>9. CASE LtsAdmit(t)
  <2>1. Head(new_pcbs) \in Procs /\ Tail(new_pcbs) \in Seq(Procs)
    BY <1>9, AppendHeadTail DEF LtsAdmit, CanAdmit, TypeOK
  <2> QED BY <1>9, <2>1, NullAssumption DEF LtsAdmit, Become, Runs, TypeOK, States
<1>10. CASE LtsNothingToAdmit(t)
  BY <1>10 DEF LtsNothingToAdmit, Runs, TypeOK
<1>11. CASE LtsInit(t)
  <2>1. active_pcbs' \in Seq(Procs)
    BY <1>11, AppendHeadTail DEF LtsInit, Runs, TypeOK
  <2> QED BY <1>11, <2>1 DEF LtsInit, Runs, TypeOK
<1>12. CASE LtsShow(t) \/ LtsPrint(t)
  <2>1. CASE LtsShow(t)
    BY <2>1 DEF LtsShow, Runs, TypeOK
  <2>2. CASE LtsPrint(t)
    BY <2>2 DEF LtsPrint, Runs, TypeOK
  <2> QED BY <1>12, <2>1, <2>2
<1>13. CASE LtsUnlock(t)
  BY <1>13, NullAssumption DEF LtsUnlock, Runs, Goto, TypeOK, Threads
<1>14. CASE LtsAbort(t)
  BY <1>14 DEF LtsAbort, TypeOK
<1> QED BY <1>1, <1>2, <1>3, <1>4, <1>5, <1>6, <1>7, <1>8, <1>9, <1>10, <1>11, <1>12,
          <1>13, <1>14 DEF Lts

(* The actions of the main thread.                                         *)
MainStep ==
  \/ PickPrioritized \/ PickWithFifo \/ PickWithHrrn
  \/ CpuLost \/ Serving \/ Push \/ Settle

LEMMA TypePick ==
  ASSUME TypeOK, PickPrioritized \/ PickWithFifo
  PROVE  TypeOK'
<1> USE DEF procVars, queueVars, resourceVars, mainVars, hrrnVars, ltsVars
<1>1. ASSUME NEW k \in 1 .. Len(active_pcbs)
      PROVE  RemoveAt(active_pcbs, k) \in Seq(Procs)
  BY RemoveAtProperties DEF TypeOK
<1>2. CASE PickPrioritized
  <2>1. prioritized_pcb \in Procs /\ prioritized_pcb # NULL
    BY <1>2 DEF PickPrioritized, TypeOK
  <2>2. active_pcbs' \in Seq(Procs)
    BY <1>1, <1>2 DEF PickPrioritized, TypeOK
  <2> QED
    BY <1>2, <2>1, <2>2
    DEF PickPrioritized, ForgetPrioritized, Dispatch, Become, Goto, TypeOK, States
<1>3. CASE PickWithFifo
  <2>1. PICK p \in Ready : PickFifo(active_pcbs, Ready, p, active_pcbs') /\ Dispatch(p)
    BY <1>3 DEF PickWithFifo
  <2>2. active_pcbs' \in Seq(Procs)
    BY <1>1, <2>1 DEF PickFifo
  <2>3. p \in Procs /\ p # NULL
    BY NullAssumption DEF Ready
  <2> QED
    BY <1>3, <2>1, <2>2, <2>3
    DEF PickWithFifo, Dispatch, Become, Goto, TypeOK, States
<1> QED BY <1>2, <1>3

(* What a step of HRRN may do besides moving PCBs between its queues: a    *)
(* READY PCB goes to the CPU, or no PCB changes.                           *)
HrrnRuns(p) ==
  /\ state[p] = "READY" /\ state' = [state EXCEPT ![p] = "EXEC"]
  /\ pcb' = p /\ main' = "cpu"

LEMMA HrrnMoves ==
  ASSUME PickWithHrrn
  PROVE  /\ Up /\ main \in {"pick"} \cup Hrrn
         /\ main = "pick" => AlgorithmIsHrrn /\ prioritized_pcb = NULL
         /\ UNCHANGED <<kernel, console, instructions, program_counter, io, new_pcbs,
                        prioritized_pcb, resourceVars, ltsVars>>
         /\ \/ UNCHANGED <<state, pcb>> /\ main' \in {"pick"} \cup Hrrn
            \/ \E p \in Procs : HrrnRuns(p)
<1> USE DEF InHrrn, procVars, Goto, Hrrn
<1>1. CASE HrrnStart
  BY <1>1 DEF HrrnStart
<1>2. CASE HrrnOnly
  BY <1>2 DEF HrrnOnly, HrrnRuns, Dispatch, Become, Ready
<1>3. CASE \E ratio \in Ratios : HrrnWalk(ratio)
  BY <1>3 DEF HrrnWalk
<1>4. CASE HrrnWalked \/ HrrnRefill
  BY <1>4 DEF HrrnWalked, HrrnRefill
<1>5. CASE HrrnReturn
  BY <1>5 DEF HrrnReturn, HrrnRuns, Dispatch, Become, Ready
<1> QED BY <1>1, <1>2, <1>3, <1>4, <1>5 DEF PickWithHrrn

LEMMA TypeHrrn ==
  ASSUME TypeOK, PickWithHrrn
  PROVE  TypeOK'
<1> USE DEF procVars, queueVars, resourceVars, mainVars, hrrnVars, ltsVars, InHrrn, Goto
<1>1. CASE HrrnStart
  BY <1>1 DEF HrrnStart, TypeOK
<1>2. ASSUME active_pcbs # <<>>
      PROVE  Head(active_pcbs) \in Procs /\ Tail(active_pcbs) \in Seq(Procs)
  BY <1>2, AppendHeadTail DEF TypeOK
<1>3. \A p \in Procs : p # NULL
  BY NullAssumption
<1>4. CASE HrrnOnly
  BY <1>2, <1>3, <1>4 DEF HrrnOnly, Dispatch, Become, Ready, TypeOK, States
<1>5. ASSUME NEW ratio \in Ratios, HrrnWalk(ratio) PROVE TypeOK'
  <2>1. Head(active_pcbs) \in Procs /\ active_pcbs' \in Seq(Procs) /\ ratio \in Nat
    BY <1>2, <1>5, RatiosAssumption DEF HrrnWalk
  <2>2. walked' \in Seq([pcb : Procs, ratio : Ratios])
    <3> DEFINE R == [pcb : Procs, ratio : Ratios]
               w == [pcb |-> Head(active_pcbs), ratio |-> ratio]
    <3>1. w \in R /\ walked \in Seq(R) /\ walked' = Append(walked, w)
      BY <1>5, <2>1 DEF HrrnWalk, TypeOK
    <3> HIDE DEF R, w
    <3>2. walked' \in Seq(R)
      BY <3>1, AppendHeadTail
    <3> QED BY <3>2 DEF R
  <2>3. queue_temporal' \in Seq(Procs) /\ queue_fifo' \in Seq(Procs)
    <3>1. /\ \A p \in Procs : Append(queue_temporal, p) \in Seq(Procs)
                            /\ Append(queue_fifo, p) \in Seq(Procs)
          /\ queue_temporal \in Seq(Procs) /\ queue_fifo \in Seq(Procs)
      BY AppendHeadTail DEF TypeOK
    <3> QED BY <1>5, <2>1, <3>1 DEF HrrnWalk, PassOver, Ready
  <2>4. next_pcb' \in Procs \cup {NULL} /\ highest_response_ratio' \in Nat
    BY <1>5, <2>1 DEF HrrnWalk, TypeOK
  <2> QED BY <1>5, <2>1, <2>2, <2>3, <2>4 DEF HrrnWalk, TypeOK
<1>6. CASE HrrnWalked
  <2>1. queue_temporal' \in Seq(Procs) /\ queue_fifo' \in Seq(Procs)
    BY <1>6, ConcatMembers, EmptySeq DEF HrrnWalked, TypeOK
  <2> QED BY <1>6, <2>1 DEF HrrnWalked, TypeOK
<1>7. CASE HrrnRefill
  <2>1. Head(queue_temporal) \in Procs /\ queue_temporal' \in Seq(Procs)
    BY <1>7, AppendHeadTail DEF HrrnRefill, TypeOK
  <2>2. active_pcbs' \in Seq(Procs)
    BY <1>7, <2>1, AppendHeadTail DEF HrrnRefill, TypeOK
  <2> QED BY <1>7, <2>1, <2>2 DEF HrrnRefill, TypeOK
<1>8. CASE HrrnReturn
  <2>1. walked' \in Seq([pcb : Procs, ratio : Ratios])
    BY <1>8, EmptySeq DEF HrrnReturn
  <2> QED BY <1>3, <1>8, <2>1 DEF HrrnReturn, Dispatch, Become, Ready, TypeOK, States
<1> QED BY <1>1, <1>4, <1>5, <1>6, <1>7, <1>8 DEF PickWithHrrn

LEMMA TypeServing ==
  ASSUME TypeOK, Serving
  PROVE  TypeOK'
<1> USE DEF procVars, queueVars, resourceVars, mainVars, hrrnVars, ltsVars
<1>1. ASSUME NEW op \in Ops, Serve(op)
      PROVE  /\ pcb \in Procs /\ pcb # NULL /\ pcb' = pcb
             /\ program_counter' \in [Procs -> Nat]
             /\ main' = "push"
             /\ UNCHANGED <<console, instructions, hrrnVars, new_pcbs, active_pcbs, ltsVars>>
  BY <1>1 DEF Serve, Goto, TypeOK
<1>2. CASE Yield
  BY <1>1, <1>2 DEF Yield, Ops, TypeOK
<1>3. CASE InputOutput
  BY <1>1, <1>3 DEF InputOutput, Become, Ops, TypeOK, States
<1>4. CASE UnknownResource
  BY <1>1, <1>4 DEF UnknownResource, Become, Ops, TypeOK, States
<1>5. CASE WaitGranted
  <2>1. available_instances' \in [Resources -> Nat]
    BY <1>5 DEF WaitGranted, CanTake, TypeOK
  <2> QED BY <1>1, <1>5, <2>1 DEF WaitGranted, Ops, TypeOK
<1>6. CASE WaitBlocked
  <2>1. enqueued_processes' \in [Resources -> Seq(Procs)]
    BY <1>1, <1>6, AppendHeadTail DEF WaitBlocked, Ops, TypeOK
  <2> QED BY <1>1, <1>6, <2>1 DEF WaitBlocked, Become, Ops, TypeOK, States
<1>7. CASE Signal
  <2>1. {Request.arg} \in SUBSET Resources
    BY <1>7 DEF Signal
  <2>2. /\ available_instances' \in [Resources -> Nat]
        /\ assigned_to' \in [Resources -> Procs \cup {NULL}]
        /\ enqueued_processes' \in [Resources -> Seq(Procs)]
        /\ state' \in [Procs -> States]
    BY <1>7, <2>1, SignalType DEF Signal
  <2>3. kernel' \in {"up", "stopped", "aborted", "null_pcb", "null_holder",
                   "wrong_pcb"}
    BY <1>7 DEF Signal, TypeOK
  <2> QED BY <1>1, <1>7, <2>2, <2>3 DEF Signal, Ops, TypeOK
<1>8. CASE Exit
  BY <1>1, <1>8 DEF Exit, Become, Ops, TypeOK, States
<1> QED BY <1>2, <1>3, <1>4, <1>5, <1>6, <1>7, <1>8 DEF Serving

LEMMA TypeMain ==
  ASSUME TypeOK, MainStep
  PROVE  TypeOK'
<1> USE DEF procVars, queueVars, resourceVars, mainVars, hrrnVars, ltsVars
<1>1. CASE CpuLost
  BY <1>1 DEF CpuLost, TypeOK
<1>2. CASE Push
  <2>1. active_pcbs' \in Seq(Procs)
    BY <1>2, AppendHeadTail DEF Push, TypeOK
  <2> QED BY <1>2, <2>1 DEF Push, Goto, TypeOK
<1>3. CASE Settle
  BY <1>3 DEF Settle, Settled, Become, Goto, TypeOK, States
<1> QED BY <1>1, <1>2, <1>3, TypePick, TypeHrrn, TypeServing DEF MainStep

(* Every step is a step of a console or I/O thread, of the long-term       *)
(* scheduler in some thread, or of the main loop.                          *)
LEMMA NextByThread ==
  ASSUME Next
  PROVE  \/ \E p \in Procs : Connect(p) \/ HangUp(p) \/ Submit(p) \/ IoDone(p)
         \/ \E t \in Threads : Lts(t) \/ LtsAbort(t)
         \/ MainStep
  BY DEF Next, MainStep

LEMMA TypeStutter == TypeOK /\ UNCHANGED vars => TypeOK'
  BY DEF TypeOK, vars, procVars, queueVars, resourceVars, mainVars, hrrnVars, ltsVars

(* Type correctness of the kernel.                                         *)
THEOREM TypeCorrect == Spec => []TypeOK
<1>1. TypeOK /\ [Next]_vars => TypeOK'
  BY NextByThread, TypeStutter, TypeConsole, TypeLts, TypeMain
<1> QED BY <1>1, TypeInit, PTL DEF Spec

-----------------------------------------------------------------------------
(* The inductive invariant.                                                *)

(* The part of it that the walk of HRRN is not in.                         *)
Basic ==
  /\ TypeOK /\ Consoles /\ NewQueue /\ WaitingAreBlocked /\ BlockedAreWaiting
  /\ Running /\ Prioritized /\ PrioritizedIsActive /\ Reaping /\ OwnerCalls

LEMMA InvInit == Init => IInv
<1> SUFFICES ASSUME Init PROVE IInv
  OBVIOUS
<1>1. TypeOK
  BY TypeInit
<1>2. Len(new_pcbs) = 0 /\ Len(active_pcbs) = 0
  BY EmptySeq DEF Init
<1>3. \A r \in Resources : Len(enqueued_processes[r]) = 0
  BY EmptySeq DEF Init
<1>4. NewQueue /\ WaitingAreBlocked
  BY <1>2, <1>3 DEF Init, NewQueue, WaitingAreBlocked
<1>5. HandsFull /\ BestSoFar
  BY DEF Init, HandsFull, Hrrn, BestSoFar
<1> QED
  BY <1>1, <1>4, <1>5 DEF Init, IInv, Consoles, BlockedAreWaiting, Running, Hrrn,
     Prioritized, PrioritizedIsActive, Reaping, OwnerCalls

(* The facts about the queues that SMT needs at hand.                      *)
LEMMA Lengths ==
  ASSUME TypeOK
  PROVE  /\ Len(new_pcbs) \in Nat /\ \A k \in 1 .. Len(new_pcbs) : new_pcbs[k] \in Procs
         /\ Len(active_pcbs) \in Nat
         /\ \A k \in 1 .. Len(active_pcbs) : active_pcbs[k] \in Procs
         /\ \A r \in Resources :
              /\ Len(enqueued_processes[r]) \in Nat
              /\ \A k \in 1 .. Len(enqueued_processes[r]) :
                   enqueued_processes[r][k] \in Procs
<1>1. ASSUME NEW q \in Seq(Procs)
      PROVE  Len(q) \in Nat /\ \A k \in 1 .. Len(q) : q[k] \in Procs
  BY LenProperties, ElementOfSeq
<1> QED BY <1>1 DEF TypeOK

(* Nobody waits in two places of the resource queues.                      *)
LEMMA WaitOnce ==
  ASSUME IInv
  PROVE  \A r, q \in Resources :
           \A k \in 1 .. Len(enqueued_processes[r]), l \in 1 .. Len(enqueued_processes[q]) :
             enqueued_processes[r][k] = enqueued_processes[q][l] => r = q /\ k = l
  BY DEF IInv, WaitingAreBlocked

(* A PCB that neither was nor becomes BLOCKed disturbs no wait.            *)
LEMMA WaitFrame ==
  ASSUME IInv, NEW p \in Procs, NEW s, state[p] # "BLOCK", s # "BLOCK",
         state' = [state EXCEPT ![p] = s], UNCHANGED <<io, enqueued_processes>>
  PROVE  WaitingAreBlocked' /\ BlockedAreWaiting'
<1>1. \A q \in Procs : state'[q] = "BLOCK" <=> state[q] = "BLOCK"
  BY DEF IInv, TypeOK
<1>2. io \subseteq Procs
  BY DEF IInv, TypeOK
<1>3. WaitingAreBlocked'
  BY <1>1, <1>2, Lengths DEF IInv, WaitingAreBlocked
<1>4. BlockedAreWaiting'
  BY <1>1 DEF IInv, BlockedAreWaiting
<1> QED BY <1>3, <1>4

(* A PCB past NEW disturbs no console and not the NEW queue.               *)
LEMMA NewFrame ==
  ASSUME IInv, NEW p \in Procs, NEW s, state[p] \notin {"none", "NEW"},
         state' = [state EXCEPT ![p] = s], UNCHANGED <<console, new_pcbs>>
  PROVE  Consoles' /\ NewQueue'
<1>1. \A q \in Procs : q # p => state'[q] = state[q]
  BY DEF IInv, TypeOK
<1>2. Consoles'
  BY <1>1 DEF IInv, Consoles
<1>3. NewQueue'
  <2>1. \A k \in 1 .. Len(new_pcbs) : new_pcbs[k] # p /\ new_pcbs[k] \in Procs
    BY Lengths DEF IInv, NewQueue
  <2> QED BY <1>1, <2>1 DEF IInv, NewQueue
<1> QED BY <1>2, <1>3

LEMMA InvConsole ==
  ASSUME IInv, Up, NEW p \in Procs,
         Connect(p) \/ HangUp(p) \/ Submit(p) \/ IoDone(p)
  PROVE  Basic'
<1> USE DEF procVars, queueVars, resourceVars, mainVars, hrrnVars, ltsVars
<1>0. TypeOK /\ TypeOK'
  BY TypeConsole DEF IInv
<1>1. CASE Connect(p)
  <2>1. state[p] = "none"
    BY <1>1 DEF Connect, IInv, Consoles
  <2>2. state' = [state EXCEPT ![p] = "NEW"] /\ console' = [console EXCEPT ![p] = "greeted"]
    BY <1>1 DEF Connect, Become
  <2>3. Consoles' /\ NewQueue'
    BY <1>0, <1>1, <2>1, <2>2, Lengths DEF Connect, IInv, Consoles, NewQueue, TypeOK
  <2>4. WaitingAreBlocked' /\ BlockedAreWaiting'
    BY <1>0, <1>1, <2>1, <2>2, Lengths
    DEF Connect, IInv, WaitingAreBlocked, BlockedAreWaiting, TypeOK
  <2>5. Running' /\ Prioritized' /\ PrioritizedIsActive' /\ Reaping'
    BY <1>0, <1>1, <2>1, <2>2, NullAssumption
    DEF Connect, IInv, Running, Prioritized, PrioritizedIsActive, Reaping, Hrrn, TypeOK, Up
  <2>6. OwnerCalls'
    BY <1>1, <1>0, <2>1 DEF Connect, IInv, OwnerCalls, Calls, TypeOK, Threads
  <2> QED BY <1>0, <2>3, <2>4, <2>5, <2>6 DEF Basic
<1>2. CASE HangUp(p)
  <2>1. state[p] = "NEW" /\ console[p] = "greeted"
    BY <1>2 DEF HangUp, IInv, Consoles
  <2>2. state' = [state EXCEPT ![p] = "freed"] /\ console' = [console EXCEPT ![p] = "done"]
    BY <1>2 DEF HangUp, Become
  <2>3. Consoles' /\ NewQueue'
    BY <1>0, <1>2, <2>1, <2>2, Lengths DEF HangUp, IInv, Consoles, NewQueue, TypeOK
  <2>4. WaitingAreBlocked' /\ BlockedAreWaiting'
    BY <1>0, <1>2, <2>1, <2>2, Lengths
    DEF HangUp, IInv, WaitingAreBlocked, BlockedAreWaiting, TypeOK
  <2>5. Running' /\ Prioritized' /\ PrioritizedIsActive' /\ Reaping'
    BY <1>0, <1>2, <2>1, <2>2, NullAssumption
    DEF HangUp, IInv, Running, Prioritized, PrioritizedIsActive, Reaping, Hrrn, TypeOK, Up
  <2>6. OwnerCalls'
    BY <1>2, <1>0, <2>1 DEF HangUp, IInv, OwnerCalls, Calls, TypeOK, Threads
  <2> QED BY <1>0, <2>3, <2>4, <2>5, <2>6 DEF Basic
<1>3. CASE Submit(p)
  <2>1. state[p] = "NEW" /\ console[p] = "greeted" /\ UNCHANGED state
    BY <1>3 DEF Submit, IInv, Consoles
  <2>2. console' = [console EXCEPT ![p] = "schedule"]
    BY <1>3 DEF Submit
  <2>3. /\ Len(new_pcbs') = Len(new_pcbs) + 1
        /\ \A k \in 1 .. Len(new_pcbs) + 1 :
             new_pcbs'[k] = IF k <= Len(new_pcbs) THEN new_pcbs[k] ELSE p
    BY <1>0, <1>3, AppendHeadTail DEF Submit, TypeOK
  <2>4. \A k \in 1 .. Len(new_pcbs) : new_pcbs[k] # p
    BY <2>1 DEF IInv, NewQueue
  <2>5. Consoles'
    BY <1>0, <2>1, <2>2 DEF IInv, Consoles, TypeOK
  <2>6. \A k \in 1 .. Len(new_pcbs') :
          state'[new_pcbs'[k]] = "NEW" /\ console'[new_pcbs'[k]] \in {"schedule", "done"}
    <3> TAKE k \in 1 .. Len(new_pcbs')
    <3>1. Len(new_pcbs) \in Nat /\ DOMAIN console = Procs
      BY <1>0, Lengths DEF TypeOK
    <3>2. CASE k \in 1 .. Len(new_pcbs)
      <4>1. new_pcbs'[k] = new_pcbs[k] /\ new_pcbs[k] # p
        BY <2>3, <2>4, <3>1, <3>2
      <4>2. state[new_pcbs[k]] = "NEW" /\ console[new_pcbs[k]] \in {"schedule", "done"}
        BY <3>2 DEF IInv, NewQueue
      <4> QED BY <2>1, <2>2, <4>1, <4>2
    <3>3. CASE k = Len(new_pcbs) + 1
      <4>1. new_pcbs'[k] = p
        BY <2>3, <3>1, <3>3
      <4> QED BY <2>1, <2>2, <3>1, <4>1
    <3> QED BY <2>3, <3>1, <3>2, <3>3
  <2>7. NewQueue'
    BY <1>0, <2>3, <2>4, <2>6, Lengths DEF IInv, NewQueue
  <2>8. WaitingAreBlocked' /\ BlockedAreWaiting'
    BY <1>3, <2>1 DEF Submit, IInv, WaitingAreBlocked, BlockedAreWaiting
  <2>9. Running' /\ Prioritized' /\ PrioritizedIsActive' /\ Reaping'
    BY <1>3, <2>1
    DEF Submit, IInv, Running, Prioritized, PrioritizedIsActive, Reaping, Hrrn, Up
  <2>10. OwnerCalls'
    BY <1>0, <1>3, <2>2 DEF Submit, IInv, OwnerCalls, Calls, TypeOK, Threads
  <2> QED BY <1>0, <2>5, <2>7, <2>8, <2>9, <2>10 DEF Basic
<1>4. CASE IoDone(p)
  <2>1. state[p] = "BLOCK" /\ p \in io
    BY <1>4 DEF IoDone, IInv, WaitingAreBlocked
  <2>2. state' = [state EXCEPT ![p] = "READY"] /\ io' = io \ {p}
    BY <1>4 DEF IoDone, Become
  <2>3. Consoles' /\ NewQueue'
    BY <1>4, <2>1, <2>2, NewFrame DEF IoDone
  <2>4. WaitingAreBlocked' /\ BlockedAreWaiting'
    BY <1>0, <1>4, <2>1, <2>2, Lengths, SMTT(30)
    DEF IoDone, IInv, WaitingAreBlocked, BlockedAreWaiting, TypeOK
  <2>5. Running' /\ Prioritized' /\ PrioritizedIsActive' /\ Reaping'
    BY <1>0, <1>4, <2>1, <2>2, NullAssumption
    DEF IoDone, IInv, Running, Prioritized, PrioritizedIsActive, Reaping, Hrrn, TypeOK, Up
  <2>6. OwnerCalls'
    BY <1>4, <1>0, <2>1 DEF IoDone, IInv, OwnerCalls, Calls, TypeOK, Threads
  <2> QED BY <1>0, <2>3, <2>4, <2>5, <2>6 DEF Basic
<1> QED BY <1>1, <1>2, <1>3, <1>4

(* resource_signal takes the head of some queues, and only that, from      *)
(* BLOCK to READY.                                                         *)
LEMMA SignalStates ==
  ASSUME IInv, NEW rs \in SUBSET Resources, state' = Wake(state, rs)
  PROVE  /\ \A p \in Procs : p \in Woken(rs) => state[p] = "BLOCK" /\ state'[p] = "READY"
         /\ \A p \in Procs : p \notin Woken(rs) => state'[p] = state[p]
<1>1. ASSUME NEW r \in rs, Contended(r)
      PROVE  /\ Head(enqueued_processes[r]) = enqueued_processes[r][1]
             /\ 1 \in 1 .. Len(enqueued_processes[r])
  BY <1>1, AppendHeadTail DEF Contended, IInv, TypeOK
<1>2. \A p \in Woken(rs) : state[p] = "BLOCK"
  BY <1>1 DEF Woken, IInv, WaitingAreBlocked
<1> QED BY <1>2 DEF Wake

LEMMA SignalQueues ==
  ASSUME IInv, NEW rs \in SUBSET Resources, ResourceSignal(rs), NEW r \in Resources
  PROVE  \/ /\ r \in rs /\ Contended(r)
            /\ enqueued_processes[r][1] \in Woken(rs)
            /\ 1 \in 1 .. Len(enqueued_processes[r])
            /\ Len(enqueued_processes[r]) \in Nat
            /\ Len(enqueued_processes'[r]) = Len(enqueued_processes[r]) - 1
            /\ \A k \in 1 .. Len(enqueued_processes[r]) - 1 :
                 enqueued_processes'[r][k] = enqueued_processes[r][k + 1]
         \/ /\ enqueued_processes'[r] = enqueued_processes[r]
            /\ r \notin rs \/ ~Contended(r)
<1>1. enqueued_processes[r] \in Seq(Procs)
  BY DEF IInv, TypeOK
<1>2. CASE r \in rs /\ Contended(r)
  <2>1. enqueued_processes'[r] = Tail(enqueued_processes[r])
    BY <1>2 DEF ResourceSignal, SignalledQueues
  <2>2. Head(enqueued_processes[r]) \in Woken(rs)
    BY <1>2 DEF Woken
  <2> QED BY <1>1, <1>2, <2>1, <2>2, AppendHeadTail DEF Contended
<1>3. CASE ~(r \in rs /\ Contended(r))
  BY <1>3 DEF ResourceSignal, SignalledQueues
<1> QED BY <1>2, <1>3

LEMMA SignalWaiting ==
  ASSUME IInv, NEW rs \in SUBSET Resources, ResourceSignal(rs),
         state' = Wake(state, rs), UNCHANGED io
  PROVE  WaitingAreBlocked' /\ BlockedAreWaiting'
<1> DEFINE Q(r) == enqueued_processes[r]
           Qn(r) == enqueued_processes'[r]
<1>1. /\ \A p \in Procs : p \in Woken(rs) => state'[p] = "READY"
      /\ \A p \in Procs : p \notin Woken(rs) => state'[p] = state[p]
  BY SignalStates
(* Every element of a queue was in the same queue, not at its head if the  *)
(* head was taken.                                                         *)
<1>2. ASSUME NEW r \in Resources, NEW k \in 1 .. Len(Qn(r))
      PROVE  \E l \in 1 .. Len(Q(r)) :
               /\ Qn(r)[k] = Q(r)[l]
               /\ l = k \/ l = k + 1
               /\ (r \in rs /\ Contended(r)) <=> l = k + 1
  <2>1. CASE r \in rs /\ Contended(r)
    <3>1. /\ Len(Q(r)) \in Nat /\ Len(Qn(r)) = Len(Q(r)) - 1
          /\ \A j \in 1 .. Len(Q(r)) - 1 : Qn(r)[j] = Q(r)[j + 1]
      BY <2>1, SignalQueues
    <3>2. k + 1 \in 1 .. Len(Q(r)) /\ Qn(r)[k] = Q(r)[k + 1]
      BY <3>1
    <3> QED BY <2>1, <3>2
  <2>2. CASE ~(r \in rs /\ Contended(r))
    <3>1. Qn(r) = Q(r)
      BY <2>2, SignalQueues
    <3> QED BY <2>2, <3>1
  <2> QED BY <2>1, <2>2
<1>3. ASSUME NEW r \in Resources, NEW l \in 1 .. Len(Q(r)), Q(r)[l] \in Woken(rs)
      PROVE  r \in rs /\ Contended(r) /\ l = 1
  <2>1. PICK q \in rs : Contended(q) /\ Q(r)[l] = Head(Q(q))
    BY <1>3 DEF Woken
  <2>2. Head(Q(q)) = Q(q)[1] /\ 1 \in 1 .. Len(Q(q))
    BY <2>1, AppendHeadTail DEF Contended, IInv, TypeOK
  <2> QED BY <2>1, <2>2 DEF IInv, WaitingAreBlocked
<1>4. ASSUME NEW r \in Resources, NEW k \in 1 .. Len(Qn(r))
      PROVE  Qn(r)[k] \in Procs /\ Qn(r)[k] \notin Woken(rs)
  <2>1. PICK l \in 1 .. Len(Q(r)) :
          /\ Qn(r)[k] = Q(r)[l]
          /\ l = k \/ l = k + 1
          /\ (r \in rs /\ Contended(r)) <=> l = k + 1
    BY <1>2
  <2>2. Q(r)[l] \in Procs
    BY Lengths DEF IInv
  <2> QED BY <1>3, <2>1, <2>2
<1>5. WaitingAreBlocked'
  <2>1. ASSUME NEW p \in io
        PROVE  /\ state'[p] = "BLOCK"
               /\ \A r \in Resources : \A k \in 1 .. Len(Qn(r)) : Qn(r)[k] # p
    <3>1. state[p] = "BLOCK" /\ \A r \in Resources : \A l \in 1 .. Len(Q(r)) : Q(r)[l] # p
      BY DEF IInv, WaitingAreBlocked
    <3>2. p \notin Woken(rs)
      <4>1. ASSUME NEW r \in rs, Contended(r) PROVE Head(Q(r)) # p
        BY <3>1, <4>1, AppendHeadTail DEF Contended, IInv, TypeOK
      <4> QED BY <4>1 DEF Woken
    <3>3. p \in Procs
      BY DEF IInv, TypeOK
    <3> QED BY <1>1, <1>2, <3>1, <3>2, <3>3
  <2>2. ASSUME NEW r \in Resources, NEW k \in 1 .. Len(Qn(r))
        PROVE  state'[Qn(r)[k]] = "BLOCK"
    <3>1. state'[Qn(r)[k]] = state[Qn(r)[k]]
      BY <1>1, <1>4
    <3>2. PICK l \in 1 .. Len(Q(r)) : Qn(r)[k] = Q(r)[l]
      BY <1>2
    <3> QED BY <3>1, <3>2 DEF IInv, WaitingAreBlocked
  <2>3. ASSUME NEW r \in Resources, NEW q \in Resources,
               NEW k \in 1 .. Len(Qn(r)), NEW l \in 1 .. Len(Qn(q)),
               Qn(r)[k] = Qn(q)[l]
        PROVE  r = q /\ k = l
    <3>1. PICK m \in 1 .. Len(Q(r)) :
            /\ Qn(r)[k] = Q(r)[m]
            /\ m = k \/ m = k + 1
            /\ (r \in rs /\ Contended(r)) <=> m = k + 1
      BY <1>2
    <3>2. PICK n \in 1 .. Len(Q(q)) :
            /\ Qn(q)[l] = Q(q)[n]
            /\ n = l \/ n = l + 1
            /\ (q \in rs /\ Contended(q)) <=> n = l + 1
      BY <1>2
    <3>3. Q(r)[m] = Q(q)[n]
      BY <2>3, <3>1, <3>2
    <3>4. Q(r)[m] = Q(q)[n] => r = q /\ m = n
      BY ZenonT(40) DEF IInv, WaitingAreBlocked
    <3> QED BY <3>1, <3>2, <3>3, <3>4
  <2> QED BY <2>1, <2>2, <2>3 DEF WaitingAreBlocked
<1>6. BlockedAreWaiting'
  <2> SUFFICES ASSUME NEW p \in Procs, state'[p] = "BLOCK", p \notin io
               PROVE  \E r \in Resources : \E k \in 1 .. Len(Qn(r)) : Qn(r)[k] = p
    BY DEF BlockedAreWaiting
  <2>1. p \notin Woken(rs) /\ state[p] = "BLOCK"
    BY <1>1
  <2>2. PICK r \in Resources : \E k \in 1 .. Len(Q(r)) : Q(r)[k] = p
    BY <2>1 DEF IInv, BlockedAreWaiting
  <2>3. PICK k \in 1 .. Len(Q(r)) : Q(r)[k] = p
    BY <2>2
  <2>4. CASE r \in rs /\ Contended(r)
    <3>1. /\ Q(r)[1] \in Woken(rs) /\ Len(Q(r)) \in Nat
          /\ Len(Qn(r)) = Len(Q(r)) - 1
          /\ \A j \in 1 .. Len(Q(r)) - 1 : Qn(r)[j] = Q(r)[j + 1]
      BY <2>4, SignalQueues
    <3>2. k # 1
      BY <2>1, <2>3, <3>1
    <3>3. k - 1 \in 1 .. Len(Qn(r)) /\ Qn(r)[k - 1] = p
      BY <2>3, <3>1, <3>2
    <3> QED BY <3>3
  <2>5. CASE ~(r \in rs /\ Contended(r))
    BY <2>3, <2>5, SignalQueues
  <2> QED BY <2>4, <2>5
<1> QED BY <1>5, <1>6

(* A wakeup disturbs no other part of the invariant.                       *)
LEMMA SignalOthers ==
  ASSUME IInv, TypeOK', NEW rs \in SUBSET Resources, state' = Wake(state, rs),
         UNCHANGED <<console, new_pcbs>>
  PROVE  /\ Consoles' /\ NewQueue'
         /\ \A p \in Procs : state[p] \in {"READY", "EXEC", "EXIT_PROCESS"} =>
              state'[p] = state[p]
<1>1. \A p \in Procs : state'[p] = state[p] \/ (state[p] = "BLOCK" /\ state'[p] = "READY")
  BY SignalStates
<1>2. Consoles'
  BY <1>1 DEF IInv, Consoles
<1>3. NewQueue'
  <2>1. \A k \in 1 .. Len(new_pcbs) : new_pcbs[k] \in Procs
    BY Lengths DEF IInv
  <2> QED BY <1>1, <2>1 DEF IInv, NewQueue
<1> QED BY <1>1, <1>2, <1>3

(* The end of long_term_schedule, whichever thread runs it: what it leaves *)
(* to check is only what joined the active queue.                          *)
LEMMA UnlockInv ==
  ASSUME IInv, TypeOK', NEW t \in Threads, LtsUnlock(t), Calls(t),
         UNCHANGED <<state, io, new_pcbs, prioritized_pcb, enqueued_processes>>
  PROVE  /\ Consoles' /\ NewQueue' /\ WaitingAreBlocked' /\ BlockedAreWaiting'
         /\ Running' /\ Prioritized' /\ Reaping' /\ OwnerCalls'
         /\ main = "push" => UNCHANGED <<main, pcb>>
<1>1. /\ t = Main => main = "schedule" /\ main' = "pick" /\ UNCHANGED console
      /\ t # Main => /\ UNCHANGED <<main, pcb>>
                     /\ t \in Procs /\ console[t] = "schedule"
                     /\ console' = [console EXCEPT ![t] = "done"]
  BY DEF LtsUnlock, Goto, Calls, Threads, mainVars
<1>2. Consoles' /\ NewQueue'
  <2>1. ASSUME NEW p \in Procs
        PROVE  console'[p] = console[p] \/ (console'[p] = "done" /\ console[p] = "schedule")
    BY <1>1 DEF IInv, TypeOK
  <2>2. \A k \in 1 .. Len(new_pcbs) : new_pcbs[k] \in Procs
    BY Lengths DEF IInv
  <2> QED BY <2>1, <2>2 DEF IInv, Consoles, NewQueue
<1>3. WaitingAreBlocked' /\ BlockedAreWaiting'
  BY DEF IInv, WaitingAreBlocked, BlockedAreWaiting
<1>4. Running' /\ Prioritized' /\ (main = "push" => UNCHANGED <<main, pcb>>)
  <2>1. CASE t = Main
    BY <1>1, <2>1 DEF IInv, Running, Prioritized, Hrrn
  <2>2. CASE t # Main
    BY <1>1, <2>2 DEF IInv, Running, Prioritized
  <2> QED BY <2>1, <2>2
<1>5. Reaping'
  BY DEF LtsUnlock, Reaping
<1>6. OwnerCalls'
  BY DEF LtsUnlock, OwnerCalls
<1> QED BY <1>2, <1>3, <1>4, <1>5, <1>6

(* The steps that move the scheduler and change no PCB and no queue.       *)
LtsQuiet(t) ==
  \/ LtsLock(t) \/ LtsTest(t) \/ LtsGetNull(t) \/ LtsVisit(t)
  \/ LtsLookLive(t) \/ LtsLookFinished(t) \/ LtsNothingToAdmit(t)
  \/ LtsShow(t) \/ LtsPrint(t) \/ LtsAbort(t)

LEMMA QuietStep ==
  ASSUME TypeOK, NEW t \in Threads, LtsQuiet(t)
  PROVE  /\ UNCHANGED <<procVars, queueVars, resourceVars, mainVars, held>>
         /\ kernel = "up" /\ kernel' # "wrong_pcb"
         /\ lts' = "reap" <=> lts = "reap"
         /\ lts' = "init" <=> lts = "init"
         /\ lts' = "remove" => lts \in {"look", "remove"} /\ UNCHANGED visited
         /\ lts = "look" /\ lts' = "remove" => state[visited] = "EXIT_PROCESS"
         /\ \/ UNCHANGED long_term_scheduler_execution
            \/ long_term_scheduler_execution' = t /\ Calls(t)
<1> USE DEF Up, Runs, ltsVars
<1>1. CASE LtsLock(t)
  BY <1>1 DEF LtsLock, TypeOK
<1>2. CASE LtsTest(t)
  BY <1>2 DEF LtsTest
<1>3. CASE LtsGetNull(t) \/ LtsAbort(t)
  BY <1>3 DEF LtsGetNull, LtsAbort
<1>4. CASE LtsVisit(t)
  BY <1>4 DEF LtsVisit
<1>5. CASE LtsLookLive(t)
  BY <1>5 DEF LtsLookLive
<1>6. CASE LtsLookFinished(t)
  BY <1>6 DEF LtsLookFinished
<1>7. CASE LtsNothingToAdmit(t)
  BY <1>7 DEF LtsNothingToAdmit
<1>8. CASE LtsShow(t)
  BY <1>8 DEF LtsShow
<1>9. CASE LtsPrint(t)
  BY <1>9 DEF LtsPrint
<1> QED BY <1>1, <1>2, <1>3, <1>4, <1>5, <1>6, <1>7, <1>8, <1>9 DEF LtsQuiet

LEMMA InvLts ==
  ASSUME IInv, Up, NEW t \in Threads, Lts(t) \/ LtsAbort(t)
  PROVE  Basic'
<1> USE DEF procVars, queueVars, resourceVars, mainVars
<1>0. TypeOK /\ TypeOK'
  BY TypeLts DEF IInv
<1>1. CASE LtsQuiet(t)
  <2>1. /\ UNCHANGED <<procVars, queueVars, resourceVars, mainVars, held>>
        /\ lts' = "reap" => lts = "reap"
        /\ lts' = "remove" => lts \in {"look", "remove"} /\ UNCHANGED visited
        /\ lts = "look" /\ lts' = "remove" => state[visited] = "EXIT_PROCESS"
        /\ \/ UNCHANGED long_term_scheduler_execution
           \/ long_term_scheduler_execution' = t /\ Calls(t)
    BY <1>0, <1>1, QuietStep
  <2>2. Consoles' /\ NewQueue' /\ WaitingAreBlocked' /\ BlockedAreWaiting'
    BY <2>1 DEF IInv, Consoles, NewQueue, WaitingAreBlocked, BlockedAreWaiting
  <2>3. Running' /\ Prioritized' /\ PrioritizedIsActive'
    BY <2>1 DEF IInv, Running, Prioritized, PrioritizedIsActive, Up
  <2>4. Reaping'
    BY <2>1 DEF IInv, Reaping
  <2>5. OwnerCalls'
    BY <2>1 DEF IInv, OwnerCalls, Calls
  <2> QED BY <1>0, <2>2, <2>3, <2>4, <2>5 DEF Basic
<1>2. CASE LtsRemove(t)
  <2> DEFINE p == visited
             rs == Released(p)
  <2>1. /\ held' = p /\ lts' = "reap" /\ lts = "remove"
        /\ active_pcbs' = RemoveAt(active_pcbs, i + 1)
        /\ ResourceSignal(rs) /\ state' = Wake(state, rs)
        /\ UNCHANGED <<console, io, new_pcbs, prioritized_pcb, mainVars>>
    BY <1>2 DEF LtsRemove, Runs
  <2>2. rs \in SUBSET Resources
    BY DEF Released
  <2>3. /\ i + 1 \in 1 .. Len(active_pcbs) /\ p \in Procs /\ active_pcbs[i + 1] = p
        /\ state[p] = "EXIT_PROCESS"
    BY <1>0, <1>2, <2>1, Lengths DEF LtsRemove, AtIndex, IInv, Reaping, TypeOK
  <2>4. /\ Consoles' /\ NewQueue'
        /\ \A q \in Procs : state[q] \in {"READY", "EXEC", "EXIT_PROCESS"} => state'[q] = state[q]
    BY <1>0, <2>1, <2>2, SignalOthers
  <2>5. WaitingAreBlocked' /\ BlockedAreWaiting'
    BY <2>1, <2>2, SignalWaiting
  <2>6. Running' /\ Prioritized' /\ Reaping'
    BY <1>0, <2>1, <2>3, <2>4 DEF IInv, Running, Prioritized, Reaping, TypeOK
  <2>7. /\ Len(active_pcbs') = Len(active_pcbs) - 1
        /\ \A k \in 1 .. Len(active_pcbs) - 1 :
             active_pcbs'[k] = IF k < i + 1 THEN active_pcbs[k] ELSE active_pcbs[k + 1]
    <3>1. active_pcbs \in Seq(Procs)
      BY <1>0 DEF TypeOK
    <3> QED BY <2>1, <2>3, <3>1, RemoveAtProperties
  <2>8. PrioritizedIsActive'
    <3> SUFFICES ASSUME prioritized_pcb # NULL, ~(main = "push" /\ prioritized_pcb = pcb)
                 PROVE  \E k \in 1 .. Len(active_pcbs') : active_pcbs'[k] = prioritized_pcb
      BY <2>1 DEF PrioritizedIsActive
    <3>1. PICK k \in 1 .. Len(active_pcbs) : active_pcbs[k] = prioritized_pcb
      BY DEF IInv, PrioritizedIsActive, Up
    <3>2. state[prioritized_pcb] \in {"READY", "EXEC"}
      BY DEF IInv, Prioritized
    <3>3. k # i + 1
      BY <2>3, <3>1, <3>2
    <3>4. k < i + 1 => k \in 1 .. Len(active_pcbs') /\ active_pcbs'[k] = prioritized_pcb
      BY <2>3, <2>7, <3>1
    <3>5. k > i + 1 => k - 1 \in 1 .. Len(active_pcbs') /\ active_pcbs'[k - 1] = prioritized_pcb
      <4>1. i + 1 \in Nat /\ Len(active_pcbs) \in Nat
        BY <1>0, Lengths DEF TypeOK
      <4> QED BY <2>3, <2>7, <3>1, <4>1
    <3> QED BY <2>3, <3>3, <3>4, <3>5
  <2>9. OwnerCalls'
    BY <1>2, <2>1 DEF LtsRemove, IInv, OwnerCalls, Calls
  <2> QED BY <1>0, <2>4, <2>5, <2>6, <2>8, <2>9 DEF Basic
<1>3. CASE LtsRemoveOther(t)
  <2>1. /\ UNCHANGED <<procVars, new_pcbs, prioritized_pcb, resourceVars, mainVars, ltsVars>>
        /\ kernel' = "wrong_pcb"
    BY <1>3 DEF LtsRemoveOther
  <2>2. Consoles' /\ NewQueue' /\ WaitingAreBlocked' /\ BlockedAreWaiting'
    BY <2>1 DEF IInv, Consoles, NewQueue, WaitingAreBlocked, BlockedAreWaiting
  <2>3. Running' /\ Prioritized' /\ PrioritizedIsActive' /\ Reaping' /\ OwnerCalls'
    BY <2>1
    DEF IInv, Running, Prioritized, PrioritizedIsActive, Reaping, OwnerCalls, Calls, ltsVars
  <2> QED BY <1>0, <2>2, <2>3 DEF Basic
<1>4. CASE LtsReap(t)
  <2>1. /\ held \in Procs /\ state[held] = "EXIT_PROCESS" /\ lts = "reap" /\ lts' = "test"
        /\ state' = [state EXCEPT ![held] = "freed"]
        /\ UNCHANGED <<console, io, new_pcbs, active_pcbs, prioritized_pcb,
                       enqueued_processes, mainVars, long_term_scheduler_execution>>
    BY <1>0, <1>4 DEF LtsReap, Runs, Become, IInv, Reaping, TypeOK
  <2>2. Consoles' /\ NewQueue'
    BY <2>1, NewFrame
  <2>3. WaitingAreBlocked' /\ BlockedAreWaiting'
    BY <2>1, WaitFrame
  <2>4. Running' /\ Prioritized' /\ PrioritizedIsActive' /\ Reaping'
    BY <1>0, <2>1
    DEF IInv, Running, Prioritized, PrioritizedIsActive, Reaping, TypeOK, Up
  <2>5. OwnerCalls'
    BY <2>1 DEF IInv, OwnerCalls, Calls
  <2> QED BY <1>0, <2>2, <2>3, <2>4, <2>5 DEF Basic
<1>5. CASE LtsAdmit(t)
  <2> DEFINE p == Head(new_pcbs)
  <2>1. /\ new_pcbs # <<>>
        /\ new_pcbs' = Tail(new_pcbs) /\ held' = p /\ lts = "admit" /\ lts' = "init"
        /\ state' = [state EXCEPT ![p] = "READY"]
        /\ UNCHANGED <<console, io, active_pcbs, prioritized_pcb,
                       enqueued_processes, mainVars, long_term_scheduler_execution>>
    BY <1>5 DEF LtsAdmit, CanAdmit, Runs, Become
  <2>2. /\ p \in Procs /\ p = new_pcbs[1] /\ Len(new_pcbs) \in Nat /\ Len(new_pcbs) > 0
        /\ Len(new_pcbs') = Len(new_pcbs) - 1
        /\ \A k \in 1 .. Len(new_pcbs) - 1 : new_pcbs'[k] = new_pcbs[k + 1]
    BY <1>0, <2>1, AppendHeadTail DEF TypeOK
  <2>3. state[p] = "NEW" /\ console[p] \in {"schedule", "done"}
    BY <2>2 DEF IInv, NewQueue
  <2>4. Consoles'
    BY <1>0, <2>1, <2>2, <2>3 DEF IInv, Consoles, TypeOK
  <2>5. NewQueue'
    <3>1. ASSUME NEW k \in 1 .. Len(new_pcbs')
          PROVE  /\ new_pcbs'[k] = new_pcbs[k + 1] /\ k + 1 \in 1 .. Len(new_pcbs)
                 /\ new_pcbs[k + 1] # p
      <4>1. new_pcbs'[k] = new_pcbs[k + 1] /\ k + 1 \in 1 .. Len(new_pcbs) /\ k + 1 # 1
        BY <2>2
      <4>2. 1 \in 1 .. Len(new_pcbs)
        BY <2>2
      <4> QED BY <2>2, <4>1, <4>2 DEF IInv, NewQueue
    <3>2. ASSUME NEW k \in 1 .. Len(new_pcbs')
          PROVE  state'[new_pcbs'[k]] = "NEW" /\ console'[new_pcbs'[k]] \in {"schedule", "done"}
      BY <2>1, <3>1 DEF IInv, NewQueue
    <3>3. ASSUME NEW k \in 1 .. Len(new_pcbs'), NEW l \in 1 .. Len(new_pcbs'),
                 new_pcbs'[k] = new_pcbs'[l]
          PROVE  k = l
      <4>1. k + 1 = l + 1
        BY <3>1, <3>3 DEF IInv, NewQueue
      <4> QED BY <2>2, <4>1
    <3> QED BY <3>2, <3>3 DEF NewQueue
  <2>6. WaitingAreBlocked' /\ BlockedAreWaiting'
    BY <2>1, <2>2, <2>3, WaitFrame
  <2>7. Running' /\ Prioritized' /\ PrioritizedIsActive' /\ Reaping'
    BY <1>0, <2>1, <2>2, <2>3
    DEF IInv, Running, Prioritized, PrioritizedIsActive, Reaping, TypeOK, Up
  <2>8. OwnerCalls'
    BY <2>1 DEF IInv, OwnerCalls, Calls
  <2> QED BY <1>0, <2>4, <2>5, <2>6, <2>7, <2>8 DEF Basic
<1>6. CASE LtsInit(t)
  <2>1. /\ lts' = "show" /\ held \in Procs
        /\ active_pcbs' = Append(active_pcbs, held)
        /\ UNCHANGED <<procVars, new_pcbs, prioritized_pcb, resourceVars, mainVars,
                       long_term_scheduler_execution>>
    BY <1>0, <1>6 DEF LtsInit, Runs, TypeOK
  <2>2. Consoles' /\ NewQueue' /\ WaitingAreBlocked' /\ BlockedAreWaiting'
    BY <2>1 DEF IInv, Consoles, NewQueue, WaitingAreBlocked, BlockedAreWaiting
  <2>3. /\ Len(active_pcbs') = Len(active_pcbs) + 1 /\ Len(active_pcbs) \in Nat
        /\ \A k \in 1 .. Len(active_pcbs) : active_pcbs'[k] = active_pcbs[k]
    BY <1>0, <2>1, AppendHeadTail DEF TypeOK
  <2>4. Running' /\ Prioritized' /\ PrioritizedIsActive' /\ Reaping' /\ OwnerCalls'
    BY <2>1, <2>3
    DEF IInv, Running, Prioritized, PrioritizedIsActive, Reaping, OwnerCalls, Calls, Up
  <2> QED BY <1>0, <2>2, <2>4 DEF Basic
<1>7. CASE LtsUnlock(t)
  <2>1. UNCHANGED <<state, io, new_pcbs, active_pcbs, prioritized_pcb, enqueued_processes>>
    BY <1>7 DEF LtsUnlock
  <2>2. Calls(t)
    BY <1>0, <1>7, NullAssumption DEF LtsUnlock, Runs, IInv, OwnerCalls, Threads
  <2>3. /\ Consoles' /\ NewQueue' /\ WaitingAreBlocked' /\ BlockedAreWaiting'
        /\ Running' /\ Prioritized' /\ Reaping' /\ OwnerCalls'
        /\ main = "push" => UNCHANGED <<main, pcb>>
    BY <1>0, <1>7, <2>1, <2>2, UnlockInv
  <2>4. PrioritizedIsActive'
    BY <2>1, <2>3 DEF IInv, PrioritizedIsActive, Up
  <2> QED BY <1>0, <2>3, <2>4 DEF Basic
<1> QED BY <1>1, <1>2, <1>3, <1>4, <1>5, <1>6, <1>7 DEF Lts, LtsQuiet

(* The PCB that goes to the CPU was READY.                                 *)
LEMMA DispatchInv ==
  ASSUME IInv, TypeOK', NEW p \in Procs, Dispatch(p), state[p] = "READY",
         prioritized_pcb' = NULL, main \notin {"cpu", "push", "settle", "schedule"}
  PROVE  Basic'
<1>1. /\ state' = [state EXCEPT ![p] = "EXEC"] /\ pcb' = p /\ main' = "cpu"
      /\ UNCHANGED <<console, io, new_pcbs, enqueued_processes,
                     long_term_scheduler_execution, lts, visited, held>>
  BY DEF Dispatch, Become, Goto, resourceVars, ltsVars
<1>2. Consoles' /\ NewQueue'
  BY <1>1, NewFrame
<1>3. WaitingAreBlocked' /\ BlockedAreWaiting'
  BY <1>1, WaitFrame
<1>4. Running' /\ Prioritized' /\ PrioritizedIsActive'
  BY <1>1 DEF Running, Prioritized, PrioritizedIsActive, IInv, TypeOK
<1>5. Reaping' /\ OwnerCalls'
  BY <1>1 DEF IInv, Reaping, OwnerCalls, Calls, TypeOK
<1> QED BY <1>2, <1>3, <1>4, <1>5 DEF Basic

LEMMA InvPick ==
  ASSUME IInv, PickPrioritized \/ PickWithFifo
  PROVE  Basic'
<1>0. TypeOK /\ TypeOK'
  BY TypePick DEF IInv
<1>1. CASE PickPrioritized
  <2>1. /\ main = "pick" /\ prioritized_pcb \in Procs /\ prioritized_pcb # NULL
        /\ prioritized_pcb' = NULL /\ Dispatch(prioritized_pcb)
    BY <1>0, <1>1 DEF PickPrioritized, ForgetPrioritized, TypeOK
  <2>2. state[prioritized_pcb] = "READY"
    BY <2>1 DEF IInv, Prioritized
  <2> QED BY <1>0, <2>1, <2>2, DispatchInv
<1>2. CASE PickWithFifo
  <2>1. PICK p \in Ready : Dispatch(p)
    BY <1>2 DEF PickWithFifo
  <2>2. p \in Procs /\ state[p] = "READY"
    BY DEF Ready
  <2>3. main = "pick" /\ prioritized_pcb' = NULL
    BY <1>2 DEF PickWithFifo
  <2> QED BY <1>0, <2>1, <2>2, <2>3, DispatchInv
<1> QED BY <1>1, <1>2

LEMMA InvHrrn ==
  ASSUME IInv, PickWithHrrn
  PROVE  Basic'
<1>0. TypeOK /\ TypeOK'
  BY TypeHrrn DEF IInv
<1>1. /\ main \in {"pick"} \cup Hrrn /\ prioritized_pcb = NULL
      /\ UNCHANGED <<console, io, new_pcbs, prioritized_pcb, resourceVars, ltsVars>>
  BY HrrnMoves DEF IInv, Running
<1> USE DEF Hrrn, resourceVars, ltsVars
<1>2. CASE UNCHANGED <<state, pcb>> /\ main' \in {"pick"} \cup Hrrn
  <2>1. Consoles' /\ NewQueue' /\ WaitingAreBlocked' /\ BlockedAreWaiting'
    BY <1>1, <1>2 DEF IInv, Consoles, NewQueue, WaitingAreBlocked, BlockedAreWaiting
  <2>2. Running' /\ Prioritized' /\ PrioritizedIsActive' /\ Reaping' /\ OwnerCalls'
    BY <1>1, <1>2
    DEF IInv, Running, Prioritized, PrioritizedIsActive, Reaping, OwnerCalls, Calls
  <2> QED BY <1>0, <2>1, <2>2 DEF Basic
<1>3. ASSUME NEW p \in Procs, HrrnRuns(p) PROVE Basic'
  <2>1. /\ state[p] = "READY" /\ state' = [state EXCEPT ![p] = "EXEC"]
        /\ pcb' = p /\ main' = "cpu"
    BY <1>3 DEF HrrnRuns
  <2>2. Consoles' /\ NewQueue' /\ WaitingAreBlocked' /\ BlockedAreWaiting'
    BY <1>1, <2>1, NewFrame, WaitFrame
  <2>3. Running' /\ Prioritized' /\ PrioritizedIsActive' /\ Reaping' /\ OwnerCalls'
    BY <1>0, <1>1, <2>1
    DEF IInv, Running, Prioritized, PrioritizedIsActive, Reaping, OwnerCalls, Calls, TypeOK
  <2> QED BY <1>0, <2>2, <2>3 DEF Basic
<1> QED BY <1>2, <1>3, HrrnMoves

(* What every request does to the main loop, and what it leaves to show.   *)
LEMMA ServeInv ==
  ASSUME IInv, TypeOK', NEW op, Serve(op)
  PROVE  /\ main = "cpu" /\ main' = "push" /\ pcb \in Procs /\ pcb' = pcb
         /\ state[pcb] = "EXEC" /\ prioritized_pcb = NULL
         /\ UNCHANGED <<console, new_pcbs>>
         /\ OwnerCalls'
         /\ prioritized_pcb' \in {NULL, pcb} => Running' /\ PrioritizedIsActive'
         /\ (prioritized_pcb' = NULL \/ (prioritized_pcb' = pcb /\ state'[pcb] = "EXEC"))
              => Prioritized'
         /\ (\A p \in Procs : state[p] = "EXIT_PROCESS" => state'[p] = "EXIT_PROCESS")
              => Reaping'
<1>1. /\ main = "cpu" /\ main' = "push" /\ pcb' = pcb
      /\ UNCHANGED <<console, new_pcbs, active_pcbs, long_term_scheduler_execution, lts, visited, held>>
  BY DEF Serve, Goto, ltsVars
<1>2. pcb \in Procs /\ state[pcb] = "EXEC" /\ prioritized_pcb = NULL
  BY <1>1 DEF IInv, Running, TypeOK
<1>3. OwnerCalls'
  BY <1>1 DEF IInv, OwnerCalls, Calls, TypeOK
<1>4. prioritized_pcb' \in {NULL, pcb} => Running'
  BY <1>1 DEF IInv, Running, Hrrn, TypeOK
<1>5. prioritized_pcb' \in {NULL, pcb} => PrioritizedIsActive'
  BY <1>1 DEF PrioritizedIsActive
<1>6. (prioritized_pcb' = NULL \/ (prioritized_pcb' = pcb /\ state'[pcb] = "EXEC"))
        => Prioritized'
  BY <1>1 DEF Prioritized
<1>7. (\A p \in Procs : state[p] = "EXIT_PROCESS" => state'[p] = "EXIT_PROCESS") => Reaping'
  BY <1>1 DEF IInv, Reaping, TypeOK
<1> QED BY <1>1, <1>2, <1>3, <1>4, <1>5, <1>6, <1>7

LEMMA InvServing ==
  ASSUME IInv, Serving
  PROVE  Basic'
<1>0. TypeOK /\ TypeOK'
  BY TypeServing DEF IInv
<1>1. PICK op : Serve(op)
  BY DEF Serving, Yield, InputOutput, UnknownResource, WaitGranted, WaitBlocked, Signal, Exit
<1>2. /\ pcb \in Procs /\ state[pcb] = "EXEC" /\ prioritized_pcb = NULL
      /\ UNCHANGED <<console, new_pcbs>>
      /\ OwnerCalls'
      /\ prioritized_pcb' \in {NULL, pcb} => Running' /\ PrioritizedIsActive'
      /\ (prioritized_pcb' = NULL \/ (prioritized_pcb' = pcb /\ state'[pcb] = "EXEC"))
           => Prioritized'
      /\ (\A p \in Procs : state[p] = "EXIT_PROCESS" => state'[p] = "EXIT_PROCESS")
           => Reaping'
  BY <1>0, <1>1, ServeInv
<1>3. DOMAIN state = Procs
  BY <1>0 DEF TypeOK
<1>4. CASE Yield \/ WaitGranted
  <2>1. UNCHANGED <<state, io, enqueued_processes>> /\ prioritized_pcb' \in {NULL, pcb}
    BY <1>2, <1>4 DEF Yield, WaitGranted, resourceVars
  <2>2. Consoles' /\ NewQueue' /\ WaitingAreBlocked' /\ BlockedAreWaiting'
    BY <1>2, <2>1 DEF IInv, Consoles, NewQueue, WaitingAreBlocked, BlockedAreWaiting
  <2> QED BY <1>0, <1>2, <2>1, <2>2 DEF Basic
<1>5. CASE UnknownResource \/ Exit
  <2>1. /\ state' = [state EXCEPT ![pcb] = "EXIT_PROCESS"]
        /\ UNCHANGED <<io, enqueued_processes, prioritized_pcb>>
    BY <1>5 DEF UnknownResource, Exit, Become, resourceVars
  <2>2. Consoles' /\ NewQueue' /\ WaitingAreBlocked' /\ BlockedAreWaiting'
    BY <1>2, <2>1, NewFrame, WaitFrame
  <2> QED BY <1>0, <1>2, <1>3, <2>1, <2>2 DEF Basic
<1>6. CASE InputOutput
  <2>1. /\ state' = [state EXCEPT ![pcb] = "BLOCK"] /\ io' = io \cup {pcb}
        /\ UNCHANGED <<enqueued_processes, prioritized_pcb>>
    BY <1>6 DEF InputOutput, Become, resourceVars
  <2>2. Consoles' /\ NewQueue'
    BY <1>2, <2>1, NewFrame
  <2>3. \A q \in Procs : q # pcb => state'[q] = state[q]
    BY <1>3, <2>1
  <2>4. \A r \in Resources : \A k \in 1 .. Len(enqueued_processes[r]) :
          enqueued_processes[r][k] # pcb /\ enqueued_processes[r][k] \in Procs
    BY <1>0, <1>2, Lengths DEF IInv, WaitingAreBlocked
  <2>5. WaitingAreBlocked'
    <3>1. \A q \in io : q \in Procs /\ q # pcb
      BY <1>0, <1>2 DEF IInv, WaitingAreBlocked, TypeOK
    <3>2. state'[pcb] = "BLOCK"
      BY <1>2, <1>3, <2>1
    <3>3. \A q \in io' :
            /\ state'[q] = "BLOCK"
            /\ \A r \in Resources : \A k \in 1 .. Len(enqueued_processes'[r]) :
                 enqueued_processes'[r][k] # q
      BY <2>1, <2>3, <2>4, <3>1, <3>2 DEF IInv, WaitingAreBlocked
    <3>4. \A r \in Resources : \A k \in 1 .. Len(enqueued_processes'[r]) :
            state'[enqueued_processes'[r][k]] = "BLOCK"
      BY <2>1, <2>3, <2>4 DEF IInv, WaitingAreBlocked
    <3>5. \A r, q \in Resources :
            \A k \in 1 .. Len(enqueued_processes'[r]), l \in 1 .. Len(enqueued_processes'[q]) :
              enqueued_processes'[r][k] = enqueued_processes'[q][l] => r = q /\ k = l
      <4>1. UNCHANGED enqueued_processes
        BY <2>1
      <4> QED BY <4>1, WaitOnce
    <3> QED BY <3>3, <3>4, <3>5 DEF WaitingAreBlocked
  <2>6. BlockedAreWaiting'
    BY <2>1, <2>3 DEF IInv, BlockedAreWaiting
  <2> QED BY <1>0, <1>2, <2>1, <2>2, <2>3, <2>5, <2>6 DEF Basic
<1>7. CASE Signal
  <2>1. /\ {Request.arg} \in SUBSET Resources /\ ResourceSignal({Request.arg})
        /\ state' = Wake(state, {Request.arg}) /\ prioritized_pcb' = pcb /\ UNCHANGED io
    BY <1>7 DEF Signal
  <2>2. /\ Consoles' /\ NewQueue'
        /\ \A p \in Procs : state[p] \in {"READY", "EXEC", "EXIT_PROCESS"} => state'[p] = state[p]
    BY <1>0, <1>2, <2>1, SignalOthers
  <2>3. WaitingAreBlocked' /\ BlockedAreWaiting'
    BY <2>1, SignalWaiting
  <2> QED BY <1>0, <1>2, <2>1, <2>2, <2>3 DEF Basic
<1>8. CASE WaitBlocked
  <2> DEFINE a == Request.arg
             Q(r) == enqueued_processes[r]
             Qn(r) == enqueued_processes'[r]
  <2>1. /\ state' = [state EXCEPT ![pcb] = "BLOCK"] /\ a \in Resources
        /\ enqueued_processes' = [enqueued_processes EXCEPT ![a] = Append(@, pcb)]
        /\ UNCHANGED <<io, prioritized_pcb>>
    BY <1>8 DEF WaitBlocked, Become
  <2>2. Consoles' /\ NewQueue'
    BY <1>2, <2>1, NewFrame
  <2>3. /\ \A q \in Procs : q # pcb => state'[q] = state[q]
        /\ state'[pcb] = "BLOCK"
    BY <1>2, <1>3, <2>1
  <2>4. \A r \in Resources : /\ Len(Q(r)) \in Nat
                            /\ \A k \in 1 .. Len(Q(r)) : Q(r)[k] # pcb /\ Q(r)[k] \in Procs
    BY <1>0, <1>2, Lengths DEF IInv, WaitingAreBlocked
  <2>5. /\ Len(Qn(a)) = Len(Q(a)) + 1
        /\ \A k \in 1 .. Len(Q(a)) + 1 : Qn(a)[k] = IF k <= Len(Q(a)) THEN Q(a)[k] ELSE pcb
        /\ \A r \in Resources : r # a => Qn(r) = Q(r)
    <3>1. enqueued_processes \in [Resources -> Seq(Procs)]
      BY <1>0 DEF TypeOK
    <3>2. /\ Q(a) \in Seq(Procs) /\ Qn(a) = Append(Q(a), pcb)
          /\ \A r \in Resources : r # a => Qn(r) = Q(r)
      BY <2>1, <3>1
    <3> QED BY <1>2, <3>2, AppendHeadTail
(* A place in a queue is an old one, or the last one of a, where pcb is.   *)
  <2>6. ASSUME NEW r \in Resources, NEW k \in 1 .. Len(Qn(r))
        PROVE  \/ k \in 1 .. Len(Q(r)) /\ Qn(r)[k] = Q(r)[k] /\ Qn(r)[k] # pcb
               \/ r = a /\ k = Len(Q(a)) + 1 /\ Qn(r)[k] = pcb
    <3>1. CASE r = a
      BY <2>1, <2>4, <2>5, <3>1
    <3>2. CASE r # a
      BY <2>4, <2>5, <3>2
    <3> QED BY <3>1, <3>2
  <2>7. WaitingAreBlocked'
    <3>1. ASSUME NEW q \in io
          PROVE  /\ state'[q] = "BLOCK"
                 /\ \A r \in Resources : \A k \in 1 .. Len(Qn(r)) : Qn(r)[k] # q
      <4>1. q \in Procs /\ state[q] = "BLOCK" /\ q # pcb
        BY <1>0, <1>2 DEF IInv, WaitingAreBlocked, TypeOK
      <4>2. \A r \in Resources : \A k \in 1 .. Len(Q(r)) : Q(r)[k] # q
        BY DEF IInv, WaitingAreBlocked
      <4> QED BY <2>3, <2>6, <4>1, <4>2
    <3>2. ASSUME NEW r \in Resources, NEW k \in 1 .. Len(Qn(r))
          PROVE  state'[Qn(r)[k]] = "BLOCK"
      <4>1. CASE k \in 1 .. Len(Q(r)) /\ Qn(r)[k] = Q(r)[k] /\ Qn(r)[k] # pcb
        BY <2>3, <2>4, <4>1 DEF IInv, WaitingAreBlocked
      <4>2. CASE Qn(r)[k] = pcb
        BY <2>3, <4>2
      <4> QED BY <2>6, <4>1, <4>2
    <3>3. ASSUME NEW r \in Resources, NEW q \in Resources,
                 NEW k \in 1 .. Len(Qn(r)), NEW l \in 1 .. Len(Qn(q)),
                 Qn(r)[k] = Qn(q)[l]
          PROVE  r = q /\ k = l
      <4>1. CASE Qn(r)[k] = pcb
        BY <2>6, <3>3, <4>1
      <4>2. CASE Qn(r)[k] # pcb
        <5>1. /\ k \in 1 .. Len(Q(r)) /\ Qn(r)[k] = Q(r)[k]
              /\ l \in 1 .. Len(Q(q)) /\ Qn(q)[l] = Q(q)[l]
          BY <2>6, <3>3, <4>2
        <5>2. Q(r)[k] = Q(q)[l]
          BY <3>3, <5>1
        <5> QED BY <5>1, <5>2, WaitOnce
      <4> QED BY <4>1, <4>2
    <3>4. UNCHANGED io
      BY <2>1
    <3> QED BY <3>1, <3>2, <3>3, <3>4 DEF WaitingAreBlocked
  <2>8. BlockedAreWaiting'
    <3> SUFFICES ASSUME NEW p \in Procs, state'[p] = "BLOCK", p \notin io
                 PROVE  \E r \in Resources : \E k \in 1 .. Len(Qn(r)) : Qn(r)[k] = p
      BY <2>1 DEF BlockedAreWaiting
    <3>1. CASE p = pcb
      <4>1. Len(Q(a)) + 1 \in 1 .. Len(Qn(a)) /\ Qn(a)[Len(Q(a)) + 1] = p
        BY <2>1, <2>4, <2>5, <3>1
      <4> QED BY <2>1, <4>1
    <3>2. CASE p # pcb
      <4>1. PICK r \in Resources : \E k \in 1 .. Len(Q(r)) : Q(r)[k] = p
        BY <2>3, <3>2 DEF IInv, BlockedAreWaiting
      <4>2. PICK k \in 1 .. Len(Q(r)) : Q(r)[k] = p
        BY <4>1
      <4>3. k \in 1 .. Len(Qn(r)) /\ Qn(r)[k] = p
        <5>1. CASE r = a
          BY <2>1, <2>4, <2>5, <4>2, <5>1
        <5>2. CASE r # a
          BY <2>5, <4>2, <5>2
        <5> QED BY <5>1, <5>2
      <4> QED BY <4>3
    <3> QED BY <3>1, <3>2
  <2> QED BY <1>0, <1>2, <2>1, <2>2, <2>3, <2>7, <2>8 DEF Basic
<1> QED BY <1>4, <1>5, <1>6, <1>7, <1>8 DEF Serving

LEMMA InvMain ==
  ASSUME IInv, Up, MainStep
  PROVE  Basic'
<1> USE DEF procVars, queueVars, resourceVars, mainVars, hrrnVars, ltsVars
<1>0. TypeOK /\ TypeOK'
  BY TypeMain DEF IInv
<1>1. CASE CpuLost
  <2>1. /\ UNCHANGED <<procVars, queueVars, resourceVars, mainVars, ltsVars>>
    BY <1>1 DEF CpuLost
  <2>2. Consoles' /\ NewQueue' /\ WaitingAreBlocked' /\ BlockedAreWaiting'
    BY <2>1 DEF IInv, Consoles, NewQueue, WaitingAreBlocked, BlockedAreWaiting
  <2>3. /\ Running' /\ Prioritized' /\ PrioritizedIsActive' /\ Reaping' /\ OwnerCalls'
    BY <2>1 DEF IInv, Running, Prioritized, PrioritizedIsActive, Reaping, OwnerCalls, Calls, Up
  <2> QED BY <1>0, <2>2, <2>3 DEF Basic
<1>2. CASE Push
  <2>1. /\ main = "push" /\ main' = "settle" /\ pcb' = pcb /\ pcb \in Procs
        /\ active_pcbs' = Append(active_pcbs, pcb)
        /\ UNCHANGED <<procVars, new_pcbs, prioritized_pcb, resourceVars, ltsVars>>
    BY <1>0, <1>2 DEF Push, Goto, TypeOK
  <2>2. /\ Len(active_pcbs) \in Nat /\ Len(active_pcbs') = Len(active_pcbs) + 1
        /\ \A k \in 1 .. Len(active_pcbs) + 1 :
             active_pcbs'[k] = IF k <= Len(active_pcbs) THEN active_pcbs[k] ELSE pcb
    BY <1>0, <2>1, AppendHeadTail DEF TypeOK
  <2>3. Consoles' /\ NewQueue' /\ WaitingAreBlocked' /\ BlockedAreWaiting'
    BY <2>1 DEF IInv, Consoles, NewQueue, WaitingAreBlocked, BlockedAreWaiting
  <2>4. Running' /\ Prioritized' /\ Reaping' /\ OwnerCalls'
    BY <2>1 DEF IInv, Running, Hrrn, Prioritized, Reaping, OwnerCalls, Calls
  <2>5. PrioritizedIsActive'
    <3> SUFFICES ASSUME prioritized_pcb # NULL
                 PROVE  \E k \in 1 .. Len(active_pcbs') : active_pcbs'[k] = prioritized_pcb
      BY <2>1 DEF PrioritizedIsActive
    <3>1. CASE prioritized_pcb = pcb
      <4>1. Len(active_pcbs) + 1 \in 1 .. Len(active_pcbs') /\ active_pcbs'[Len(active_pcbs) + 1] = pcb
        BY <2>2
      <4> QED BY <3>1, <4>1
    <3>2. CASE \E k \in 1 .. Len(active_pcbs) : active_pcbs[k] = prioritized_pcb
      BY <2>2, <3>2
    <3> QED BY <3>1, <3>2 DEF IInv, PrioritizedIsActive, Up
  <2> QED BY <1>0, <2>3, <2>4, <2>5 DEF Basic
<1>3. CASE Settle
  <2>1. /\ main = "settle" /\ main' \in {"schedule", "pick"} /\ pcb \in Procs
        /\ main' = "schedule" => UNCHANGED pcb
        /\ state' = [state EXCEPT ![pcb] = Settled(pcb)]
        /\ UNCHANGED <<console, io, queueVars, resourceVars, ltsVars>>
    BY <1>0, <1>3 DEF Settle, Goto, Become, TypeOK
  <2>2. \/ UNCHANGED state
        \/ state[pcb] = "EXEC" /\ state' = [state EXCEPT ![pcb] = "READY"]
    BY <1>0, <2>1 DEF Settled, TypeOK
  <2>3. Consoles' /\ NewQueue' /\ WaitingAreBlocked' /\ BlockedAreWaiting'
    <3>1. CASE UNCHANGED state
      BY <2>1, <3>1 DEF IInv, Consoles, NewQueue, WaitingAreBlocked, BlockedAreWaiting
    <3>2. CASE state[pcb] = "EXEC" /\ state' = [state EXCEPT ![pcb] = "READY"]
      BY <2>1, <3>2, NewFrame, WaitFrame
    <3> QED BY <2>2, <3>1, <3>2
  <2>4. Running' /\ Prioritized' /\ PrioritizedIsActive' /\ Reaping' /\ OwnerCalls'
    <3>1. \A p \in Procs :
            state'[p] = state[p] \/ (state[p] = "EXEC" /\ state'[p] = "READY")
      BY <1>0, <2>2 DEF TypeOK
    <3>2. Running' /\ Reaping' /\ OwnerCalls'
      BY <1>0, <2>1, <3>1 DEF IInv, Running, Hrrn, Reaping, OwnerCalls, Calls, TypeOK
    <3>3. PrioritizedIsActive'
      BY <2>1 DEF IInv, PrioritizedIsActive, Up
    <3>4. Prioritized'
      <4> SUFFICES ASSUME prioritized_pcb # NULL PROVE state'[prioritized_pcb] = "READY"
        BY <2>1 DEF Prioritized
      <4>1. prioritized_pcb \in Procs
        BY <1>0 DEF TypeOK
      <4>2. CASE state[prioritized_pcb] = "READY"
        BY <3>1, <4>1, <4>2
      <4>3. CASE prioritized_pcb = pcb /\ state[pcb] = "EXEC"
        BY <1>0, <2>1, <4>3 DEF Settled, TypeOK
      <4> QED BY <4>2, <4>3 DEF IInv, Prioritized
    <3> QED BY <3>2, <3>3, <3>4
  <2> QED BY <1>0, <2>3, <2>4 DEF Basic
<1> QED BY <1>1, <1>2, <1>3, InvPick, InvHrrn, InvServing DEF MainStep

(* The walk of HRRN: only its own steps change what it has in its hands.   *)
LEMMA HandsFrame ==
  ASSUME IInv, UNCHANGED hrrnVars, UNCHANGED main \/ {main, main'} \cap Hrrn = {}
  PROVE  HandsFull' /\ BestSoFar'
<1>1. HandsFull'
  BY DEF IInv, HandsFull, hrrnVars, Hrrn
<1>2. BestSoFar'
  BY DEF IInv, BestSoFar, BestAt, hrrnVars
<1> QED BY <1>1, <1>2

LEMMA MainKept == UNCHANGED mainVars => UNCHANGED main /\ UNCHANGED pcb /\ UNCHANGED hrrnVars
  BY DEF mainVars

LEMMA HandsOthers ==
  ASSUME IInv, Next, ~PickWithHrrn
  PROVE  HandsFull' /\ BestSoFar'
<1>0. ASSUME UNCHANGED mainVars PROVE HandsFull' /\ BestSoFar'
  BY <1>0, MainKept, HandsFrame
<1> USE DEF Hrrn
<1>1. CASE \E p \in Procs : Connect(p) \/ HangUp(p) \/ Submit(p) \/ IoDone(p)
  BY <1>0, <1>1 DEF Connect, HangUp, Submit, IoDone
<1>2. CASE \E t \in Threads : Lts(t) \/ LtsAbort(t)
  <2>1. PICK t \in Threads : Lts(t) \/ LtsAbort(t)
    BY <1>2
  <2>2. CASE LtsUnlock(t)
    <3>1. long_term_scheduler_execution = t /\ t # NULL
      BY <2>2, NullAssumption DEF LtsUnlock, Runs, Threads
    <3>2. t = Main => main = "schedule"
      BY <3>1 DEF IInv, OwnerCalls, Calls
    <3>3. CASE t = Main
      BY <2>2, <3>2, <3>3, HandsFrame DEF LtsUnlock, Goto
    <3>4. CASE t # Main
      BY <1>0, <2>2, <3>4 DEF LtsUnlock
    <3> QED BY <3>3, <3>4
  <2>3. CASE LtsQuiet(t)
    BY <1>0, <2>3, QuietStep DEF IInv
  <2>4. CASE LtsRemove(t) \/ LtsRemoveOther(t) \/ LtsReap(t) \/ LtsAdmit(t) \/ LtsInit(t)
    BY <1>0, <2>4 DEF LtsRemove, LtsRemoveOther, LtsReap, LtsAdmit, LtsInit
  <2> QED BY <2>1, <2>2, <2>3, <2>4 DEF Lts, LtsQuiet
<1>3. CASE PickPrioritized \/ PickWithFifo
  <2>1. main = "pick" /\ main' = "cpu" /\ UNCHANGED hrrnVars
    BY <1>3 DEF PickPrioritized, PickWithFifo, Dispatch, Goto
  <2> QED BY <2>1, HandsFrame
<1>4. CASE Serving
  <2>1. main = "cpu" /\ main' = "push" /\ UNCHANGED hrrnVars
    BY <1>4 DEF Serving, Yield, InputOutput, UnknownResource, WaitGranted, WaitBlocked,
            Signal, Exit, Serve, Goto
  <2> QED BY <2>1, HandsFrame
<1>5. CASE CpuLost
  BY <1>0, <1>5 DEF CpuLost
<1>6. CASE Push \/ Settle
  <2>1. /\ main \in {"push", "settle"} /\ main' \in {"settle", "schedule", "pick"}
        /\ UNCHANGED hrrnVars
    BY <1>6 DEF Push, Settle, Goto
  <2> QED BY <2>1, HandsFrame
<1> QED BY <1>1, <1>2, <1>3, <1>4, <1>5, <1>6, NextByThread DEF MainStep

(* Line 47: a PCB that beats the best so far is the first of the highest   *)
(* ratio; any other leaves the best where it is.                           *)
LEMMA BestWalk ==
  ASSUME IInv, NEW ratio \in Ratios, HrrnWalk(ratio)
  PROVE  BestSoFar'
<1> DEFINE R == [pcb : Procs, ratio : Ratios]
           n == Len(walked)
           w == [pcb |-> Head(active_pcbs), ratio |-> ratio]
<1>1. /\ walked \in Seq(R) /\ n \in Nat /\ \A k \in 1 .. n : walked[k] \in R
      /\ highest_response_ratio \in Nat
  BY LenProperties, ElementOfSeq DEF IInv, TypeOK
<1>2. ratio \in Nat /\ ratio > 0
  BY RatiosAssumption
<1>3. w \in R /\ w.pcb = Head(active_pcbs) /\ w.ratio = ratio
  BY AppendHeadTail DEF HrrnWalk, IInv, TypeOK
<1>4. /\ walked' \in Seq(R) /\ Len(walked') = n + 1
      /\ \A k \in 1 .. n + 1 : walked'[k] = IF k <= n THEN walked[k] ELSE w
  <2>1. walked' = Append(walked, w)
    BY DEF HrrnWalk
  <2> HIDE DEF R, w
  <2> QED BY <1>1, <1>3, <2>1, AppendHeadTail
<1>5. \A k \in 1 .. n : walked[k].ratio \in Nat
  BY <1>1, RatiosAssumption
<1>6. walked' # <<>>
  BY <1>1, <1>4, EmptySeq
<1> HIDE DEF R, w, n
<1>7. /\ \A k \in 1 .. n : k \in 1 .. n + 1 /\ walked'[k] = walked[k]
      /\ n + 1 \in 1 .. n + 1 /\ walked'[n + 1] = w
      /\ \A k \in 1 .. n + 1 : k \in 1 .. n \/ k = n + 1
  BY <1>1, <1>4
<1>8. walked = <<>> => n = 0
  BY EmptySeq DEF n
<1>9. \A k \in 1 .. n : walked[k].ratio <= highest_response_ratio
  <2>1. CASE walked = <<>>
    BY <1>8, <2>1
  <2>2. CASE walked # <<>>
    BY <2>2 DEF IInv, BestSoFar, BestAt, n
  <2> QED BY <2>1, <2>2
<1>10. CASE ratio > highest_response_ratio
  <2>1. highest_response_ratio' = ratio /\ next_pcb' = w.pcb
    BY <1>1, <1>2, <1>3, <1>10 DEF HrrnWalk, Beats
  <2>2. \A k \in 1 .. n : walked[k].ratio < ratio
    BY <1>1, <1>2, <1>5, <1>9, <1>10
  <2>3. \A j \in 1 .. n + 1 :
          /\ walked'[j].ratio <= w.ratio
          /\ walked'[j].ratio = w.ratio => n + 1 <= j
    <3>1. ASSUME NEW j \in 1 .. n
          PROVE  walked'[j].ratio < w.ratio
      BY <1>3, <1>7, <2>2
    <3>2. \A j \in 1 .. n : walked'[j].ratio \in Nat
      BY <1>5, <1>7
    <3> QED BY <1>1, <1>2, <1>3, <1>7, <3>1, <3>2
  <2>4. PICK k \in 1 .. n + 1 : k = n + 1
    BY <1>7
  <2>5. BestAt(k)'
    BY <1>1, <1>3, <1>4, <1>7, <2>1, <2>3, <2>4 DEF BestAt, n
  <2> QED BY <1>4, <1>6, <2>5 DEF BestSoFar
<1>11. CASE ~(ratio > highest_response_ratio)
  <2>1. UNCHANGED <<highest_response_ratio, next_pcb>>
    BY <1>11 DEF HrrnWalk, Beats
  <2>2. walked # <<>>
    <3>1. walked = <<>> => highest_response_ratio = 0
      BY DEF IInv, BestSoFar
    <3> QED BY <1>1, <1>2, <1>11, <3>1
  <2>3. PICK k \in 1 .. n : BestAt(k)
    BY <2>2 DEF IInv, BestSoFar, n
  <2>4. /\ walked[k].pcb = next_pcb /\ walked[k].ratio = highest_response_ratio
        /\ \A j \in 1 .. n :
             /\ walked[j].ratio <= walked[k].ratio
             /\ walked[j].ratio = walked[k].ratio => k <= j
    BY <2>3 DEF BestAt, n
  <2>5. \A j \in 1 .. n + 1 :
          /\ walked'[j].ratio <= walked'[k].ratio
          /\ walked'[j].ratio = walked'[k].ratio => k <= j
    <3>1. walked'[k] = walked[k] /\ walked[k].ratio = highest_response_ratio /\ k \in Nat /\ k <= n
      BY <1>1, <1>7, <2>4
    <3>2. \A j \in 1 .. n :
          /\ walked'[j].ratio <= walked'[k].ratio
          /\ walked'[j].ratio = walked'[k].ratio => k <= j
      BY <1>7, <2>4
    <3>3. walked'[n + 1].ratio <= walked'[k].ratio /\ k <= n + 1
      BY <1>1, <1>2, <1>3, <1>7, <1>11, <3>1
    <3> QED BY <1>7, <3>2, <3>3
  <2>6. BestAt(k)'
    BY <1>4, <1>7, <2>1, <2>4, <2>5 DEF BestAt, n
  <2> QED BY <1>4, <1>6, <1>7, <2>6 DEF BestSoFar
<1> QED BY <1>10, <1>11

LEMMA HandsHrrn ==
  ASSUME IInv, PickWithHrrn
  PROVE  HandsFull' /\ BestSoFar'
<1> USE DEF InHrrn, Goto, Hrrn
<1>1. HandsFull /\ BestSoFar
  BY DEF IInv
<1>2. CASE HrrnStart \/ HrrnOnly
  <2>1. /\ UNCHANGED hrrnVars
        /\ (main = "pick" /\ AlgorithmIsHrrn) \/ main = "only"
        /\ main' \in {"only", "drain", "pick", "cpu"}
    BY <1>2 DEF HrrnStart, HrrnOnly, Dispatch
  <2>2. HandsFull'
    BY <1>1, <2>1 DEF HandsFull, hrrnVars
  <2>3. BestSoFar'
    BY <1>1, <2>1 DEF BestSoFar, BestAt, hrrnVars
  <2> QED BY <2>2, <2>3
<1>3. ASSUME NEW ratio \in Ratios, HrrnWalk(ratio) PROVE HandsFull' /\ BestSoFar'
  <2>1. HandsFull'
    BY <1>1, <1>3 DEF HrrnWalk, HandsFull
  <2> QED BY <1>3, <2>1, BestWalk
<1>4. CASE HrrnWalked \/ HrrnRefill
  <2>1. HandsFull'
    BY <1>1, <1>4 DEF HrrnWalked, HrrnRefill, HandsFull
  <2>2. BestSoFar'
    BY <1>1, <1>4 DEF HrrnWalked, HrrnRefill, BestSoFar, BestAt
  <2> QED BY <2>1, <2>2
<1>5. CASE HrrnReturn
  <2>1. HandsFull'
    BY <1>1, <1>5 DEF HrrnReturn, HandsFull, Dispatch
  <2>2. BestSoFar'
    BY <1>5 DEF HrrnReturn, BestSoFar
  <2> QED BY <2>1, <2>2
<1> QED BY <1>2, <1>3, <1>4, <1>5 DEF PickWithHrrn

LEMMA NextIsUp ==
  ASSUME Next
  PROVE  Up
<1> USE DEF Runs
<1>1. CASE \E p \in Procs : Connect(p) \/ HangUp(p) \/ Submit(p) \/ IoDone(p)
  BY <1>1 DEF Connect, HangUp, Submit, IoDone
<1>2. CASE \E t \in Threads : Lts(t) \/ LtsAbort(t)
  BY <1>2
  DEF Lts, LtsAbort, LtsLock, LtsTest, LtsGetNull, LtsVisit, LtsLookLive, LtsLookFinished,
      LtsRemove, LtsRemoveOther, LtsReap, LtsAdmit, LtsNothingToAdmit, LtsInit, LtsShow,
      LtsPrint, LtsUnlock
<1>3. CASE MainStep
  <2>1. Serving => Up
    BY DEF Serving, Yield, InputOutput, UnknownResource, WaitGranted, WaitBlocked, Signal,
           Exit, Serve
  <2> QED BY <1>3, <2>1, HrrnMoves
          DEF MainStep, PickPrioritized, PickWithFifo, CpuLost, Push, Settle
<1> QED BY <1>1, <1>2, <1>3, NextByThread

LEMMA InvNext == IInv /\ [Next]_vars => IInv'
<1> SUFFICES ASSUME IInv, [Next]_vars PROVE IInv'
  OBVIOUS
<1>1. CASE UNCHANGED vars
  <2>1. /\ UNCHANGED <<kernel, procVars, queueVars, resourceVars, mainVars, ltsVars>>
        /\ TypeOK'
    BY <1>1, TypeStutter DEF IInv, vars
  <2> USE DEF procVars, queueVars, resourceVars, mainVars, ltsVars
  <2>2. Consoles' /\ NewQueue' /\ WaitingAreBlocked' /\ BlockedAreWaiting'
    BY <2>1 DEF IInv, Consoles, NewQueue, WaitingAreBlocked, BlockedAreWaiting
  <2>3. Running' /\ Prioritized' /\ PrioritizedIsActive' /\ Reaping' /\ OwnerCalls'
    BY <2>1 DEF IInv, Running, Prioritized, PrioritizedIsActive, Reaping, OwnerCalls, Calls
  <2>4. HandsFull' /\ BestSoFar'
    BY <1>1, MainKept, HandsFrame DEF vars
  <2> QED BY <2>1, <2>2, <2>3, <2>4 DEF IInv
<1>2. CASE Next
  <2>1. Up
    BY <1>2, NextIsUp
  <2>2. Basic'
    BY <1>2, <2>1, NextByThread, InvConsole, InvLts, InvMain
  <2>3. HandsFull' /\ BestSoFar'
    BY <1>2, HandsOthers, HandsHrrn
  <2> QED BY <2>2, <2>3 DEF Basic, IInv
<1> QED BY <1>1, <1>2

(* The invariant holds in every reachable state.                           *)
THEOREM Invariant == Spec => []IInv
<1>1. Init => IInv
  BY InvInit
<1>2. IInv /\ [Next]_vars => IInv'
  BY InvNext
<1> QED BY <1>1, <1>2, PTL DEF Spec

-----------------------------------------------------------------------------
(* What the invariant gives.                                               *)

(* A BLOCKed process has one thing that will wake it, and only it has.     *)
THEOREM WakeupsAreKept == Spec => []NoLostWakeup
<1>1. ASSUME IInv, NEW p \in Procs
      PROVE  Cardinality(Wakers(p)) = IF state[p] = "BLOCK" THEN 1 ELSE 0
  <2>1. \A x \in Wakers(p) :
          \/ p \in io /\ x = <<"io", 0>>
          \/ \E r \in Resources : \E k \in 1 .. Len(enqueued_processes[r]) :
               enqueued_processes[r][k] = p /\ x = <<r, k>>
    BY DEF Wakers, Positions
  <2>2. CASE state[p] # "BLOCK"
    <3>1. Wakers(p) = {}
      BY <1>1, <2>1, <2>2 DEF IInv, WaitingAreBlocked
    <3> QED BY <2>2, <3>1, FS_EmptySet
  <2>3. CASE state[p] = "BLOCK" /\ p \in io
    <3>1. <<"io", 0>> \in Wakers(p)
      BY <2>3 DEF Wakers
    <3>2. \A x \in Wakers(p) : x = <<"io", 0>>
      BY <1>1, <2>1, <2>3 DEF IInv, WaitingAreBlocked
    <3>3. Wakers(p) = {<<"io", 0>>}
      BY <3>1, <3>2
    <3> QED BY <2>3, <3>3, FS_Singleton
  <2>4. CASE state[p] = "BLOCK" /\ p \notin io
    <3>1. PICK r \in Resources : \E k \in 1 .. Len(enqueued_processes[r]) :
                                 enqueued_processes[r][k] = p
      BY <1>1, <2>4 DEF IInv, BlockedAreWaiting
    <3>2. PICK k \in 1 .. Len(enqueued_processes[r]) : enqueued_processes[r][k] = p
      BY <3>1
    <3>3. <<r, k>> \in Wakers(p)
      BY <3>2 DEF Wakers, Positions
    <3>4. \A x \in Wakers(p) : x = <<r, k>>
      BY <1>1, <2>1, <2>4, <3>2, WaitOnce
    <3>5. Wakers(p) = {<<r, k>>}
      BY <3>3, <3>4
    <3> QED BY <2>4, <3>5, FS_Singleton
  <2> QED BY <2>2, <2>3, <2>4
<1>2. IInv => NoLostWakeup
  BY <1>1 DEF NoLostWakeup
<1> QED BY <1>2, Invariant, PTL

(* From EXIT_PROCESS a PCB is only destroyed.                              *)
THEOREM FinishedStayFinished == Spec => ExitIsFinal
<1> DEFINE Final == \A p \in Procs :
                      state[p] = "EXIT_PROCESS" => state'[p] \in {"EXIT_PROCESS", "freed"}
<1>1. ASSUME IInv, Next, NEW p \in Procs, state[p] = "EXIT_PROCESS"
      PROVE  state'[p] \in {"EXIT_PROCESS", "freed"}
  <2> USE DEF procVars, Become
  <2>0. DOMAIN state = Procs
    BY <1>1 DEF IInv, TypeOK
  <2>1. CASE \E q \in Procs : Connect(q) \/ HangUp(q) \/ Submit(q) \/ IoDone(q)
    <3>1. PICK q \in Procs : Connect(q) \/ HangUp(q) \/ Submit(q) \/ IoDone(q)
      BY <2>1
    <3>2. CASE Submit(q)
      BY <1>1, <3>2 DEF Submit
    <3>3. CASE Connect(q) \/ HangUp(q) \/ IoDone(q)
      <4>1. state[q] # "EXIT_PROCESS"
        BY <1>1, <3>3 DEF Connect, HangUp, IoDone, IInv, Consoles, WaitingAreBlocked
      <4> QED BY <1>1, <2>0, <3>3, <4>1 DEF Connect, HangUp, IoDone
    <3> QED BY <3>1, <3>2, <3>3
  <2>2. CASE \E t \in Threads : Lts(t) \/ LtsAbort(t)
    <3>1. PICK t \in Threads : Lts(t) \/ LtsAbort(t)
      BY <2>2
    <3>2. CASE LtsRemove(t)
      <4>1. state' = Wake(state, Released(visited)) /\ Released(visited) \in SUBSET Resources
        BY <3>2 DEF LtsRemove, Released
      <4> QED BY <1>1, <4>1, SignalStates
    <3>3. CASE LtsReap(t)
      BY <1>1, <2>0, <3>3 DEF LtsReap
    <3>4. CASE LtsAdmit(t)
      <4>1. state[Head(new_pcbs)] = "NEW"
        <5>1. new_pcbs # <<>> /\ new_pcbs \in Seq(Procs)
          BY <1>1, <3>4 DEF LtsAdmit, CanAdmit, IInv, TypeOK
        <5>2. Head(new_pcbs) = new_pcbs[1] /\ 1 \in 1 .. Len(new_pcbs)
          BY <5>1, AppendHeadTail
        <5> QED BY <1>1, <5>2 DEF IInv, NewQueue
      <4> QED BY <1>1, <2>0, <3>4, <4>1 DEF LtsAdmit
    <3>5. CASE LtsRemoveOther(t) \/ LtsInit(t) \/ LtsUnlock(t)
      BY <1>1, <3>5 DEF LtsRemoveOther, LtsInit, LtsUnlock
    <3>6. CASE LtsQuiet(t)
      BY <1>1, <3>6, QuietStep DEF IInv
    <3> QED BY <3>1, <3>2, <3>3, <3>4, <3>5, <3>6 DEF Lts, LtsQuiet
  <2>3. CASE MainStep
    <3>1. CASE PickPrioritized
      <4>1. state[prioritized_pcb] = "READY"
        BY <1>1, <3>1 DEF PickPrioritized, IInv, Prioritized
      <4> QED BY <1>1, <2>0, <3>1, <4>1 DEF PickPrioritized, Dispatch
    <3>2. CASE PickWithFifo
      BY <1>1, <2>0, <3>2 DEF PickWithFifo, Dispatch, Ready
    <3>3. CASE CpuLost \/ Push
      BY <1>1, <3>3 DEF CpuLost, Push
    <3>4. CASE Settle
      BY <1>1, <2>0, <3>4 DEF Settle, Settled
    <3>5. CASE Signal
      <4>1. {Request.arg} \in SUBSET Resources /\ state' = Wake(state, {Request.arg})
        BY <3>5 DEF Signal
      <4> QED BY <1>1, <4>1, SignalStates
    <3>6. CASE Serving /\ ~Signal
      <4>1. main = "cpu"
        BY <3>6 DEF Serving, Yield, InputOutput, UnknownResource, WaitGranted, WaitBlocked,
                    Exit, Serve
      <4>2. state[pcb] = "EXEC"
        BY <1>1, <4>1 DEF IInv, Running
      <4> QED BY <1>1, <2>0, <3>6, <4>2
              DEF Serving, Yield, InputOutput, UnknownResource, WaitGranted, WaitBlocked, Exit
    <3>7. CASE PickWithHrrn
      BY <1>1, <2>0, <3>7, HrrnMoves DEF HrrnRuns
    <3> QED BY <2>3, <3>1, <3>2, <3>3, <3>4, <3>5, <3>6, <3>7 DEF MainStep
  <2> QED BY <1>1, <2>1, <2>2, <2>3, NextByThread
<1>2. IInv /\ [Next]_vars => [Final]_vars
  BY <1>1
<1> QED BY <1>2, Invariant, PTL DEF Spec, ExitIsFinal

-----------------------------------------------------------------------------
(* The places.                                                             *)

(* What the actions that do several things change, in the terms of the     *)
(* invariant.                                                              *)

(* A step that moves a state only from BLOCK to READY.                     *)
OnlyWakes == \A p \in Procs : \/ state'[p] = state[p]
                              \/ state[p] = "BLOCK" /\ state'[p] = "READY"

LEMMA SignalWakes ==
  ASSUME IInv, NEW rs \in SUBSET Resources, state' = Wake(state, rs)
  PROVE  OnlyWakes
  BY SignalStates DEF OnlyWakes

(* The prioritized PCB, like the one FIFO picks, is a READY one that leaves*)
(* the active queue.                                                       *)
Picks(k) ==
  /\ state[active_pcbs[k]] = "READY"
  /\ pcb' = active_pcbs[k]
  /\ active_pcbs' = RemoveAt(active_pcbs, k)
  /\ state' = [state EXCEPT ![active_pcbs[k]] = "EXEC"]
  /\ main = "pick" /\ main' = "cpu"
  /\ UNCHANGED <<kernel, console, instructions, program_counter, io, new_pcbs, resourceVars,
                 hrrnVars, ltsVars>>

LEMMA PickStep ==
  ASSUME IInv, PickPrioritized \/ PickWithFifo
  PROVE  \E k \in 1 .. Len(active_pcbs) : Picks(k)
<1>0. TypeOK
  BY DEF IInv
<1>1. CASE PickPrioritized
  <2>1. /\ prioritized_pcb # NULL /\ main = "pick" /\ prioritized_pcb \in Procs
        /\ Dispatch(prioritized_pcb)
    BY <1>0, <1>1 DEF PickPrioritized, TypeOK
  <2>2. /\ state[prioritized_pcb] = "READY"
        /\ \E k \in 1 .. Len(active_pcbs) : active_pcbs[k] = prioritized_pcb
    BY <1>1, <2>1 DEF IInv, Prioritized, PrioritizedIsActive, PickPrioritized, Up
  <2>3. PICK k \in 1 .. Len(active_pcbs) :
          active_pcbs[k] = prioritized_pcb /\ active_pcbs' = RemoveAt(active_pcbs, k)
    BY <1>1, <2>2 DEF PickPrioritized, IsFirst
  <2> QED BY <1>1, <2>1, <2>2, <2>3 DEF PickPrioritized, Picks, Dispatch, Become, Goto
<1>2. CASE PickWithFifo
  <2>1. PICK p \in Ready : PickFifo(active_pcbs, Ready, p, active_pcbs') /\ Dispatch(p)
    BY <1>2 DEF PickWithFifo
  <2>2. PICK k \in 1 .. Len(active_pcbs) :
          active_pcbs[k] = p /\ active_pcbs' = RemoveAt(active_pcbs, k)
    BY <2>1 DEF PickFifo
  <2> QED BY <1>2, <2>1, <2>2 DEF PickWithFifo, Picks, Dispatch, Become, Goto, Ready
<1> QED BY <1>1, <1>2

(* Serving leaves the PCB in the hands of the main loop, in some state of  *)
(* a process that has run.                                                 *)
LEMMA ServeStep ==
  ASSUME IInv, Serving
  PROVE  /\ main = "cpu" /\ main' = "push" /\ pcb \in Procs /\ pcb' = pcb
         /\ state[pcb] = "EXEC" /\ state'[pcb] \in {"EXEC", "BLOCK", "EXIT_PROCESS"}
         /\ \A p \in Procs : p = pcb \/ state'[p] = state[p]
                             \/ (state[p] = "BLOCK" /\ state'[p] = "READY")
         /\ UNCHANGED <<console, instructions, new_pcbs, active_pcbs, hrrnVars, ltsVars>>
<1>0. TypeOK
  BY DEF IInv
<1>1. PICK op : Serve(op)
  BY DEF Serving, Yield, InputOutput, UnknownResource, WaitGranted, WaitBlocked, Signal, Exit
<1>2. /\ main = "cpu" /\ main' = "push" /\ pcb \in Procs /\ pcb' = pcb
      /\ state[pcb] = "EXEC"
      /\ UNCHANGED <<console, instructions, new_pcbs, active_pcbs, hrrnVars, ltsVars>>
  BY <1>0, <1>1 DEF Serve, Goto, IInv, Running, TypeOK
<1>3. CASE Signal
  <2>1. {Request.arg} \in SUBSET Resources /\ state' = Wake(state, {Request.arg})
    BY <1>3 DEF Signal
  <2>2. OnlyWakes
    BY <2>1, SignalWakes
  <2> QED BY <1>2, <2>2 DEF OnlyWakes
<1>4. CASE ~Signal
  <2>1. \E s \in {"EXEC", "BLOCK", "EXIT_PROCESS"} : state' = [state EXCEPT ![pcb] = s]
    <3>1. state = [state EXCEPT ![pcb] = "EXEC"]
      BY <1>0, <1>2 DEF TypeOK
    <3> QED BY <1>4, <3>1
            DEF Serving, Yield, InputOutput, UnknownResource, WaitGranted, WaitBlocked,
                Exit, Become
  <2> QED BY <1>0, <1>2, <2>1 DEF TypeOK
<1> QED BY <1>3, <1>4

-----------------------------------------------------------------------------
(* Every process in the system is in one place.                            *)

LEMMA QueuesOfProcs ==
  ASSUME IInv
  PROVE  /\ TypeOK
         /\ new_pcbs \in Seq(Procs) /\ active_pcbs \in Seq(Procs)
         /\ queue_temporal \in Seq(Procs) /\ queue_fifo \in Seq(Procs)
         /\ IsInjective(new_pcbs)
         /\ \A k \in 1 .. Len(active_pcbs) :
              active_pcbs[k] \in Procs /\ Contains(active_pcbs, active_pcbs[k])
         /\ \A p : Contains(new_pcbs, p) <=>
                    \E k \in 1 .. Len(new_pcbs) : new_pcbs[k] = p
<1>1. /\ TypeOK /\ new_pcbs \in Seq(Procs) /\ active_pcbs \in Seq(Procs)
      /\ queue_temporal \in Seq(Procs) /\ queue_fifo \in Seq(Procs)
  BY DEF IInv, TypeOK
<1>2. IsInjective(new_pcbs)
  BY <1>1, LenProperties DEF IInv, NewQueue, IsInjective
<1>3. \A k \in 1 .. Len(active_pcbs) :
        active_pcbs[k] \in Procs /\ Contains(active_pcbs, active_pcbs[k])
  BY <1>1, Lengths DEF Contains
<1>4. \A p : Contains(new_pcbs, p) <=> \E k \in 1 .. Len(new_pcbs) : new_pcbs[k] = p
  BY DEF Contains
<1> QED BY <1>1, <1>2, <1>3, <1>4

(* Nothing moves, and nobody comes to life or dies.                        *)
LEMMA PlaceFrame ==
  ASSUME NEW lost, Placed(lost), UNCHANGED <<new_pcbs, active_pcbs, held, hrrnVars>>,
         \A p \in Procs : (OnCpu(p)' <=> OnCpu(p)) /\ (Live(p)' <=> Live(p))
  PROVE  Placed(lost)'
  BY DEF Placed, Somewhere, InQueues, hrrnVars

LEMMA LiveFrame ==
  ASSUME IInv, UNCHANGED instructions,
         \A p \in Procs : \/ console'[p] = console[p]
                          \/ console[p] = "schedule" /\ console'[p] = "done"
                          \/ console[p] = "none" /\ console'[p] = "greeted",
         \A p \in Procs : state'[p] = "freed" <=> state[p] = "freed"
  PROVE  \A p \in Procs : Live(p)' <=> Live(p)
  BY DEF Live, Submitted

LEMMA PlaceConsole ==
  ASSUME IInv, NEW lost, Placed(lost), NEW p \in Procs,
         Connect(p) \/ HangUp(p) \/ Submit(p) \/ IoDone(p)
  PROVE  Placed(lost)'
<1> USE DEF procVars, queueVars, resourceVars, mainVars, hrrnVars, ltsVars
<1>0. TypeOK
  BY DEF IInv
<1>1. CASE Connect(p)
  <2>1. state[p] = "none" /\ console[p] = "none"
    BY <1>1 DEF Connect, IInv, Consoles
  <2>2. \A q \in Procs : Live(q)' <=> Live(q)
    BY <1>0, <1>1, <2>1, LiveFrame DEF Connect, Become, TypeOK
  <2> QED BY <1>1, <2>2, PlaceFrame DEF Connect, OnCpu, InCpu
<1>2. CASE HangUp(p)
  <2>1. state[p] = "NEW" /\ console[p] = "greeted"
    BY <1>2 DEF HangUp, IInv, Consoles
  <2>2. \A q \in Procs : Live(q)' <=> Live(q)
    BY <1>0, <1>2, <2>1 DEF HangUp, Become, Live, Submitted, TypeOK
  <2> QED BY <1>2, <2>2, PlaceFrame DEF HangUp, OnCpu, InCpu
<1>3. CASE Submit(p)
  <2>1. state[p] = "NEW" /\ console[p] = "greeted"
    BY <1>3 DEF Submit, IInv, Consoles
  <2>2. ~Live(p)
    BY <2>1 DEF Live, Submitted
  <2>3. PICK prog \in Programs : instructions' = [instructions EXCEPT ![p] = prog]
    BY <1>3 DEF Submit
  <2>4. prog # <<>>
    BY ProgramsAssumption, EmptySeq
  <2>5. Live(p)' /\ \A q \in Procs : q # p => (Live(q)' <=> Live(q))
    BY <1>0, <1>3, <2>1, <2>3, <2>4 DEF Submit, Live, Submitted, TypeOK
  <2>6. \A q : Contains(new_pcbs', q) <=> Contains(new_pcbs, q) \/ q = p
    BY <1>3, AppendMembers, QueuesOfProcs DEF Submit
  <2> QED BY <1>3, <2>2, <2>5, <2>6 DEF Submit, Placed, Somewhere, InQueues, OnCpu, InCpu
<1>4. CASE IoDone(p)
  <2>1. state[p] = "BLOCK"
    BY <1>4 DEF IoDone, IInv, WaitingAreBlocked
  <2>2. \A q \in Procs : Live(q)' <=> Live(q)
    BY <1>0, <1>4, <2>1, LiveFrame DEF IoDone, Become, TypeOK
  <2> QED BY <1>4, <2>2, PlaceFrame DEF IoDone, OnCpu, InCpu
<1> QED BY <1>1, <1>2, <1>3, <1>4

(* Unlocking moves no PCB: the main loop has none in the CPU when it is    *)
(* the main thread that unlocks.                                           *)
LEMMA PlaceUnlock ==
  ASSUME IInv, NEW t \in Threads, LtsUnlock(t)
  PROVE  /\ \A p \in Procs : OnCpu(p)' <=> OnCpu(p)
         /\ \A p \in Procs : Live(p)' <=> Live(p)
<1>0. TypeOK
  BY DEF IInv
<1>1. Calls(t) /\ UNCHANGED <<state, instructions>>
  BY NullAssumption DEF LtsUnlock, Runs, IInv, OwnerCalls, Threads
<1>2. CASE t = Main
  <2>1. main = "schedule" /\ main' = "pick" /\ UNCHANGED console
    BY <1>1, <1>2 DEF LtsUnlock, Goto, Calls
  <2> QED BY <1>1, <2>1, LiveFrame DEF OnCpu, InCpu
<1>3. CASE t # Main
  <2>1. /\ UNCHANGED <<main, pcb>> /\ t \in Procs /\ console[t] = "schedule"
        /\ console' = [console EXCEPT ![t] = "done"]
    BY <1>1, <1>3, MainKept DEF LtsUnlock, Calls, Threads
  <2> QED BY <1>0, <1>1, <2>1, LiveFrame DEF OnCpu, InCpu, TypeOK
<1> QED BY <1>2, <1>3

LEMMA PlaceLts ==
  ASSUME IInv, NEW lost, Placed(lost), NEW t \in Threads, Lts(t) \/ LtsAbort(t),
         LtsRemoveOther(t) => lost = Procs
  PROVE  Placed(lost)'
<1> USE DEF procVars, queueVars, resourceVars
<1>0. TypeOK
  BY DEF IInv
(* The main loop and the walk of HRRN are where they were.                 *)
<1>1. ASSUME UNCHANGED mainVars
      PROVE  /\ \A q \in Procs : OnCpu(q)' <=> OnCpu(q)
             /\ UNCHANGED <<hrrnVars, queue_temporal, queue_fifo, next_pcb>>
  BY <1>1, MainKept DEF OnCpu, InCpu, hrrnVars
<1>2. CASE LtsQuiet(t)
  <2>1. UNCHANGED <<procVars, queueVars, mainVars, held>>
    BY <1>0, <1>2, QuietStep
  <2> QED BY <1>1, <2>1, PlaceFrame, LiveFrame
<1>3. CASE LtsRemove(t)
  <2> DEFINE k == i + 1
             p == visited
  <2>1. /\ held' = p /\ lts = "remove"
        /\ active_pcbs' = RemoveAt(active_pcbs, k)
        /\ state' = Wake(state, Released(p)) /\ Released(p) \in SUBSET Resources
        /\ UNCHANGED <<console, instructions, new_pcbs, mainVars>>
    BY <1>3 DEF LtsRemove, Runs, Released
  <2>2. k \in 1 .. Len(active_pcbs) /\ active_pcbs[k] = p /\ held = NULL
    BY <1>0, <1>3, Lengths DEF LtsRemove, AtIndex, Runs, TypeOK
  <2> HIDE DEF k
  <2>3. p \in Procs /\ Contains(active_pcbs, p)
    BY <2>2, QueuesOfProcs
  <2>4. \A q \in Procs : Live(q)' <=> Live(q)
    BY <2>1, SignalWakes, LiveFrame DEF OnlyWakes
  <2>5. /\ IsInjective(active_pcbs')
        /\ \A q : Contains(active_pcbs', q) <=> Contains(active_pcbs, q) /\ q # p
    BY <2>1, <2>2, RemoveMembers, QueuesOfProcs DEF Placed, Somewhere
  <2> HIDE DEF p
  <2> QED BY <1>1, <2>1, <2>2, <2>3, <2>4, <2>5, NullAssumption DEF Placed, Somewhere, InQueues
<1>4. CASE LtsRemoveOther(t)
  <2>1. UNCHANGED <<procVars, new_pcbs, held, mainVars>> /\ lost = Procs
    BY <1>4 DEF LtsRemoveOther, ltsVars
  <2>2. /\ IsInjective(active_pcbs')
        /\ \A q : Contains(active_pcbs', q) => Contains(active_pcbs, q)
    <3>1. CASE i < Len(active_pcbs)
      <4>1. i + 1 \in 1 .. Len(active_pcbs) /\ active_pcbs' = RemoveAt(active_pcbs, i + 1)
        BY <1>0, <1>4, <3>1, Lengths DEF LtsRemoveOther, TypeOK
      <4> QED BY <4>1, RemoveMembers, QueuesOfProcs DEF Placed
    <3>2. CASE ~(i < Len(active_pcbs))
      BY <1>4, <3>2 DEF LtsRemoveOther, Placed
    <3> QED BY <3>1, <3>2
  <2>3. \A q \in Procs : Live(q)' <=> Live(q)
    BY <2>1, LiveFrame
  <2> QED BY <1>1, <2>1, <2>2, <2>3 DEF Placed, Somewhere, InQueues
<1>5. CASE LtsReap(t)
  <2>0. PICK p \in Procs : p = held
    BY <1>0, <1>5 DEF LtsReap, Runs, TypeOK
  <2>1. /\ held' = NULL /\ state' = [state EXCEPT ![p] = "freed"]
        /\ UNCHANGED <<console, instructions, new_pcbs, active_pcbs, mainVars>>
    BY <1>5, <2>0 DEF LtsReap, Become
  <2>2. ~Live(p)' /\ \A q \in Procs : q # p => (Live(q)' <=> Live(q))
    BY <1>0, <2>1 DEF Live, Submitted, TypeOK
  <2> QED BY <1>1, <2>0, <2>1, <2>2, NullAssumption DEF Placed, Somewhere, InQueues
<1>6. CASE LtsAdmit(t)
  <2> DEFINE p == Head(new_pcbs)
  <2>1. /\ held' = p /\ new_pcbs' = Tail(new_pcbs) /\ new_pcbs # <<>> /\ held = NULL
        /\ state' = [state EXCEPT ![p] = "READY"]
        /\ UNCHANGED <<console, instructions, active_pcbs, mainVars>>
    BY <1>0, <1>6 DEF LtsAdmit, CanAdmit, Runs, Become, TypeOK
  <2>2. p \in Procs /\ p = new_pcbs[1] /\ 1 \in 1 .. Len(new_pcbs)
    BY <2>1, AppendHeadTail, QueuesOfProcs
  <2>3. state[p] = "NEW" /\ Contains(new_pcbs, p)
    BY <2>2, QueuesOfProcs DEF IInv, NewQueue
  <2>4. \A q \in Procs : Live(q)' <=> Live(q)
    BY <1>0, <2>1, <2>3, LiveFrame DEF TypeOK
  <2>5. \A q : Contains(new_pcbs', q) <=> Contains(new_pcbs, q) /\ q # p
    BY <2>1, TailMembers, QueuesOfProcs
  <2> HIDE DEF p
  <2> QED BY <1>1, <2>1, <2>2, <2>3, <2>4, <2>5, NullAssumption DEF Placed, Somewhere, InQueues
<1>7. CASE LtsInit(t)
  <2>1. /\ active_pcbs' = Append(active_pcbs, held) /\ held \in Procs /\ held' = NULL
        /\ UNCHANGED <<procVars, new_pcbs, mainVars>>
    BY <1>0, <1>7 DEF LtsInit, Runs, TypeOK
  <2>2. \A p \in Procs : Live(p)' <=> Live(p)
    BY <2>1, LiveFrame
  <2>3. /\ IsInjective(active_pcbs')
        /\ \A q : Contains(active_pcbs', q) <=> Contains(active_pcbs, q) \/ q = held
    BY <2>1, AppendMembers, QueuesOfProcs DEF Placed, Somewhere
  <2> QED BY <1>1, <2>1, <2>2, <2>3, NullAssumption DEF Placed, Somewhere, InQueues
<1>8. CASE LtsUnlock(t)
  <2>1. UNCHANGED <<new_pcbs, active_pcbs, held>>
    BY <1>8 DEF LtsUnlock
  <2>2. UNCHANGED hrrnVars
    BY <1>8, MainKept DEF LtsUnlock
  <2> QED BY <1>8, <2>1, <2>2, PlaceUnlock, PlaceFrame
<1> QED BY <1>2, <1>3, <1>4, <1>5, <1>6, <1>7, <1>8 DEF Lts, LtsQuiet

(* HRRN moves PCBs between its queues, and loses some.                     *)
LEMMA PlaceHrrn ==
  ASSUME IInv, Placed(Procs), PickWithHrrn
  PROVE  Placed(Procs)'
<1> USE DEF InHrrn
<1>0. /\ TypeOK /\ active_pcbs \in Seq(Procs)
      /\ queue_temporal \in Seq(Procs) /\ queue_fifo \in Seq(Procs)
  BY QueuesOfProcs
<1>1. UNCHANGED <<console, instructions, new_pcbs, held>>
  BY HrrnMoves DEF ltsVars
<1>2. \A q \in Procs : Live(q)' <=> Live(q)
  <2>1. \A q \in Procs : state'[q] = "freed" <=> state[q] = "freed"
    BY <1>0, HrrnMoves DEF HrrnRuns, TypeOK
  <2> QED BY <1>1, <2>1, LiveFrame
<1>3. \A q \in Procs : ~OnCpu(q)
  BY HrrnMoves DEF OnCpu, InCpu, Hrrn
<1>4. ASSUME active_pcbs # <<>>
      PROVE  /\ Head(active_pcbs) \in Procs /\ Contains(active_pcbs, Head(active_pcbs))
             /\ IsInjective(Tail(active_pcbs))
             /\ \A q : Contains(Tail(active_pcbs), q) <=>
                         Contains(active_pcbs, q) /\ q # Head(active_pcbs)
  BY <1>0, <1>4, MembersOf, TailMembers DEF Placed
<1>5. ASSUME UNCHANGED <<state, main, pcb>> PROVE \A q \in Procs : ~OnCpu(q)'
  BY <1>3, <1>5 DEF OnCpu, InCpu
<1>6. CASE HrrnStart
  <2>1. \A q \in Procs : ~OnCpu(q)'
    BY <1>6 DEF HrrnStart, Goto, OnCpu, InCpu
  <2> QED BY <1>1, <1>2, <1>3, <1>6, <2>1, PlaceFrame DEF HrrnStart
<1>7. CASE HrrnOnly
  <2> DEFINE p == Head(active_pcbs)
  <2>1. UNCHANGED hrrnVars /\ UNCHANGED <<queue_temporal, queue_fifo, next_pcb>>
    BY <1>7 DEF HrrnOnly, hrrnVars
  <2>2. CASE p \in Ready
    <3>1. active_pcbs' = Tail(active_pcbs) /\ active_pcbs # <<>>
      BY <1>7, <2>2 DEF HrrnOnly
    <3>2. \A q \in Procs : OnCpu(q)' <=> q = p
      BY <1>7, <2>2 DEF HrrnOnly, Dispatch, Goto, OnCpu, InCpu
    <3>3. /\ p \in Procs /\ Contains(active_pcbs, p) /\ IsInjective(active_pcbs')
          /\ \A q : Contains(active_pcbs', q) <=> Contains(active_pcbs, q) /\ q # p
      BY <1>4, <3>1
    <3> HIDE DEF p
    <3> QED BY <1>1, <1>2, <1>3, <2>1, <3>2, <3>3 DEF Placed, Somewhere, InQueues
  <2>3. CASE p \notin Ready
    <3>1. UNCHANGED active_pcbs /\ \A q \in Procs : ~OnCpu(q)'
      BY <1>7, <2>3 DEF HrrnOnly, Goto, OnCpu, InCpu
    <3> QED BY <1>1, <1>2, <1>3, <2>1, <3>1, PlaceFrame
  <2> QED BY <2>2, <2>3
<1>8. ASSUME NEW ratio \in Ratios, HrrnWalk(ratio) PROVE Placed(Procs)'
  <2> DEFINE p == Head(active_pcbs)
  <2>1. /\ active_pcbs # <<>> /\ active_pcbs' = Tail(active_pcbs)
        /\ UNCHANGED <<state, main, pcb>>
    BY <1>8 DEF HrrnWalk, procVars
  <2>2. /\ p \in Procs /\ Contains(active_pcbs, p) /\ IsInjective(active_pcbs')
        /\ \A q : Contains(active_pcbs', q) <=> Contains(active_pcbs, q) /\ q # p
    BY <1>4, <2>1
  <2>3. \A q \in Procs : ~OnCpu(q)'
    BY <1>5, <2>1
  <2>4. /\ ~Contains(queue_temporal, p) /\ ~Contains(queue_fifo, p) /\ next_pcb # p /\ held # p
    BY <2>2 DEF Placed, InQueues
  <2>5. ASSUME NEW e \in Procs, ~Contains(queue_temporal, e), queue_temporal' = Append(queue_temporal, e)
        PROVE  /\ IsInjective(queue_temporal')
               /\ \A q : Contains(queue_temporal', q) <=> Contains(queue_temporal, q) \/ q = e
    BY <1>0, <2>5, AppendMembers DEF Placed
  <2>6. ASSUME queue_fifo' = Append(queue_fifo, p)
        PROVE  /\ IsInjective(queue_fifo')
               /\ \A q : Contains(queue_fifo', q) <=> Contains(queue_fifo, q) \/ q = p
    BY <1>0, <2>2, <2>4, <2>6, AppendMembers DEF Placed
  <2>7. CASE next_pcb' = p /\ UNCHANGED <<queue_temporal, queue_fifo>>
    <3> HIDE DEF p
    <3> QED BY <1>1, <1>2, <1>3, <2>2, <2>3, <2>4, <2>7 DEF Placed, Somewhere, InQueues
  <2>8. CASE /\ next_pcb' = p /\ next_pcb \in Procs /\ UNCHANGED queue_fifo
             /\ queue_temporal' = Append(queue_temporal, next_pcb)
    <3>1. ~Contains(queue_temporal, next_pcb)
      BY <2>8 DEF Placed, InQueues
    <3>2. /\ IsInjective(queue_temporal')
          /\ \A q : Contains(queue_temporal', q) <=> Contains(queue_temporal, q) \/ q = next_pcb
      BY <2>5, <2>8, <3>1
    <3> HIDE DEF p
    <3> QED BY <1>1, <1>2, <1>3, <2>2, <2>3, <2>4, <2>8, <3>2 DEF Placed, Somewhere, InQueues
  <2>9. CASE UNCHANGED <<next_pcb, queue_temporal>> /\ queue_fifo' = Append(queue_fifo, p)
    <3>1. /\ IsInjective(queue_fifo')
          /\ \A q : Contains(queue_fifo', q) <=> Contains(queue_fifo, q) \/ q = p
      BY <2>6, <2>9
    <3> HIDE DEF p
    <3> QED BY <1>1, <1>2, <1>3, <2>2, <2>3, <2>4, <2>9, <3>1 DEF Placed, Somewhere, InQueues
  <2>10. CASE UNCHANGED <<next_pcb, queue_fifo>> /\ queue_temporal' = Append(queue_temporal, p)
    <3>1. /\ IsInjective(queue_temporal')
          /\ \A q : Contains(queue_temporal', q) <=> Contains(queue_temporal, q) \/ q = p
      BY <2>2, <2>4, <2>5, <2>10
    <3> HIDE DEF p
    <3> QED BY <1>1, <1>2, <1>3, <2>2, <2>3, <2>4, <2>10, <3>1 DEF Placed, Somewhere, InQueues
  <2> QED BY <1>8, <2>7, <2>8, <2>9, <2>10 DEF HrrnWalk, PassOver, Ready
<1>9. CASE HrrnWalked
  <2>1. /\ queue_temporal' = queue_temporal \o queue_fifo /\ queue_fifo' = <<>>
        /\ main' = "refill" /\ UNCHANGED <<active_pcbs, next_pcb>>
    BY <1>9 DEF HrrnWalked, Goto
  <2>2. \A q : Contains(queue_temporal, q) => ~Contains(queue_fifo, q)
    BY <1>0, MembersOf DEF Placed
  <2>3. /\ IsInjective(queue_temporal')
        /\ \A q : Contains(queue_temporal', q) <=> Contains(queue_temporal, q) \/ Contains(queue_fifo, q)
    BY <1>0, <2>1, <2>2, ConcatMembers DEF Placed
  <2>4. IsInjective(queue_fifo') /\ \A q : ~Contains(queue_fifo', q)
    BY <2>1, EmptySeq DEF IsInjective, Contains
  <2>5. \A q \in Procs : ~OnCpu(q)'
    BY <2>1 DEF OnCpu, InCpu
  <2> QED BY <1>1, <1>2, <1>3, <2>1, <2>3, <2>4, <2>5 DEF Placed, Somewhere, InQueues
<1>10. CASE HrrnRefill
  <2> DEFINE p == Head(queue_temporal)
  <2>1. /\ queue_temporal # <<>> /\ queue_temporal' = Tail(queue_temporal)
        /\ active_pcbs' = Append(active_pcbs, p)
        /\ UNCHANGED <<state, main, pcb, next_pcb, queue_fifo>>
    BY <1>10 DEF HrrnRefill, procVars
  <2>2. /\ p \in Procs /\ Contains(queue_temporal, p) /\ IsInjective(queue_temporal')
        /\ \A q : Contains(queue_temporal', q) <=> Contains(queue_temporal, q) /\ q # p
    BY <1>0, <2>1, MembersOf, TailMembers DEF Placed
  <2>3. ~Contains(active_pcbs, p)
    BY <2>2 DEF Placed, InQueues
  <2>4. /\ IsInjective(active_pcbs')
        /\ \A q : Contains(active_pcbs', q) <=> Contains(active_pcbs, q) \/ q = p
    BY <1>0, <2>1, <2>2, <2>3, AppendMembers DEF Placed
  <2>5. \A q \in Procs : ~OnCpu(q)'
    BY <1>5, <2>1
  <2> HIDE DEF p
  <2> QED BY <1>1, <1>2, <1>3, <2>1, <2>2, <2>4, <2>5 DEF Placed, Somewhere, InQueues
<1>11. CASE HrrnReturn
  <2>1. next_pcb' = NULL /\ UNCHANGED <<active_pcbs, queue_temporal, queue_fifo>>
    BY <1>11 DEF HrrnReturn
  <2>2. \A q \in Procs : OnCpu(q)' => q = next_pcb
    BY <1>11 DEF HrrnReturn, Dispatch, Goto, OnCpu, InCpu
  <2>3. \A q \in Procs : q # NULL
    BY NullAssumption
  <2> QED BY <1>1, <1>2, <1>3, <2>1, <2>2, <2>3 DEF Placed, Somewhere, InQueues
<1> QED BY <1>6, <1>7, <1>8, <1>9, <1>10, <1>11 DEF PickWithHrrn

LEMMA PlaceMain ==
  ASSUME IInv, NEW lost, Placed(lost), MainStep, AlgorithmIsHrrn => lost = Procs
  PROVE  Placed(lost)'
<1>0. TypeOK
  BY DEF IInv
<1>1. CASE PickPrioritized \/ PickWithFifo
  <2>1. PICK k \in 1 .. Len(active_pcbs) : Picks(k)
    BY <1>1, PickStep
  <2> DEFINE p == active_pcbs[k]
  <2>2. p \in Procs /\ Contains(active_pcbs, p)
    BY QueuesOfProcs
  <2>3. \A q \in Procs : Live(q)' <=> Live(q)
    BY <1>0, <2>1, <2>2, LiveFrame DEF Picks, TypeOK
  <2>4. /\ IsInjective(active_pcbs')
        /\ \A q : Contains(active_pcbs', q) <=> Contains(active_pcbs, q) /\ q # p
    BY <2>1, RemoveMembers, QueuesOfProcs DEF Placed, Picks
  <2>5. \A q \in Procs : ~OnCpu(q) /\ (OnCpu(q)' <=> q = p)
    BY <2>1 DEF OnCpu, InCpu, Picks
  <2>6. UNCHANGED <<new_pcbs, held, queue_temporal, queue_fifo, next_pcb>>
    BY <2>1 DEF Picks, ltsVars, hrrnVars
  <2> HIDE DEF p
  <2> QED BY <2>2, <2>3, <2>4, <2>5, <2>6 DEF Placed, Somewhere, InQueues
<1>2. CASE Serving
  <2>1. \A p \in Procs : state'[p] = "freed" <=> state[p] = "freed"
    BY <1>2, ServeStep
  <2>2. \A q \in Procs : Live(q)' <=> Live(q)
    BY <1>2, <2>1, ServeStep, LiveFrame
  <2> QED BY <1>2, <2>2, ServeStep, PlaceFrame DEF OnCpu, InCpu, ltsVars
<1>3. CASE Push
  <2>1. /\ active_pcbs' = Append(active_pcbs, pcb) /\ pcb \in Procs
        /\ \A q \in Procs : ~OnCpu(q)' /\ (OnCpu(q) <=> q = pcb)
        /\ UNCHANGED <<new_pcbs, held, instructions, console, state,
                       queue_temporal, queue_fifo, next_pcb>>
    BY <1>0, <1>3 DEF Push, Goto, OnCpu, InCpu, ltsVars, procVars, hrrnVars, TypeOK
  <2>4. \A q \in Procs : ~InQueues(q) /\ next_pcb # q
    BY <1>3, EmptySeq, NullAssumption
       DEF Push, IInv, HandsFull, BestSoFar, Hrrn, InQueues, Contains
  <2>2. \A q \in Procs : Live(q)' <=> Live(q)
    BY <2>1, LiveFrame
  <2>3. /\ IsInjective(active_pcbs')
        /\ \A q : Contains(active_pcbs', q) <=> Contains(active_pcbs, q) \/ q = pcb
    BY <2>1, AppendMembers, QueuesOfProcs DEF Placed, Somewhere
  <2> QED BY <2>1, <2>2, <2>3, <2>4 DEF Placed, Somewhere, InQueues
<1>4. CASE Settle
  <2>1. /\ pcb \in Procs /\ state' = [state EXCEPT ![pcb] = Settled(pcb)]
        /\ main = "settle" /\ main' \in {"schedule", "pick"}
        /\ UNCHANGED <<console, instructions, new_pcbs, active_pcbs, held, hrrnVars>>
    BY <1>0, <1>4 DEF Settle, Goto, Become, queueVars, ltsVars, TypeOK
  <2>2. \A q \in Procs : Live(q)' <=> Live(q)
    BY <1>0, <2>1, LiveFrame DEF Settled, TypeOK
  <2> QED BY <2>1, <2>2, PlaceFrame DEF OnCpu, InCpu
<1>5. CASE CpuLost
  <2>1. UNCHANGED <<procVars, new_pcbs, active_pcbs, held, main, pcb, hrrnVars>>
    BY <1>5, MainKept DEF CpuLost, queueVars, ltsVars
  <2> QED BY <2>1, PlaceFrame, LiveFrame DEF procVars, OnCpu, InCpu
<1>6. CASE PickWithHrrn
  <2>1. AlgorithmIsHrrn
    BY <1>6, HrrnMoves DEF IInv, HandsFull
  <2> QED BY <1>6, <2>1, PlaceHrrn
<1> QED BY <1>1, <1>2, <1>3, <1>4, <1>5, <1>6 DEF MainStep

-----------------------------------------------------------------------------
(* The long-term scheduler and the PCB on its way in.                      *)

LEMMA Outside ==
  ASSUME IInv,
         (\E p \in Procs : Connect(p) \/ HangUp(p) \/ Submit(p) \/ IoDone(p)) \/ MainStep
  PROVE  UNCHANGED ltsVars
<1>1. CASE \E p \in Procs : Connect(p) \/ HangUp(p) \/ Submit(p) \/ IoDone(p)
  BY <1>1 DEF Connect, HangUp, Submit, IoDone
<1>2. CASE MainStep
  <2>1. CASE PickPrioritized \/ PickWithFifo
    BY <2>1, PickStep DEF Picks
  <2>2. CASE PickWithHrrn
    BY <2>2, HrrnMoves
  <2>3. CASE ~(PickPrioritized \/ PickWithFifo \/ PickWithHrrn)
    BY <1>2, <2>3, ServeStep DEF MainStep, CpuLost, Push, Settle
  <2> QED BY <2>1, <2>3, <2>2
<1> QED BY <1>1, <1>2

LEMMA Inside ==
  ASSUME IInv, NEW t \in Threads, Lts(t) \/ LtsAbort(t)
  PROVE  /\ t # NULL /\ t \in Procs \cup {Main} /\ Calls(t)
         /\ ~LtsLock(t) => long_term_scheduler_execution = t
<1>0. TypeOK /\ t # NULL
  BY NullAssumption DEF IInv, Threads
<1>1. CASE LtsLock(t)
  BY <1>0, <1>1 DEF LtsLock, Threads
<1>2. CASE ~LtsLock(t)
  <2>1. long_term_scheduler_execution = t
    BY <1>2
    DEF Lts, LtsTest, LtsGetNull, LtsVisit, LtsLookLive, LtsLookFinished, LtsRemove,
        LtsRemoveOther, LtsReap, LtsAdmit, LtsNothingToAdmit, LtsInit, LtsShow, LtsPrint,
        LtsUnlock, LtsAbort, Runs
  <2> QED BY <1>0, <1>2, <2>1 DEF IInv, OwnerCalls, Threads
<1> QED BY <1>1, <1>2

(* HRRN runs a PCB that was in the active queue, or the best it has found:  *)
(* not the one that is being admitted.                                     *)
LEMMA HrrnLeaves ==
  ASSUME IInv, Placed(Procs), PickWithHrrn
  PROVE  /\ \A p \in Procs : \/ state'[p] = state[p]
                             \/ state[p] = "READY" /\ state'[p] = "EXEC"
         /\ held \in Procs => state'[held] = state[held]
<1>0. TypeOK
  BY DEF IInv
<1>1. UNCHANGED state \/ \E p \in Procs : HrrnRuns(p)
  BY HrrnMoves
<1>2. ASSUME NEW p \in Procs, HrrnRuns(p), UNCHANGED held PROVE held # p
  <2>1. CASE HrrnOnly
    <3>1. active_pcbs # <<>> /\ (p = Head(active_pcbs) \/ main' = "pick")
      BY <1>2, <2>1 DEF HrrnOnly, HrrnRuns, Dispatch, Goto
    <3> QED BY <1>2, <3>1, MembersOf, QueuesOfProcs DEF HrrnRuns, Placed
  <2>2. CASE HrrnReturn
    <3>1. p = next_pcb \/ main' = "pick"
      BY <1>2, <2>2 DEF HrrnReturn, HrrnRuns, Dispatch, Goto
    <3> QED BY <1>2, <3>1 DEF HrrnRuns, Placed
  <2>3. CASE ~HrrnOnly /\ ~HrrnReturn
    BY <1>2, <2>3
    DEF PickWithHrrn, HrrnRuns, HrrnStart, HrrnWalk, HrrnWalked, HrrnRefill, Goto, InHrrn
  <2> QED BY <2>1, <2>2, <2>3
<1>3. UNCHANGED held
  BY HrrnMoves DEF ltsVars
<1>4. CASE UNCHANGED state
  BY <1>4
<1>5. ASSUME NEW p \in Procs, HrrnRuns(p)
      PROVE  /\ state[p] = "READY" /\ state'[p] = "EXEC"
             /\ \A q \in Procs : q # p => state'[q] = state[q]
  BY <1>0, <1>5 DEF HrrnRuns, TypeOK
<1> QED BY <1>1, <1>2, <1>3, <1>4, <1>5

LEMMA AdmittingNext ==
  ASSUME IInv, Placed(Procs), Admitting, Next
  PROVE  Admitting'
<1>0. TypeOK
  BY DEF IInv
<1>1. ASSUME NEW t \in Threads, Lts(t) \/ LtsAbort(t) PROVE Admitting'
  <2>1. CASE LtsAdmit(t)
    <3>1. new_pcbs # <<>> /\ held' = Head(new_pcbs)
          /\ state' = [state EXCEPT ![Head(new_pcbs)] = "READY"]
      BY <2>1 DEF LtsAdmit, CanAdmit, Become
    <3>2. Head(new_pcbs) \in Procs
      BY <3>1, AppendHeadTail, QueuesOfProcs
    <3> QED BY <1>0, <3>1, <3>2 DEF Admitting, TypeOK
  <2>2. CASE LtsQuiet(t)
    <3>1. UNCHANGED <<state, held>> /\ (lts' = "init" => lts = "init")
      BY <1>0, <2>2, QuietStep DEF procVars
    <3> QED BY <3>1 DEF Admitting
  <2>3. CASE LtsRemoveOther(t)
    BY <2>3 DEF LtsRemoveOther, ltsVars, procVars, Admitting
  <2>4. CASE LtsRemove(t) \/ LtsReap(t) \/ LtsInit(t) \/ LtsUnlock(t)
    <3>1. lts' # "init"
      BY <2>4 DEF LtsRemove, LtsReap, LtsInit, LtsUnlock
    <3> QED BY <3>1 DEF Admitting
  <2> QED BY <1>1, <2>1, <2>2, <2>3, <2>4 DEF Lts, LtsQuiet
<1>2. CASE (\E p \in Procs : Connect(p) \/ HangUp(p) \/ Submit(p) \/ IoDone(p)) \/ MainStep
  <2>1. UNCHANGED <<lts, held>>
    BY <1>2, Outside DEF ltsVars
  <2> SUFFICES ASSUME lts = "init" PROVE state'[held] = "READY"
    BY <2>1 DEF Admitting
  <2>2. PICK p \in Procs : p = held
    BY <1>0 DEF TypeOK
  <2>3. state[p] = "READY" /\ ~Contains(active_pcbs, p)
    BY <2>2 DEF Admitting, Placed
  <2>4. CASE \E q \in Procs : Connect(q) \/ HangUp(q) \/ Submit(q) \/ IoDone(q)
    BY <1>0, <2>2, <2>3, <2>4
    DEF Connect, HangUp, Submit, IoDone, Become, IInv, Consoles, TypeOK
  <2>5. CASE PickPrioritized \/ PickWithFifo
    <3>1. PICK k \in 1 .. Len(active_pcbs) : Picks(k)
      BY <2>5, PickStep
    <3>2. active_pcbs[k] # p
      BY <2>3, QueuesOfProcs
    <3> QED BY <1>0, <2>2, <2>3, <3>1, <3>2 DEF Picks, TypeOK
  <2>6. CASE Serving
    BY <2>2, <2>3, <2>6, ServeStep
  <2>7. CASE Push \/ CpuLost
    BY <2>2, <2>3, <2>7 DEF Push, CpuLost, procVars
  <2>8. CASE Settle
    BY <1>0, <2>2, <2>3, <2>8 DEF Settle, Become, Settled, TypeOK
  <2>9. CASE PickWithHrrn
    BY <2>2, <2>3, <2>9, HrrnLeaves
  <2> QED BY <1>2, <2>4, <2>5, <2>6, <2>7, <2>8, <2>9 DEF MainStep
<1> QED BY <1>1, <1>2, NextByThread

-----------------------------------------------------------------------------
(* Who holds a resource.                                                   *)

(* After resource_signal, whoever holds a resource held it before or was   *)
(* waiting for it.                                                         *)
LEMMA SignalHolders ==
  ASSUME IInv, NEW rs \in SUBSET Resources, ResourceSignal(rs),
         NEW r \in Resources, assigned_to'[r] # NULL
  PROVE  \/ r \notin rs /\ assigned_to'[r] = assigned_to[r]
         \/ /\ assigned_to'[r] \in Woken(rs) /\ assigned_to'[r] \in Procs
            /\ state[assigned_to'[r]] = "BLOCK"
<1>1. CASE r \in rs /\ Contended(r)
  <2>1. /\ assigned_to'[r] = Head(enqueued_processes[r])
        /\ enqueued_processes[r] \in Seq(Procs) /\ enqueued_processes[r] # <<>>
    BY <1>1 DEF ResourceSignal, SignalledHolders, IInv, TypeOK, Contended
  <2>2. /\ assigned_to'[r] = enqueued_processes[r][1] /\ 1 \in 1 .. Len(enqueued_processes[r])
        /\ assigned_to'[r] \in Procs
    BY <2>1, AppendHeadTail
  <2>3. state[assigned_to'[r]] = "BLOCK"
    BY <2>2 DEF IInv, WaitingAreBlocked
  <2> QED BY <1>1, <2>1, <2>2, <2>3 DEF Woken
<1>2. CASE ~(r \in rs /\ Contended(r))
  BY <1>2 DEF ResourceSignal, SignalledHolders
<1> QED BY <1>1, <1>2

InTheSystem(p) == state[p] \in {"READY", "EXEC", "BLOCK", "EXIT_PROCESS"}

LEMMA HoldersNext ==
  ASSUME IInv, Holders, Next
  PROVE  Holders'
<1>0. TypeOK
  BY DEF IInv
<1>1. ASSUME UNCHANGED <<assigned_to, lts, held>>,
             \A p \in Procs : InTheSystem(p) => InTheSystem(p)'
      PROVE  Holders'
  BY <1>0, <1>1 DEF Holders, InTheSystem, TypeOK
<1>2. ASSUME NEW t \in Threads, Lts(t) \/ LtsAbort(t) PROVE Holders'
  <2>1. CASE LtsRemove(t)
    <3> DEFINE p == visited
               rs == Released(p)
    <3>1. /\ state[p] = "EXIT_PROCESS" /\ held' = p
          /\ ResourceSignal(rs) /\ state' = Wake(state, rs) /\ rs \in SUBSET Resources
      BY <2>1 DEF LtsRemove, Runs, Released, IInv, Reaping
    <3>2. ASSUME NEW r \in Resources, assigned_to'[r] # NULL
          PROVE  /\ state'[assigned_to'[r]] \in {"READY", "EXEC", "BLOCK", "EXIT_PROCESS"}
                 /\ p # assigned_to'[r]
      <4>1. CASE r \notin rs /\ assigned_to'[r] = assigned_to[r]
        <5>1. assigned_to[r] # p
          BY <4>1 DEF Released
        <5>2. assigned_to[r] \in Procs /\ InTheSystem(assigned_to[r])
          BY <1>0, <3>2, <4>1 DEF TypeOK, Holders, InTheSystem
        <5>3. OnlyWakes
          BY <3>1, SignalWakes
        <5> QED BY <4>1, <5>1, <5>2, <5>3 DEF OnlyWakes, InTheSystem
      <4>2. CASE /\ assigned_to'[r] \in Woken(rs) /\ assigned_to'[r] \in Procs
                 /\ state[assigned_to'[r]] = "BLOCK"
        BY <3>1, <4>2, SignalStates
      <4> QED BY <3>1, <3>2, <4>1, <4>2, SignalHolders
    <3> QED BY <3>1, <3>2 DEF Holders
  <2>2. CASE LtsReap(t)
    <3>0. PICK p \in Procs : p = held
      BY <1>0, <2>2 DEF LtsReap, Runs, TypeOK
    <3>1. /\ state' = [state EXCEPT ![p] = "freed"] /\ lts' = "test" /\ lts = "reap"
          /\ UNCHANGED assigned_to
      BY <2>2, <3>0 DEF LtsReap, Become, resourceVars, Runs
    <3>2. \A r \in Resources : assigned_to[r] # NULL => assigned_to[r] # p
      BY <3>0, <3>1 DEF Holders
    <3> QED BY <1>0, <3>1, <3>2 DEF Holders, TypeOK
  <2>3. CASE LtsAdmit(t)
    <3>1. new_pcbs # <<>> /\ state' = [state EXCEPT ![Head(new_pcbs)] = "READY"]
          /\ lts' = "init" /\ UNCHANGED assigned_to
      BY <2>3 DEF LtsAdmit, CanAdmit, Become, resourceVars
    <3> QED BY <1>0, <3>1 DEF Holders, TypeOK
  <2>4. CASE LtsRemoveOther(t)
    BY <1>1, <2>4 DEF LtsRemoveOther, procVars, resourceVars, ltsVars, InTheSystem
  <2>5. CASE LtsQuiet(t)
    <3>1. UNCHANGED <<assigned_to, state, held>> /\ (lts' = "reap" => lts = "reap")
      BY <1>0, <2>5, QuietStep DEF procVars, resourceVars
    <3> QED BY <3>1 DEF Holders
  <2>6. CASE LtsInit(t) \/ LtsUnlock(t)
    <3>1. UNCHANGED <<assigned_to, state>> /\ lts' # "reap"
      BY <2>6 DEF LtsInit, LtsUnlock, resourceVars, procVars
    <3> QED BY <3>1 DEF Holders
  <2> QED BY <1>2, <2>1, <2>2, <2>3, <2>4, <2>5, <2>6 DEF Lts, LtsQuiet
<1>3. ASSUME NEW p \in Procs, Connect(p) \/ HangUp(p) \/ Submit(p) \/ IoDone(p)
      PROVE  Holders'
  <2>1. UNCHANGED <<assigned_to, lts, held>>
    BY <1>3 DEF Connect, HangUp, Submit, IoDone, resourceVars, ltsVars
  <2>2. \A q \in Procs : InTheSystem(q) => InTheSystem(q)'
    BY <1>0, <1>3
    DEF Connect, HangUp, Submit, IoDone, Become, InTheSystem, IInv, Consoles, TypeOK
  <2> QED BY <1>1, <2>1, <2>2
<1>4. ASSUME MainStep PROVE Holders'
  <2>0. UNCHANGED <<lts, held>>
    BY <1>4, Outside DEF ltsVars
  <2>1. CASE PickPrioritized \/ PickWithFifo
    <3>1. PICK k \in 1 .. Len(active_pcbs) : Picks(k)
      BY <2>1, PickStep
    <3> QED BY <1>0, <1>1, <2>0, <3>1 DEF Picks, resourceVars, InTheSystem, TypeOK
  <2>2. CASE Push \/ CpuLost
    BY <1>1, <2>0, <2>2 DEF Push, CpuLost, procVars, resourceVars, InTheSystem
  <2>3. CASE Settle
    BY <1>0, <1>1, <2>0, <2>3
    DEF Settle, Become, Settled, resourceVars, InTheSystem, TypeOK
  <2>4. CASE Serving
    <3>1. /\ pcb \in Procs /\ state[pcb] = "EXEC" /\ InTheSystem(pcb)'
          /\ \A p \in Procs : InTheSystem(p) => InTheSystem(p)'
      BY <2>4, ServeStep DEF InTheSystem
    <3>2. CASE WaitGranted
      <4>1. \A r \in Resources : \/ assigned_to'[r] = assigned_to[r]
                                 \/ assigned_to'[r] = pcb
        BY <1>0, <3>2 DEF WaitGranted, TypeOK
      <4>2. lts = "reap" => held # pcb
        BY <3>1 DEF IInv, Reaping
      <4>3. InTheSystem(pcb) /\ UNCHANGED state
        BY <3>1, <3>2 DEF WaitGranted, InTheSystem
      <4> QED BY <2>0, <4>1, <4>2, <4>3 DEF Holders, InTheSystem
    <3>3. CASE Signal
      <4> DEFINE rs == {Request.arg}
      <4>1. rs \in SUBSET Resources /\ ResourceSignal(rs) /\ state' = Wake(state, rs)
        BY <3>3 DEF Signal
      <4>2. ASSUME NEW r \in Resources, assigned_to'[r] # NULL
            PROVE  /\ state'[assigned_to'[r]] \in {"READY", "EXEC", "BLOCK", "EXIT_PROCESS"}
                   /\ lts = "reap" => held # assigned_to'[r]
        <5>1. CASE assigned_to'[r] = assigned_to[r]
          <6>1. assigned_to[r] \in Procs /\ InTheSystem(assigned_to[r])
            BY <1>0, <4>2, <5>1 DEF TypeOK, Holders, InTheSystem
          <6>2. OnlyWakes
            BY <4>1, SignalWakes
          <6>3. lts = "reap" => held # assigned_to[r]
            BY <4>2, <5>1 DEF Holders
          <6> QED BY <5>1, <6>1, <6>2, <6>3 DEF OnlyWakes, InTheSystem
        <5>2. CASE /\ assigned_to'[r] \in Woken(rs) /\ assigned_to'[r] \in Procs
                   /\ state[assigned_to'[r]] = "BLOCK"
          BY <4>1, <5>2, SignalStates DEF IInv, Reaping
        <5> QED BY <4>1, <4>2, <5>1, <5>2, SignalHolders
      <4> QED BY <2>0, <4>2 DEF Holders
    <3>4. CASE ~WaitGranted /\ ~Signal
      <4>1. UNCHANGED assigned_to
        BY <2>4, <3>4
        DEF Serving, Yield, InputOutput, UnknownResource, WaitBlocked, Exit, resourceVars
      <4> QED BY <1>1, <2>0, <3>1, <4>1
    <3> QED BY <3>2, <3>3, <3>4
  <2>5. CASE PickWithHrrn
    <3>1. UNCHANGED assigned_to /\ \A p \in Procs : InTheSystem(p) => InTheSystem(p)'
      BY <1>0, <2>5, HrrnMoves DEF HrrnRuns, resourceVars, InTheSystem, TypeOK
    <3> QED BY <1>1, <2>0, <3>1
  <2> QED BY <1>4, <2>1, <2>2, <2>3, <2>4, <2>5 DEF MainStep
<1> QED BY <1>2, <1>3, <1>4, NextByThread

-----------------------------------------------------------------------------
(* The finished PCB and its sweep.                                         *)

(* The kernel only moves while it is up, and only a sweep that takes out   *)
(* another PCB ends it in wrong_pcb.                                       *)
LEMMA UpMoves ==
  ASSUME IInv, Next
  PROVE  /\ kernel = "up"
         /\ kernel' = "wrong_pcb" => \E t \in Threads : LtsRemoveOther(t)
<1> USE DEF Up, Runs
<1>1. CASE \E p \in Procs : Connect(p) \/ HangUp(p) \/ Submit(p) \/ IoDone(p)
  BY <1>1 DEF Connect, HangUp, Submit, IoDone
<1>2. CASE \E t \in Threads : Lts(t) \/ LtsAbort(t)
  <2>1. PICK t \in Threads : Lts(t) \/ LtsAbort(t)
    BY <1>2
  <2>2. CASE LtsQuiet(t)
    BY <2>2, QuietStep DEF IInv
  <2>3. CASE LtsRemove(t) \/ LtsRemoveOther(t) \/ LtsReap(t)
    BY <2>3 DEF LtsRemove, LtsRemoveOther, LtsReap
  <2>4. CASE LtsAdmit(t) \/ LtsInit(t) \/ LtsUnlock(t)
    BY <2>4 DEF LtsAdmit, LtsInit, LtsUnlock
  <2> QED BY <2>1, <2>2, <2>3, <2>4 DEF Lts, LtsQuiet
<1>3. CASE PickWithHrrn
  BY <1>3, HrrnMoves
<1>4. CASE MainStep /\ ~PickWithHrrn
  BY <1>4
  DEF MainStep, PickPrioritized, PickWithFifo, Dispatch, CpuLost, Push, Settle, Serving,
      Yield, InputOutput, UnknownResource, WaitGranted, WaitBlocked, Signal, Exit, Serve
<1> QED BY <1>1, <1>2, <1>3, <1>4, NextByThread

(* Nobody finishes but the PCB that the main loop has just served.         *)
LEMMA FinishedBefore ==
  ASSUME IInv, Next, NEW p \in Procs, state'[p] = "EXIT_PROCESS"
  PROVE  state[p] = "EXIT_PROCESS" \/ (Serving /\ p = pcb)
<1>0. TypeOK
  BY DEF IInv
<1>1. ASSUME NEW q \in Procs, Connect(q) \/ HangUp(q) \/ Submit(q) \/ IoDone(q)
      PROVE  state[p] = "EXIT_PROCESS"
  BY <1>0, <1>1 DEF Connect, HangUp, Submit, IoDone, Become, TypeOK
<1>2. ASSUME NEW t \in Threads, Lts(t) \/ LtsAbort(t) PROVE state[p] = "EXIT_PROCESS"
  <2>1. CASE LtsQuiet(t)
    BY <1>0, <2>1, QuietStep DEF procVars
  <2>2. CASE LtsRemove(t)
    <3>1. state' = Wake(state, Released(visited)) /\ Released(visited) \in SUBSET Resources
      BY <2>2 DEF LtsRemove, Released
    <3> QED BY <3>1, SignalWakes DEF OnlyWakes
  <2>3. CASE LtsReap(t) \/ LtsAdmit(t)
    BY <1>0, <2>3 DEF LtsReap, LtsAdmit, Become, TypeOK
  <2>4. CASE LtsRemoveOther(t) \/ LtsInit(t) \/ LtsUnlock(t)
    BY <2>4 DEF LtsRemoveOther, LtsInit, LtsUnlock, procVars
  <2> QED BY <1>2, <2>1, <2>2, <2>3, <2>4 DEF Lts, LtsQuiet
<1>3. ASSUME MainStep, ~Serving PROVE state[p] = "EXIT_PROCESS"
  <2>1. CASE PickPrioritized \/ PickWithFifo
    BY <1>0, <2>1, PickStep DEF Picks, TypeOK
  <2>2. CASE PickWithHrrn
    <3>1. UNCHANGED state \/ \E q \in Procs : HrrnRuns(q)
      BY <2>2, HrrnMoves
    <3> QED BY <1>0, <3>1 DEF HrrnRuns, TypeOK
  <2>3. CASE Push \/ CpuLost
    BY <2>3 DEF Push, CpuLost, procVars
  <2>4. CASE Settle
    BY <1>0, <2>4 DEF Settle, Become, Settled, TypeOK
  <2> QED BY <1>3, <2>1, <2>2, <2>3, <2>4 DEF MainStep
<1>4. ASSUME Serving, p # pcb PROVE state[p] = "EXIT_PROCESS"
  BY <1>4, ServeStep
<1> QED BY <1>1, <1>2, <1>3, <1>4, NextByThread

(* The main thread leaves the scheduler with nobody finished behind.       *)
LEMMA UnlockedByMain ==
  ASSUME IInv, Ending, Swept, Queued, LtsUnlock(Main), NEW p \in Procs
  PROVE  state[p] # "EXIT_PROCESS"
<1>1. main = "schedule" /\ long_term_scheduler_execution = Main /\ lts = "show"
  BY NullAssumption DEF LtsUnlock, Runs, IInv, OwnerCalls, Calls
<1>2. SUFFICES ASSUME state[p] = "EXIT_PROCESS" PROVE FALSE
  OBVIOUS
<1>3. pcb = p /\ Contains(active_pcbs, pcb)
  BY <1>1, <1>2 DEF Ending, Queued
<1>4. PICK k \in 1 .. Len(active_pcbs) : active_pcbs[k] = p
  BY <1>3 DEF Contains
<1> QED BY <1>1, <1>2, <1>4 DEF Swept, Finished, Reaches, Sweeping

LEMMA EndingNext ==
  ASSUME IInv, Ending, Swept, Queued, Next
  PROVE  Ending'
<1>0. TypeOK
  BY DEF IInv
<1>1. SUFFICES ASSUME NEW p \in Procs, state'[p] = "EXIT_PROCESS"
               PROVE  \/ pcb' = p /\ main' \in {"push", "settle", "schedule"}
                      \/ lts' = "reap" /\ held' = p
  BY DEF Ending
<1>2. state[p] = "EXIT_PROCESS" \/ (Serving /\ p = pcb)
  BY <1>1, FinishedBefore
<1>3. CASE Serving
  BY <1>1, <1>2, <1>3, ServeStep DEF Ending, ltsVars
<1>4. ASSUME ~Serving
      PROVE  \/ pcb = p /\ main \in {"push", "settle", "schedule"}
             \/ lts = "reap" /\ held = p
  BY <1>2, <1>4 DEF Ending
<1>5. ASSUME NEW q \in Procs, Connect(q) \/ HangUp(q) \/ Submit(q) \/ IoDone(q)
      PROVE  UNCHANGED <<main, pcb, lts, held>>
  BY <1>5, MainKept DEF Connect, HangUp, Submit, IoDone, ltsVars
<1>6. ASSUME NEW t \in Threads, Lts(t) \/ LtsAbort(t), ~Serving
      PROVE  \/ pcb' = p /\ main' \in {"push", "settle", "schedule"}
             \/ lts' = "reap" /\ held' = p
  <2>1. CASE LtsQuiet(t)
    <3>1. UNCHANGED <<main, pcb, held>> /\ (lts' = "reap" <=> lts = "reap")
      BY <1>0, <2>1, QuietStep, MainKept
    <3> QED BY <1>4, <1>6, <3>1
  <2>2. CASE LtsRemove(t) \/ LtsAdmit(t) \/ LtsInit(t)
    <3>1. UNCHANGED <<main, pcb>> /\ lts # "reap"
      BY <2>2, MainKept DEF LtsRemove, LtsAdmit, LtsInit, Runs
    <3> QED BY <1>4, <1>6, <3>1
  <2>3. CASE LtsRemoveOther(t)
    <3>1. UNCHANGED <<main, pcb, lts, held>>
      BY <2>3, MainKept DEF LtsRemoveOther, ltsVars
    <3> QED BY <1>4, <1>6, <3>1
  <2>4. CASE LtsReap(t)
    <3>1. UNCHANGED <<main, pcb>> /\ state' = [state EXCEPT ![held] = "freed"]
      BY <2>4, MainKept DEF LtsReap, Become
    <3> QED BY <1>0, <1>1, <1>4, <1>6, <3>1 DEF TypeOK
  <2>5. CASE LtsUnlock(t)
    <3>1. UNCHANGED state /\ lts # "reap"
      BY <2>5 DEF LtsUnlock, Runs
    <3>2. t # Main
      BY <1>1, <2>5, <3>1, UnlockedByMain
    <3>3. UNCHANGED <<main, pcb>>
      BY <2>5, <3>2, MainKept DEF LtsUnlock
    <3> QED BY <1>4, <1>6, <3>1, <3>3
  <2> QED BY <1>6, <2>1, <2>2, <2>3, <2>4, <2>5 DEF Lts, LtsQuiet
<1>7. ASSUME MainStep, ~Serving
      PROVE  \/ pcb' = p /\ main' \in {"push", "settle", "schedule"}
             \/ lts' = "reap" /\ held' = p
  <2>1. UNCHANGED <<lts, held>>
    BY <1>7, Outside DEF ltsVars
  <2>2. CASE PickPrioritized \/ PickWithFifo \/ PickWithHrrn
    <3>1. main \notin {"push", "settle", "schedule"}
      BY <2>2, PickStep, HrrnMoves DEF Picks, Hrrn
    <3> QED BY <1>4, <1>7, <2>1, <3>1
  <2>3. CASE CpuLost
    <3>1. UNCHANGED <<main, pcb>>
      BY <2>3, MainKept DEF CpuLost
    <3> QED BY <1>4, <1>7, <2>1, <3>1
  <2>4. CASE Push
    BY <1>4, <1>7, <2>1, <2>4 DEF Push, Goto
  <2>5. CASE Settle
    <3>1. state[p] = "EXIT_PROCESS"
      BY <1>2, <1>7
    <3>2. pcb = p => main' = "schedule" /\ pcb' = pcb
      BY <2>5, <3>1 DEF Settle, FoundFinished, Goto
    <3> QED BY <1>4, <1>7, <2>1, <3>2
  <2> QED BY <1>7, <2>2, <2>3, <2>4, <2>5 DEF MainStep
<1> QED BY <1>3, <1>4, <1>5, <1>6, <1>7, NextByThread

LEMMA QueuedNext ==
  ASSUME IInv, Placed(Procs), Queued, Next, kernel' # "wrong_pcb"
  PROVE  Queued'
<1>0. TypeOK
  BY DEF IInv
<1>1. SUFFICES ASSUME main' \in {"settle", "schedule"}, state'[pcb'] = "EXIT_PROCESS"
               PROVE  Contains(active_pcbs', pcb') \/ (lts' = "reap" /\ held' = pcb')
  BY DEF Queued
<1>2. ASSUME NEW q \in Procs, Connect(q) \/ HangUp(q) \/ Submit(q) \/ IoDone(q)
      PROVE  /\ UNCHANGED <<main, pcb, lts, held, active_pcbs>>
             /\ state[pcb] = "EXIT_PROCESS"
  <2>1. UNCHANGED <<main, pcb, lts, held, active_pcbs>>
    BY <1>2, MainKept DEF Connect, HangUp, Submit, IoDone, ltsVars, queueVars
  <2>2. pcb \in Procs
    BY <1>0, <1>1, <2>1 DEF TypeOK
  <2>3. ~Serving
    BY <1>1, <2>1, ServeStep
  <2> QED BY <1>1, <2>1, <2>2, <2>3, FinishedBefore
<1>3. ASSUME NEW t \in Threads, Lts(t) \/ LtsAbort(t)
      PROVE  Contains(active_pcbs', pcb') \/ (lts' = "reap" /\ held' = pcb')
  <2>1. UNCHANGED <<main, pcb>>
    <3>1. CASE LtsUnlock(t)
      BY <1>1, <3>1, MainKept DEF LtsUnlock, Goto
    <3>2. CASE LtsQuiet(t)
      BY <1>0, <3>2, QuietStep, MainKept
    <3>3. CASE LtsRemove(t) \/ LtsRemoveOther(t) \/ LtsReap(t) \/ LtsAdmit(t) \/ LtsInit(t)
      BY <3>3, MainKept DEF LtsRemove, LtsRemoveOther, LtsReap, LtsAdmit, LtsInit
    <3> QED BY <1>3, <3>1, <3>2, <3>3 DEF Lts, LtsQuiet
  <2>2. pcb \in Procs /\ main \in {"settle", "schedule"}
    BY <1>0, <1>1, <2>1 DEF TypeOK
  <2>3. ~Serving
    BY <1>1, <2>1, ServeStep
  <2>4. state[pcb] = "EXIT_PROCESS"
    BY <1>1, <2>1, <2>2, <2>3, FinishedBefore
  <2>5. Contains(active_pcbs, pcb) \/ (lts = "reap" /\ held = pcb)
    BY <2>2, <2>4 DEF Queued
  <2>6. CASE LtsQuiet(t)
    BY <1>0, <2>1, <2>5, <2>6, QuietStep DEF queueVars
  <2>7. CASE LtsRemove(t)
    <3>1. /\ i + 1 \in 1 .. Len(active_pcbs) /\ active_pcbs[i + 1] = visited
          /\ active_pcbs' = RemoveAt(active_pcbs, i + 1)
          /\ lts = "remove" /\ lts' = "reap" /\ held' = visited
      BY <1>0, <2>7, Lengths DEF LtsRemove, AtIndex, Runs, TypeOK
    <3>2. \A q : Contains(active_pcbs', q) <=> Contains(active_pcbs, q) /\ q # visited
      BY <3>1, RemoveMembers, QueuesOfProcs DEF Placed
    <3> QED BY <2>1, <2>5, <3>1, <3>2
  <2>8. CASE LtsReap(t)
    <3>1. state' = [state EXCEPT ![held] = "freed"] /\ UNCHANGED active_pcbs
      BY <2>8 DEF LtsReap, Become, queueVars
    <3> QED BY <1>0, <1>1, <2>1, <2>2, <2>5, <3>1 DEF TypeOK
  <2>9. CASE LtsAdmit(t) \/ LtsUnlock(t)
    BY <2>1, <2>5, <2>9 DEF LtsAdmit, LtsUnlock, Runs, queueVars
  <2>10. CASE LtsInit(t)
    <3>1. active_pcbs' = Append(active_pcbs, held) /\ held \in Procs /\ lts = "init"
      BY <1>0, <2>10 DEF LtsInit, Runs, TypeOK
    <3> QED BY <2>1, <2>5, <3>1, AppendMembers, QueuesOfProcs
  <2>11. ~LtsRemoveOther(t)
    BY DEF LtsRemoveOther
  <2> QED BY <1>3, <2>6, <2>7, <2>8, <2>9, <2>10, <2>11 DEF Lts, LtsQuiet
<1>4. ASSUME MainStep
      PROVE  Contains(active_pcbs', pcb') \/ (lts' = "reap" /\ held' = pcb')
  <2>1. UNCHANGED <<lts, held>>
    BY <1>4, Outside DEF ltsVars
  <2>2. ~(PickPrioritized \/ PickWithFifo \/ PickWithHrrn)
    BY <1>1, PickStep, HrrnMoves DEF Picks, Hrrn, HrrnRuns
  <2>3. ~Serving
    BY <1>1, ServeStep
  <2>4. CASE CpuLost
    <3>1. UNCHANGED <<main, pcb, active_pcbs, state>>
      BY <2>4, MainKept DEF CpuLost, queueVars, procVars
    <3> QED BY <1>1, <2>1, <3>1 DEF Queued
  <2>5. CASE Push
    <3>1. active_pcbs' = Append(active_pcbs, pcb) /\ pcb \in Procs /\ pcb' = pcb
      BY <1>0, <2>5 DEF Push, TypeOK
    <3> QED BY <3>1, AppendMembers, QueuesOfProcs
  <2>6. CASE Settle
    <3>1. main = "settle" /\ pcb' = pcb /\ UNCHANGED active_pcbs /\ pcb \in Procs
      BY <1>0, <1>1, <2>6 DEF Settle, Goto, queueVars, TypeOK
    <3>2. state[pcb] = "EXIT_PROCESS"
      BY <1>1, <2>3, <3>1, FinishedBefore
    <3> QED BY <2>1, <3>1, <3>2 DEF Queued
  <2> QED BY <1>4, <2>2, <2>3, <2>4, <2>5, <2>6 DEF MainStep
<1> QED BY <1>1, <1>2, <1>3, <1>4, NextByThread DEF Queued

-----------------------------------------------------------------------------
(* Its own sweep finds it.                                                 *)

(* What Swept says of one position.                                        *)
SweptAt(k) ==
  /\ main \in {"settle", "schedule"}
  /\ long_term_scheduler_execution = Main => Reaches(k)
  /\ \/ Len(active_pcbs) = k
     \/ Len(active_pcbs) = k + 1 /\ (lts \in {"idle", "show", "print"} \/ Reaches(k))

LEMMA SweptBy ==
  /\ Swept <=> \A k \in 1 .. Len(active_pcbs) : Finished(k) => SweptAt(k)
  /\ Swept' <=> \A k \in 1 .. Len(active_pcbs') : Finished(k)' => SweptAt(k)'
  BY DEF Swept, SweptAt

(* While the main loop is elsewhere no PCB of the active queue has         *)
(* finished.                                                               *)
LEMMA NoneFinished ==
  ASSUME Swept, main \notin {"settle", "schedule"}, NEW k \in 1 .. Len(active_pcbs)
  PROVE  state[active_pcbs[k]] # "EXIT_PROCESS"
  BY DEF Swept, Finished

LEMMA FinishedIsPcb ==
  ASSUME IInv, Placed(Procs), Ending, NEW k \in 1 .. Len(active_pcbs), Finished(k)
  PROVE  active_pcbs[k] = pcb
<1>1. active_pcbs[k] \in Procs /\ Contains(active_pcbs, active_pcbs[k])
  BY QueuesOfProcs
<1> QED BY <1>1 DEF Ending, Placed, Finished

LEMMA SweptElsewhere ==
  ASSUME TypeOK', Placed(Procs)', Ending', main' \notin {"settle", "schedule"}
  PROVE  Swept'
<1>1. \A k \in 1 .. Len(active_pcbs') :
        active_pcbs'[k] \in Procs /\ Contains(active_pcbs', active_pcbs'[k])
  BY Lengths, ElementOfSeq DEF TypeOK, Contains
<1>2. \A p \in Procs : Contains(active_pcbs', p) => held' # p /\ ~OnCpu(p)'
  BY DEF Placed
<1>3. ASSUME NEW k \in 1 .. Len(active_pcbs'), state'[active_pcbs'[k]] = "EXIT_PROCESS"
      PROVE  FALSE
  BY <1>1, <1>2, <1>3 DEF Ending, OnCpu, InCpu
<1> QED BY <1>3 DEF Swept, Finished

LEMMA SweptLts ==
  ASSUME IInv, Placed(Procs), Admitting, Ending, Swept, Queued, kernel' # "wrong_pcb",
         NEW t \in Threads, Lts(t) \/ LtsAbort(t)
  PROVE  Swept'
<1>0. /\ TypeOK /\ Len(active_pcbs) \in Nat /\ i \in Nat
      /\ \A k \in 1 .. Len(active_pcbs) : active_pcbs[k] \in Procs
  BY Lengths DEF IInv, TypeOK
<1>1. /\ t # NULL /\ Calls(t)
      /\ ~LtsLock(t) => long_term_scheduler_execution = t
  BY Inside
<1>a. ASSUME UNCHANGED <<active_pcbs, state>>,
             \A k \in 1 .. Len(active_pcbs) : Finished(k) /\ SweptAt(k) => SweptAt(k)'
      PROVE  Swept'
  BY <1>a, SweptBy DEF Finished
<1> USE DEF Sweeping
<1>2. CASE LtsLock(t)
  <2>1. /\ UNCHANGED <<active_pcbs, state, main, pcb>>
        /\ lts' = "test" /\ i' = 0
    BY <1>2, MainKept DEF LtsLock, procVars, queueVars
  <2>2. \A k \in 1 .. Len(active_pcbs) : SweptAt(k) => SweptAt(k)'
    BY <1>0, <2>1 DEF SweptAt, Reaches
  <2> QED BY <1>a, <2>1, <2>2
<1>3. CASE LtsTest(t)
  <2>1. /\ UNCHANGED <<active_pcbs, state, main, pcb, long_term_scheduler_execution, i>>
        /\ lts = "test" /\ lts' = IF i < Len(active_pcbs) THEN "visit" ELSE "admit"
    BY <1>3, MainKept DEF LtsTest, Runs, procVars, queueVars
  <2>2. \A k \in 1 .. Len(active_pcbs) : SweptAt(k) => SweptAt(k)'
    BY <1>0, <2>1 DEF SweptAt, Reaches
  <2> QED BY <1>a, <2>1, <2>2
<1>4. CASE LtsGetNull(t) \/ LtsAbort(t)
  <2>1. UNCHANGED <<active_pcbs, state, main, pcb, long_term_scheduler_execution, i, lts, visited>>
    BY <1>4, MainKept DEF LtsGetNull, LtsAbort, procVars, queueVars, ltsVars
  <2>2. \A k \in 1 .. Len(active_pcbs) : SweptAt(k) => SweptAt(k)'
    BY <1>0, <2>1 DEF SweptAt, Reaches
  <2> QED BY <1>a, <2>1, <2>2
<1>5. CASE LtsVisit(t)
  <2>1. /\ UNCHANGED <<active_pcbs, state, main, pcb, long_term_scheduler_execution, i>>
        /\ lts = "visit" /\ lts' = "look" /\ visited' = active_pcbs[i + 1]
    BY <1>5, MainKept DEF LtsVisit, Runs, procVars, queueVars
  <2>2. \A k \in 1 .. Len(active_pcbs) : SweptAt(k) => SweptAt(k)'
    BY <1>0, <2>1 DEF SweptAt, Reaches
  <2> QED BY <1>a, <2>1, <2>2
<1>6. CASE LtsLookLive(t)
  <2>1. /\ UNCHANGED <<active_pcbs, state, main, pcb, long_term_scheduler_execution>>
        /\ lts = "look" /\ lts' = "test" /\ i' = i + 1
        /\ state[visited] # "EXIT_PROCESS"
    BY <1>6, MainKept DEF LtsLookLive, Runs, procVars, queueVars
  <2>2. ASSUME NEW k \in 1 .. Len(active_pcbs), Finished(k), Reaches(k) PROVE Reaches(k)'
    <3>1. i + 1 # k
      BY <2>1, <2>2 DEF Reaches, Finished
    <3> QED BY <1>0, <2>1, <2>2, <3>1 DEF Reaches
  <2>3. \A k \in 1 .. Len(active_pcbs) : Finished(k) /\ SweptAt(k) => SweptAt(k)'
    BY <1>0, <2>1, <2>2 DEF SweptAt
  <2> QED BY <1>a, <2>1, <2>3
<1>7. CASE LtsLookFinished(t)
  <2>1. /\ UNCHANGED <<active_pcbs, state, main, pcb, long_term_scheduler_execution, i, visited>>
        /\ lts = "look" /\ lts' = "remove"
    BY <1>7, MainKept DEF LtsLookFinished, Runs, procVars, queueVars
  <2>2. \A k \in 1 .. Len(active_pcbs) : SweptAt(k) => SweptAt(k)'
    BY <1>0, <2>1 DEF SweptAt, Reaches
  <2> QED BY <1>a, <2>1, <2>2
<1>8. CASE LtsRemove(t)
  <2> DEFINE p == visited
  <2>1. /\ i + 1 \in 1 .. Len(active_pcbs) /\ active_pcbs[i + 1] = p
        /\ lts = "remove" /\ p \in Procs
        /\ active_pcbs' = RemoveAt(active_pcbs, i + 1)
        /\ state' = Wake(state, Released(p)) /\ Released(p) \in SUBSET Resources
    BY <1>0, <1>8 DEF LtsRemove, AtIndex, Runs, Released, TypeOK
  <2>2. state[p] = "EXIT_PROCESS" /\ p = pcb
    BY <2>1 DEF IInv, Reaping, Ending
  <2>3. ASSUME NEW k \in 1 .. Len(active_pcbs')
        PROVE  state'[active_pcbs'[k]] # "EXIT_PROCESS"
    <3>1. /\ active_pcbs' \in Seq(Procs)
          /\ \A q : Contains(active_pcbs', q) <=> Contains(active_pcbs, q) /\ q # p
      BY <2>1, RemoveMembers, RemoveAtProperties, QueuesOfProcs DEF Placed
    <3>2. PICK q \in Procs : q = active_pcbs'[k]
      BY <3>1, AppendHeadTail
    <3>3. Contains(active_pcbs', q)
      BY <3>2 DEF Contains
    <3>4. PICK l \in 1 .. Len(active_pcbs) : active_pcbs[l] = q /\ q # p
      BY <3>1, <3>3 DEF Contains
    <3>5. state[q] # "EXIT_PROCESS"
      BY <2>2, <3>4, FinishedIsPcb DEF Finished
    <3> QED BY <2>1, <3>2, <3>5, SignalWakes DEF OnlyWakes
  <2> QED BY <2>3 DEF Swept, Finished
<1>9. ASSUME UNCHANGED <<active_pcbs, main, pcb, long_term_scheduler_execution>>,
             lts \in {"reap", "admit"},
             \A k \in 1 .. Len(active_pcbs) : Finished(k)' => Finished(k)
      PROVE  Swept'
  <2>1. \A k \in 1 .. Len(active_pcbs) : SweptAt(k) => SweptAt(k)'
    BY <1>9 DEF SweptAt, Reaches
  <2> QED BY <1>9, <2>1, SweptBy
<1>10. CASE LtsReap(t)
  <2>1. /\ state' = [state EXCEPT ![held] = "freed"] /\ held \in Procs /\ lts = "reap"
        /\ UNCHANGED <<active_pcbs, main, pcb, long_term_scheduler_execution>>
    BY <1>0, <1>10, MainKept DEF LtsReap, Runs, Become, queueVars, TypeOK
  <2> QED BY <1>0, <1>9, <2>1 DEF Finished, TypeOK
<1>11. CASE LtsAdmit(t)
  <2>1. /\ new_pcbs # <<>> /\ state' = [state EXCEPT ![Head(new_pcbs)] = "READY"]
        /\ lts = "admit"
        /\ UNCHANGED <<active_pcbs, main, pcb, long_term_scheduler_execution>>
    BY <1>11, MainKept DEF LtsAdmit, CanAdmit, Become, Runs
  <2> QED BY <1>0, <1>9, <2>1 DEF Finished, TypeOK
<1>12. CASE LtsNothingToAdmit(t)
  <2>1. /\ lts = "admit"
        /\ UNCHANGED <<active_pcbs, main, pcb, long_term_scheduler_execution, state>>
    BY <1>12, MainKept DEF LtsNothingToAdmit, Runs, queueVars, procVars
  <2> QED BY <1>9, <2>1 DEF Finished
<1>13. CASE LtsInit(t)
  <2>1. /\ lts = "init" /\ lts' = "show" /\ UNCHANGED <<main, pcb, state>>
        /\ UNCHANGED long_term_scheduler_execution
        /\ active_pcbs' = Append(active_pcbs, held)
        /\ held \in Procs /\ state[held] = "READY"
    BY <1>0, <1>13, MainKept DEF LtsInit, Runs, procVars, Admitting, TypeOK
  <2>2. /\ Len(active_pcbs') = Len(active_pcbs) + 1
        /\ \A k \in 1 .. Len(active_pcbs) + 1 :
             active_pcbs'[k] = IF k <= Len(active_pcbs) THEN active_pcbs[k] ELSE held
    BY <2>1, AppendHeadTail, QueuesOfProcs
  <2>3. ASSUME NEW k \in 1 .. Len(active_pcbs'), Finished(k)'
        PROVE  SweptAt(k)'
    <3>1. k \in 1 .. Len(active_pcbs) /\ Finished(k) /\ active_pcbs'[k] = active_pcbs[k]
      BY <1>0, <2>1, <2>2, <2>3 DEF Finished
    <3>2. SweptAt(k)
      BY <3>1, SweptBy
    <3> QED BY <1>0, <2>1, <2>2, <3>1, <3>2 DEF SweptAt, Reaches
  <2> QED BY <2>3, SweptBy
<1>14. CASE LtsShow(t) \/ LtsPrint(t)
  <2>1. /\ UNCHANGED <<active_pcbs, state, main, pcb, long_term_scheduler_execution>>
        /\ lts \in {"show", "print"} /\ lts' \in {"show", "print"}
    BY <1>14, MainKept DEF LtsShow, LtsPrint, Runs, procVars, queueVars
  <2>2. \A k \in 1 .. Len(active_pcbs) : SweptAt(k) => SweptAt(k)'
    BY <1>0, <2>1 DEF SweptAt, Reaches
  <2> QED BY <1>a, <2>1, <2>2
<1>15. CASE LtsUnlock(t)
  <2>1. /\ UNCHANGED <<active_pcbs, state>> /\ lts = "show" /\ lts' = "idle"
        /\ long_term_scheduler_execution' = NULL /\ NULL # Main
    BY <1>15, NullAssumption DEF LtsUnlock, Runs, queueVars
  <2>2. CASE t = Main
    <3>1. \A p \in Procs : state[p] # "EXIT_PROCESS"
      BY <1>15, <2>2, UnlockedByMain
    <3> QED BY <1>0, <2>1, <3>1 DEF Swept, Finished
  <2>3. CASE t # Main
    <3>1. UNCHANGED <<main, pcb>>
      BY <1>15, <2>3, MainKept DEF LtsUnlock
    <3>2. \A k \in 1 .. Len(active_pcbs) : SweptAt(k) => SweptAt(k)'
      BY <1>0, <2>1, <3>1 DEF SweptAt, Reaches
    <3> QED BY <1>a, <2>1, <3>2
  <2> QED BY <2>2, <2>3
<1>16. ~LtsRemoveOther(t)
  BY DEF LtsRemoveOther
<1> HIDE DEF Sweeping
<1> QED BY <1>2, <1>3, <1>4, <1>5, <1>6, <1>7, <1>8, <1>10, <1>11, <1>12, <1>13, <1>14, <1>15,
           <1>16 DEF Lts

LEMMA SweptConsole ==
  ASSUME IInv, Swept, NEW p \in Procs,
         Connect(p) \/ HangUp(p) \/ Submit(p) \/ IoDone(p)
  PROVE  Swept'
<1>1. UNCHANGED <<active_pcbs, main, pcb, long_term_scheduler_execution, lts, i, visited>>
  BY MainKept DEF Connect, HangUp, Submit, IoDone, queueVars, ltsVars
<1>2. \A q \in Procs : state'[q] = "EXIT_PROCESS" => state[q] = "EXIT_PROCESS"
  BY DEF Connect, HangUp, Submit, IoDone, Become, IInv, TypeOK
<1> QED BY <1>1, <1>2, Lengths DEF Swept, Finished, Reaches, IInv

LEMMA SweptMain ==
  ASSUME IInv, Placed(Procs), Ending, Swept, MainStep, TypeOK', Placed(Procs)', Ending'
  PROVE  Swept'
<1>0. /\ TypeOK /\ Len(active_pcbs) \in Nat
      /\ \A k \in 1 .. Len(active_pcbs) : active_pcbs[k] \in Procs
  BY Lengths DEF IInv
<1>1. UNCHANGED <<long_term_scheduler_execution, lts, i, visited>>
  BY Outside DEF ltsVars
<1>2. CASE PickPrioritized \/ PickWithFifo \/ PickWithHrrn \/ Serving
  <2>1. main' \notin {"settle", "schedule"}
    BY <1>2, PickStep, HrrnMoves, ServeStep DEF Picks, Hrrn, HrrnRuns
  <2> QED BY <2>1, SweptElsewhere
<1>3. CASE Push
  <2>1. /\ main = "push" /\ main' = "settle" /\ pcb \in Procs
        /\ active_pcbs' = Append(active_pcbs, pcb) /\ UNCHANGED <<state, pcb>>
    BY <1>0, <1>3 DEF Push, Goto, procVars, TypeOK
  <2>2. /\ Len(active_pcbs') = Len(active_pcbs) + 1
        /\ \A k \in 1 .. Len(active_pcbs) + 1 :
             active_pcbs'[k] = IF k <= Len(active_pcbs) THEN active_pcbs[k] ELSE pcb
    BY <2>1, AppendHeadTail, QueuesOfProcs
  <2>3. long_term_scheduler_execution # Main
    BY <2>1, NullAssumption DEF IInv, OwnerCalls, Calls
  <2>4. ASSUME NEW k \in 1 .. Len(active_pcbs'), Finished(k)'
        PROVE  SweptAt(k)'
    <3>1. k = Len(active_pcbs) + 1
      BY <1>0, <2>1, <2>2, <2>4, NoneFinished DEF Finished
    <3> QED BY <1>0, <1>1, <2>1, <2>2, <2>3, <3>1 DEF SweptAt
  <2> QED BY <2>4, SweptBy
<1>4. CASE Settle
  <2>1. /\ pcb \in Procs /\ main = "settle" /\ UNCHANGED active_pcbs
        /\ state' = [state EXCEPT ![pcb] = Settled(pcb)]
        /\ state[pcb] = "EXIT_PROCESS" => main' = "schedule" /\ UNCHANGED pcb
    BY <1>0, <1>4 DEF Settle, Goto, Become, queueVars, FoundFinished, TypeOK
  <2>2. long_term_scheduler_execution # Main
    BY <2>1, NullAssumption DEF IInv, OwnerCalls, Calls
  <2>3. ASSUME NEW k \in 1 .. Len(active_pcbs), Finished(k)'
        PROVE  SweptAt(k)'
    <3>1. Finished(k)
      BY <1>0, <2>1, <2>3 DEF Finished, Settled, TypeOK
    <3>2. SweptAt(k) /\ state[pcb] = "EXIT_PROCESS"
      BY <3>1, SweptBy, FinishedIsPcb DEF Finished
    <3> QED BY <1>1, <2>1, <2>2, <3>2 DEF SweptAt, Reaches
  <2> QED BY <2>1, <2>3, SweptBy
<1>5. CASE CpuLost
  <2>1. UNCHANGED <<active_pcbs, main, pcb, state>>
    BY <1>5, MainKept DEF CpuLost, procVars, queueVars
  <2> QED BY <1>1, <2>1 DEF Swept, Finished, Reaches
<1> QED BY <1>2, <1>3, <1>4, <1>5 DEF MainStep

(* A sweep that takes out another PCB has a finished one in its hands, and *)
(* the main loop has just served it.                                       *)
LEMMA WrongNext ==
  ASSUME IInv, Ending, NEW t \in Threads, LtsRemoveOther(t)
  PROVE  kernel' = "wrong_pcb" /\ lts' = "remove" /\ prioritized_pcb' = NULL
<1>1. /\ lts = "remove" /\ visited \in Procs /\ UNCHANGED <<prioritized_pcb, lts>>
      /\ kernel' = "wrong_pcb"
  BY DEF LtsRemoveOther, Runs, ltsVars, IInv, TypeOK
<1>2. state[visited] = "EXIT_PROCESS"
  BY <1>1 DEF IInv, Reaping
<1>3. pcb = visited /\ main \in {"push", "settle", "schedule"}
  BY <1>1, <1>2 DEF Ending
<1>4. prioritized_pcb \in {NULL, pcb}
  BY <1>3 DEF IInv, Running
<1> QED BY <1>1, <1>2, <1>3, <1>4 DEF IInv, Prioritized

-----------------------------------------------------------------------------
(* Room for the NEW processes.                                             *)

LEMMA RoomTypes ==
  ASSUME TypeOK
  PROVE  /\ Len(active_pcbs) \in Nat /\ Len(new_pcbs) \in Nat /\ Cpu \in Nat
         /\ i \in Nat /\ MaxMultiprogramming \in Nat
  BY Lengths, MaxAssumption DEF TypeOK, Cpu

RoomNow == RoomFor(lts, Len(new_pcbs), Callers, Busy, i)

(* Whom the scheduler owes a call, step by step.                           *)
LEMMA CallersSame ==
  ASSUME UNCHANGED <<console, main>>
  PROVE  Callers' = Callers /\ Cpu' = Cpu
  BY DEF Callers, Calls, Cpu, InCpu

LEMMA CallersUnlock ==
  ASSUME TypeOK, NEW t \in Threads, Calls(t), LtsUnlock(t)
  PROVE  Callers' = Callers \ {t} /\ t \in Callers /\ Cpu' = Cpu
<1>1. CASE t = Main
  <2>1. main' = "pick" /\ main = "schedule" /\ UNCHANGED console
    BY <1>1 DEF LtsUnlock, Goto, Calls
  <2> QED BY <1>1, <2>1, NullAssumption DEF Callers, Calls, Cpu, InCpu
<1>2. CASE t # Main
  <2>1. t \in Procs /\ console' = [console EXCEPT ![t] = "done"] /\ UNCHANGED main
    BY <1>2, MainKept DEF LtsUnlock, Threads
  <2>2. \A u \in Threads : u # Main => u \in Procs
    BY DEF Threads
  <2> QED BY <1>2, <2>1, <2>2, NullAssumption DEF Callers, Calls, TypeOK, Cpu, InCpu
<1> QED BY <1>1, <1>2

LEMMA RoomLts ==
  ASSUME IInv, Swept, RoomNow, kernel' # "wrong_pcb",
         NEW t \in Threads, Lts(t) \/ LtsAbort(t)
  PROVE  RoomNow'
<1>0. TypeOK
  BY DEF IInv
<1> DEFINE a == Len(active_pcbs)
           n == Len(new_pcbs)
           c == Cardinality(Callers)
<1>1. /\ a \in Nat /\ n \in Nat /\ Cpu \in Nat /\ c \in Nat
      /\ i \in Nat /\ MaxMultiprogramming \in Nat
      /\ IsFiniteSet(Callers)
  BY <1>0, RoomTypes, FS_CardinalityType DEF RoomNow, RoomFor
<1>2. Calls(t) /\ t \in Callers /\ (~LtsLock(t) => long_term_scheduler_execution = t)
  BY Inside DEF Callers
<1>3. UNCHANGED mainVars => UNCHANGED main
  BY MainKept
<1> USE DEF Sweeping
<1>4. CASE LtsLock(t)
  <2>1. /\ lts = "idle" /\ lts' = "test" /\ UNCHANGED <<active_pcbs, new_pcbs, console, main>>
    BY <1>0, <1>3, <1>4 DEF LtsLock, procVars, queueVars, TypeOK
  <2>2. Callers' = Callers /\ Cpu' = Cpu
    BY <2>1, CallersSame
  <2> QED BY <1>0, <2>1, <2>2 DEF RoomNow, RoomFor, Busy
<1>5. CASE LtsTest(t) \/ LtsVisit(t) \/ LtsLookFinished(t)
  <2>1. /\ lts \in Sweeping
        /\ lts' \in Sweeping \/ (lts' = "admit" /\ i >= a)
        /\ UNCHANGED <<active_pcbs, new_pcbs, console, main, i>>
    BY <1>1, <1>3, <1>5 DEF LtsTest, LtsVisit, LtsLookFinished, Runs, procVars, queueVars
  <2>2. Callers' = Callers /\ Cpu' = Cpu
    BY <2>1, CallersSame
  <2> QED BY <1>0, <1>1, <2>1, <2>2 DEF RoomNow, RoomFor, Busy
<1>6. CASE LtsGetNull(t) \/ LtsAbort(t)
  <2>1. UNCHANGED <<active_pcbs, new_pcbs, console, main, i, lts>>
    BY <1>3, <1>6 DEF LtsGetNull, LtsAbort, procVars, queueVars, ltsVars
  <2>2. Callers' = Callers /\ Cpu' = Cpu
    BY <2>1, CallersSame
  <2> QED BY <1>0, <2>1, <2>2 DEF RoomNow, RoomFor, Busy
<1>7. CASE LtsLookLive(t)
  <2>1. /\ lts = "look" /\ lts' = "test" /\ i' = i + 1
        /\ UNCHANGED <<active_pcbs, new_pcbs, console, main>>
    BY <1>3, <1>7 DEF LtsLookLive, Runs, procVars, queueVars
  <2>2. Callers' = Callers /\ Cpu' = Cpu
    BY <2>1, CallersSame
  <2> QED BY <1>0, <1>1, <2>1, <2>2 DEF RoomNow, RoomFor, Busy
<1>8. CASE LtsRemove(t)
  <2>1. /\ lts = "remove" /\ lts' = "reap" /\ UNCHANGED <<new_pcbs, console, main, i>>
        /\ i + 1 \in 1 .. a /\ active_pcbs' = RemoveAt(active_pcbs, i + 1)
        /\ state[active_pcbs[i + 1]] = "EXIT_PROCESS"
    BY <1>1, <1>3, <1>8 DEF LtsRemove, AtIndex, Runs, IInv, Reaping
  <2>2. Callers' = Callers /\ Cpu' = Cpu
    BY <2>1, CallersSame
  <2>3. a' = a - 1
    BY <2>1, RemoveAtProperties, QueuesOfProcs
  <2>4. main \in {"settle", "schedule"} /\ (a = i + 1 \/ a = i + 2)
    BY <1>1, <2>1 DEF Swept, Finished
  <2>5. Cpu = 0
    BY <2>4 DEF Cpu, InCpu
  <2> QED BY <1>0, <1>1, <2>1, <2>2, <2>3, <2>4, <2>5 DEF RoomNow, RoomFor, Busy
<1>9. CASE LtsReap(t)
  <2>1. /\ lts = "reap" /\ lts' = "test" /\ i' = i + 1
        /\ UNCHANGED <<active_pcbs, new_pcbs, console, main>>
    BY <1>3, <1>9 DEF LtsReap, Runs, queueVars
  <2>2. Callers' = Callers /\ Cpu' = Cpu
    BY <2>1, CallersSame
  <2> QED BY <1>0, <1>1, <2>1, <2>2 DEF RoomNow, RoomFor, Busy
<1>10. CASE LtsAdmit(t)
  <2>1. /\ lts = "admit" /\ lts' = "init" /\ new_pcbs # <<>> /\ new_pcbs' = Tail(new_pcbs)
        /\ UNCHANGED <<active_pcbs, console, main>>
    BY <1>3, <1>10 DEF LtsAdmit, CanAdmit, Runs
  <2>2. Callers' = Callers /\ Cpu' = Cpu
    BY <2>1, CallersSame
  <2>3. n' = n - 1
    BY <2>1, AppendHeadTail, QueuesOfProcs
  <2> QED BY <1>0, <1>1, <2>1, <2>2, <2>3 DEF RoomNow, RoomFor, Busy
<1>11. CASE LtsNothingToAdmit(t)
  <2>1. /\ lts = "admit" /\ lts' = "show" /\ ~CanAdmit
        /\ UNCHANGED <<active_pcbs, new_pcbs, console, main>>
    BY <1>3, <1>11 DEF LtsNothingToAdmit, Runs, queueVars, procVars
  <2>2. Callers' = Callers /\ Cpu' = Cpu
    BY <2>1, CallersSame
  <2>3. c >= 1
    BY <1>1, <1>2, FS_EmptySet
  <2>4. n = 0 \/ a >= MaxMultiprogramming
    BY <1>1, <2>1, EmptySeq DEF CanAdmit
  <2> QED BY <1>0, <1>1, <2>1, <2>2, <2>3, <2>4 DEF RoomNow, RoomFor, Busy
<1>12. CASE LtsInit(t)
  <2>1. /\ lts = "init" /\ lts' = "show" /\ held \in Procs
        /\ active_pcbs' = Append(active_pcbs, held)
        /\ UNCHANGED <<new_pcbs, console, main>>
    BY <1>0, <1>3, <1>12 DEF LtsInit, Runs, procVars, TypeOK
  <2>2. Callers' = Callers /\ Cpu' = Cpu
    BY <2>1, CallersSame
  <2>3. a' = a + 1
    BY <2>1, AppendHeadTail, QueuesOfProcs
  <2> QED BY <1>0, <1>1, <2>1, <2>2, <2>3 DEF RoomNow, RoomFor, Busy
<1>13. CASE LtsShow(t) \/ LtsPrint(t)
  <2>1. /\ lts \in {"show", "print"} /\ lts' \in {"show", "print"}
        /\ UNCHANGED <<active_pcbs, new_pcbs, console, main>>
    BY <1>3, <1>13 DEF LtsShow, LtsPrint, Runs, procVars, queueVars
  <2>2. Callers' = Callers /\ Cpu' = Cpu
    BY <2>1, CallersSame
  <2> QED BY <1>0, <2>1, <2>2 DEF RoomNow, RoomFor, Busy
<1>14. CASE LtsUnlock(t)
  <2>1. /\ lts = "show" /\ lts' = "idle" /\ UNCHANGED <<active_pcbs, new_pcbs>>
    BY <1>14 DEF LtsUnlock, Runs, queueVars
  <2>2. Callers' = Callers \ {t} /\ t \in Callers /\ Cpu' = Cpu
    BY <1>0, <1>2, <1>14, CallersUnlock
  <2>3. IsFiniteSet(Callers') /\ c' = c - 1
    BY <1>1, <2>2, FS_RemoveElement
  <2> QED BY <1>0, <1>1, <2>1, <2>2, <2>3 DEF RoomNow, RoomFor, Busy
<1>15. ~LtsRemoveOther(t)
  BY DEF LtsRemoveOther
<1> QED BY <1>4, <1>5, <1>6, <1>7, <1>8, <1>9, <1>10, <1>11, <1>12, <1>13, <1>14, <1>15 DEF Lts

LEMMA RoomConsole ==
  ASSUME IInv, RoomNow, NEW p \in Procs,
         Connect(p) \/ HangUp(p) \/ Submit(p) \/ IoDone(p)
  PROVE  RoomNow'
<1>0. TypeOK /\ IsFiniteSet(Callers)
  BY DEF IInv, RoomNow, RoomFor
<1>1. UNCHANGED <<active_pcbs, main, lts, i>> /\ Cpu' = Cpu
  BY MainKept DEF Connect, HangUp, Submit, IoDone, queueVars, ltsVars, Cpu, InCpu
<1>2. CASE ~Submit(p)
  <2>1. UNCHANGED new_pcbs
    BY <1>2 DEF Connect, HangUp, IoDone, queueVars
  <2>2. \/ UNCHANGED console
        \/ /\ console[p] \in {"none", "greeted"}
           /\ \E s \in {"greeted", "done"} : console' = [console EXCEPT ![p] = s]
    BY <1>2 DEF Connect, HangUp, IoDone
  <2>3. \A q \in Procs : console'[q] = "schedule" <=> console[q] = "schedule"
    BY <1>0, <2>2 DEF TypeOK
  <2>4. Callers' = Callers
    BY <1>1, <2>3 DEF Callers, Calls, Threads
  <2> QED BY <1>0, <1>1, <2>1, <2>4 DEF RoomNow, RoomFor, Busy
<1>3. CASE Submit(p)
  <2>1. /\ console[p] = "greeted" /\ console' = [console EXCEPT ![p] = "schedule"]
        /\ new_pcbs' = Append(new_pcbs, p)
    BY <1>3 DEF Submit
  <2>2. Callers' = Callers \cup {p} /\ p \notin Callers
    <3>1. \A q \in Procs : console'[q] = "schedule" <=> console[q] = "schedule" \/ q = p
      BY <1>0, <2>1 DEF TypeOK
    <3> QED BY <1>1, <2>1, <3>1, NullAssumption DEF Callers, Calls, Threads
  <2>3. IsFiniteSet(Callers') /\ Cardinality(Callers') = Cardinality(Callers) + 1
    BY <1>0, <2>2, FS_AddElement
  <2>4. Len(new_pcbs') = Len(new_pcbs) + 1 /\ Len(new_pcbs) \in Nat
    BY <2>1, AppendHeadTail, QueuesOfProcs
  <2>5. Cardinality(Callers) \in Nat
    BY <1>0, FS_CardinalityType
  <2> QED BY <1>0, <1>1, <2>3, <2>4, <2>5, RoomTypes DEF RoomNow, RoomFor, Busy
<1> QED BY <1>2, <1>3

LEMMA RoomMain ==
  ASSUME IInv, RoomNow, ~AlgorithmIsHrrn, MainStep
  PROVE  RoomNow'
<1>0. TypeOK /\ IsFiniteSet(Callers)
  BY DEF IInv, RoomNow, RoomFor
<1> DEFINE a == Len(active_pcbs)
<1>1. UNCHANGED <<lts, i>> /\ a \in Nat /\ Cpu \in Nat /\ Len(new_pcbs) \in Nat
  BY <1>0, Outside, RoomTypes DEF ltsVars
<1>2. ASSUME UNCHANGED <<new_pcbs, console>>, main' # "schedule", main # "schedule",
             a' + Cpu' = a + Cpu
      PROVE  RoomNow'
  <2>1. Callers' = Callers
    BY <1>2 DEF Callers, Calls
  <2> QED BY <1>0, <1>1, <1>2, <2>1 DEF RoomNow, RoomFor, Busy
<1>3. CASE PickPrioritized \/ PickWithFifo
  <2>1. PICK k \in 1 .. Len(active_pcbs) : Picks(k)
    BY <1>3, PickStep
  <2>2. a' = a - 1 /\ Cpu = 0 /\ Cpu' = 1
    BY <2>1, RemoveAtProperties, QueuesOfProcs DEF Picks, Cpu, InCpu
  <2> QED BY <1>1, <1>2, <2>1, <2>2 DEF Picks
<1>4. CASE Serving
  BY <1>2, <1>4, ServeStep DEF Cpu, InCpu
<1>5. CASE Push
  <2>1. /\ main = "push" /\ main' = "settle" /\ pcb \in Procs
        /\ active_pcbs' = Append(active_pcbs, pcb) /\ UNCHANGED <<new_pcbs, console>>
    BY <1>0, <1>5 DEF Push, Goto, procVars, TypeOK
  <2>2. a' = a + 1 /\ Cpu = 1 /\ Cpu' = 0
    BY <2>1, AppendHeadTail, QueuesOfProcs DEF Cpu, InCpu
  <2> QED BY <1>1, <1>2, <2>1, <2>2
<1>6. CASE Settle
  <2>1. /\ main = "settle" /\ main' \in {"schedule", "pick"}
        /\ UNCHANGED <<active_pcbs, new_pcbs, console>>
    BY <1>6 DEF Settle, Goto, queueVars
  <2>2. a' = a /\ Cpu = 0 /\ Cpu' = 0
    BY <2>1 DEF Cpu, InCpu
  <2>3. CASE main' = "pick"
    BY <1>1, <1>2, <2>1, <2>2, <2>3
  <2>4. CASE main' = "schedule"
    <3>1. Callers' = Callers \cup {Main} /\ Main \notin Callers
      BY <2>1, <2>4 DEF Callers, Calls, Threads
    <3>2. IsFiniteSet(Callers') /\ Cardinality(Callers') = Cardinality(Callers) + 1
      BY <1>0, <3>1, FS_AddElement
    <3>3. Cardinality(Callers) \in Nat
      BY <1>0, FS_CardinalityType
    <3> QED BY <1>0, <1>1, <2>1, <2>2, <3>2, <3>3 DEF RoomNow, RoomFor, Busy
  <2> QED BY <2>1, <2>3, <2>4
<1>7. CASE CpuLost
  <2>1. UNCHANGED <<active_pcbs, new_pcbs, console, main>> /\ main = "cpu"
    BY <1>7, MainKept DEF CpuLost, procVars, queueVars
  <2> QED BY <1>2, <2>1 DEF Cpu, InCpu
<1>8. ~PickWithHrrn
  BY HrrnMoves DEF IInv, HandsFull
<1> QED BY <1>3, <1>4, <1>5, <1>6, <1>7, <1>8 DEF MainStep

-----------------------------------------------------------------------------
(* The degree of multiprogramming.                                         *)

(* Without HRRN nobody is in its hands.                                    *)
LEMMA HandsEmpty ==
  ASSUME IInv, ~AlgorithmIsHrrn
  PROVE  InHands = <<>> /\ queue_temporal = <<>> /\ queue_fifo = <<>> /\ next_pcb = NULL
<1>1. main \notin Hrrn
  BY DEF IInv, HandsFull
<1>2. queue_temporal = <<>> /\ queue_fifo = <<>> /\ next_pcb = NULL
  BY <1>1 DEF IInv, HandsFull, BestSoFar, Hrrn
<1>3. <<>> \in Seq(Procs) /\ Len(<<>>) = 0
  BY EmptySeq
<1>4. <<>> \o <<>> = <<>>
  BY <1>3, ConcatMembers, EmptySeq
<1> QED BY <1>2, <1>4 DEF InHands, Walking

Coming == IF lts = "init" THEN 1 ELSE 0

LEMMA DegreeIs ==
  ASSUME IInv, ~AlgorithmIsHrrn
  PROVE  /\ Degree = Len(active_pcbs) + Cpu + Coming
         /\ Len(active_pcbs) \in Nat /\ Cpu \in Nat /\ Coming \in Nat
<1>1. Len(InHands) = 0
  BY HandsEmpty, EmptySeq
<1>2. Len(active_pcbs) \in Nat /\ Cpu \in {0, 1} /\ Coming \in {0, 1}
  BY RoomTypes DEF IInv, Cpu, Coming
<1> QED BY <1>1, <1>2 DEF Degree, Cpu, Coming

(* Only an admission makes the degree grow, below the maximum.             *)
LEMMA DegreeLts ==
  ASSUME IInv, IInv', ~AlgorithmIsHrrn, MultiprogrammingBound,
         NEW t \in Threads, Lts(t) \/ LtsAbort(t)
  PROVE  MultiprogrammingBound'
<1> DEFINE a == Len(active_pcbs)
<1>0. TypeOK
  BY DEF IInv
<1>1. /\ Degree = a + Cpu + Coming /\ Degree' = a' + Cpu' + Coming'
      /\ a \in Nat /\ Cpu \in Nat /\ Coming \in Nat /\ a' \in Nat
      /\ MaxMultiprogramming \in Nat /\ Cpu \in {0, 1}
      /\ Degree <= MaxMultiprogramming + 1
  <2>1. Degree' = Len(active_pcbs') + Cpu' + Coming' /\ Len(active_pcbs') \in Nat
    <3>1. InHands' = <<>>
      <4>1. main' \notin Hrrn
        BY DEF IInv, HandsFull
      <4>2. queue_temporal' = <<>> /\ queue_fifo' = <<>> /\ next_pcb' = NULL
        BY <4>1 DEF IInv, HandsFull, BestSoFar, Hrrn
      <4>3. <<>> \o <<>> = <<>>
        BY EmptySeq, ConcatMembers
      <4> QED BY <4>2, <4>3 DEF InHands, Walking
    <3>2. Len(active_pcbs') \in Nat /\ Cpu' \in {0, 1} /\ Coming' \in {0, 1}
      BY Lengths DEF IInv, TypeOK, Cpu, Coming
    <3> QED BY <3>1, <3>2, EmptySeq DEF Degree, Cpu, Coming
  <2> QED BY <2>1, DegreeIs, MaxAssumption DEF MultiprogrammingBound, Cpu
<1>2. CASE LtsQuiet(t)
  <2>1. UNCHANGED <<active_pcbs, main>> /\ (lts' = "init" <=> lts = "init")
    BY <1>0, <1>2, QuietStep, MainKept DEF queueVars
  <2> QED BY <1>1, <2>1 DEF MultiprogrammingBound, Cpu, InCpu, Coming
<1>3. CASE LtsRemove(t) \/ LtsRemoveOther(t)
  <2>1. a' <= a
    <3>1. CASE i < a
      <4>1. i + 1 \in 1 .. a /\ active_pcbs' = RemoveAt(active_pcbs, i + 1)
        BY <1>0, <1>1, <1>3, <3>1 DEF LtsRemove, LtsRemoveOther, TypeOK
      <4> QED BY <1>1, <4>1, RemoveAtProperties, QueuesOfProcs
    <3>2. CASE ~(i < a)
      BY <1>1, <1>3, <3>2 DEF LtsRemove, AtIndex, LtsRemoveOther
    <3> QED BY <3>1, <3>2
  <2>2. Coming' = 0 /\ Cpu' = Cpu
    BY <1>3, MainKept DEF LtsRemove, LtsRemoveOther, Runs, ltsVars, Coming, Cpu, InCpu
  <2> QED BY <1>1, <2>1, <2>2 DEF MultiprogrammingBound
<1>4. CASE LtsReap(t)
  <2>1. UNCHANGED <<active_pcbs, main>> /\ lts' = "test"
    BY <1>4, MainKept DEF LtsReap, queueVars
  <2>2. Coming' = 0 /\ Cpu' = Cpu
    BY <2>1 DEF Coming, Cpu, InCpu
  <2> QED BY <1>1, <2>1, <2>2 DEF MultiprogrammingBound
<1>5. CASE LtsAdmit(t)
  <2>1. UNCHANGED <<active_pcbs, main>> /\ a < MaxMultiprogramming /\ lts' = "init"
    BY <1>5, MainKept DEF LtsAdmit, CanAdmit
  <2>2. Coming' = 1 /\ Cpu' = Cpu
    BY <2>1 DEF Coming, Cpu, InCpu
  <2> QED BY <1>1, <2>1, <2>2 DEF MultiprogrammingBound
<1>6. CASE LtsInit(t)
  <2>1. /\ active_pcbs' = Append(active_pcbs, held) /\ held \in Procs /\ UNCHANGED main
        /\ lts = "init" /\ lts' = "show"
    BY <1>0, <1>6, MainKept DEF LtsInit, Runs, TypeOK
  <2>2. a' = a + 1
    BY <2>1, AppendHeadTail, QueuesOfProcs
  <2> QED BY <1>1, <2>1, <2>2 DEF MultiprogrammingBound, Cpu, InCpu, Coming
<1>7. CASE LtsUnlock(t)
  <2>1. UNCHANGED active_pcbs /\ lts' = "idle" /\ Calls(t)
    BY <1>7, Inside DEF LtsUnlock, queueVars
  <2>2. Cpu' = Cpu
    BY <1>0, <1>7, <2>1, CallersUnlock
  <2> QED BY <1>1, <2>1, <2>2 DEF MultiprogrammingBound, Coming
<1> QED BY <1>2, <1>3, <1>4, <1>5, <1>6, <1>7 DEF Lts, LtsQuiet

LEMMA DegreeOthers ==
  ASSUME IInv, IInv', ~AlgorithmIsHrrn, MultiprogrammingBound,
         (\E p \in Procs : Connect(p) \/ HangUp(p) \/ Submit(p) \/ IoDone(p)) \/ MainStep
  PROVE  MultiprogrammingBound'
<1> DEFINE a == Len(active_pcbs)
<1>0. TypeOK /\ a \in Nat /\ Cpu \in Nat
  BY DegreeIs DEF IInv
<1>1. UNCHANGED lts
  BY Outside DEF ltsVars
<1>2. ASSUME a' + Cpu' = a + Cpu PROVE MultiprogrammingBound'
  <2>1. Degree = a + Cpu + Coming
    BY DegreeIs
  <2>2. Degree' = a' + Cpu' + Coming'
    <3>1. main' \notin Hrrn
      BY DEF IInv, HandsFull
    <3>2. queue_temporal' = <<>> /\ queue_fifo' = <<>> /\ next_pcb' = NULL
      BY <3>1 DEF IInv, HandsFull, BestSoFar, Hrrn
    <3>3. <<>> \o <<>> = <<>>
      BY EmptySeq, ConcatMembers
    <3>4. InHands' = <<>>
      BY <3>2, <3>3 DEF InHands, Walking
    <3>5. Len(active_pcbs') \in Nat /\ Cpu' \in {0, 1} /\ Coming' \in {0, 1}
      BY Lengths DEF IInv, TypeOK, Cpu, Coming
    <3> QED BY <3>4, <3>5, EmptySeq DEF Degree, Cpu, Coming
  <2>3. Coming' = Coming
    BY <1>1 DEF Coming
  <2> QED BY <1>2, <2>1, <2>2, <2>3 DEF MultiprogrammingBound
<1>3. CASE \E p \in Procs : Connect(p) \/ HangUp(p) \/ Submit(p) \/ IoDone(p)
  BY <1>2, <1>3, MainKept DEF Connect, HangUp, Submit, IoDone, queueVars, Cpu, InCpu
<1>4. CASE PickPrioritized \/ PickWithFifo
  <2>1. PICK k \in 1 .. Len(active_pcbs) : Picks(k)
    BY <1>4, PickStep
  <2>2. a' = a - 1 /\ Cpu = 0 /\ Cpu' = 1
    BY <2>1, RemoveAtProperties, QueuesOfProcs DEF Picks, Cpu, InCpu
  <2> QED BY <1>0, <1>2, <2>2
<1>5. CASE Serving
  BY <1>2, <1>5, ServeStep DEF Cpu, InCpu
<1>6. CASE Push
  <2>1. /\ main = "push" /\ main' = "settle" /\ pcb \in Procs
        /\ active_pcbs' = Append(active_pcbs, pcb)
    BY <1>0, <1>6 DEF Push, Goto, TypeOK
  <2>2. a' = a + 1 /\ Cpu = 1 /\ Cpu' = 0
    BY <2>1, AppendHeadTail, QueuesOfProcs DEF Cpu, InCpu
  <2> QED BY <1>0, <1>2, <2>2
<1>7. CASE Settle
  BY <1>2, <1>7 DEF Settle, Goto, queueVars, Cpu, InCpu
<1>8. CASE CpuLost
  BY <1>2, <1>8, MainKept DEF CpuLost, queueVars, Cpu, InCpu
<1>9. ~PickWithHrrn
  BY HrrnMoves DEF IInv, HandsFull
<1> QED BY <1>3, <1>4, <1>5, <1>6, <1>7, <1>8, <1>9 DEF MainStep

-----------------------------------------------------------------------------
(* Nobody waits for a free instance.                                       *)

LEMMA SignalFree ==
  ASSUME TypeOK, NobodyWaitsForAFreeInstance, NEW rs \in SUBSET Resources,
         ResourceSignal(rs)
  PROVE  NobodyWaitsForAFreeInstance'
<1> SUFFICES ASSUME NEW r \in Resources, enqueued_processes'[r] # <<>>
             PROVE  available_instances'[r] = 0
  BY DEF NobodyWaitsForAFreeInstance, Contended
<1>1. Contended(r)
  BY DEF ResourceSignal, SignalledQueues, Contended
<1> QED BY <1>1 DEF ResourceSignal, SignalledInstances, NobodyWaitsForAFreeInstance

LEMMA FreeNext ==
  ASSUME IInv, NobodyWaitsForAFreeInstance, Next
  PROVE  NobodyWaitsForAFreeInstance'
<1>0. TypeOK
  BY DEF IInv
<1>1. ASSUME UNCHANGED <<available_instances, enqueued_processes>>
      PROVE  NobodyWaitsForAFreeInstance'
  BY <1>1 DEF NobodyWaitsForAFreeInstance, Contended
<1>2. ASSUME NEW t \in Threads, LtsRemove(t)
      PROVE  NobodyWaitsForAFreeInstance'
  <2>1. PICK rs \in SUBSET Resources : ResourceSignal(rs)
    BY <1>2 DEF LtsRemove, Released
  <2> QED BY <1>0, <2>1, SignalFree
<1>3. CASE Signal
  BY <1>0, <1>3, SignalFree DEF Signal
<1>4. CASE WaitBlocked
  <2>1. available_instances[Request.arg] = 0
    BY <1>0, <1>4 DEF WaitBlocked, CanTake, TypeOK
  <2>2. \A r \in Resources : r # Request.arg => enqueued_processes'[r] = enqueued_processes[r]
    BY <1>0, <1>4 DEF WaitBlocked, TypeOK
  <2>3. UNCHANGED available_instances
    BY <1>4 DEF WaitBlocked
  <2> QED BY <2>1, <2>2, <2>3 DEF NobodyWaitsForAFreeInstance, Contended
<1>5. CASE WaitGranted
  <2>1. available_instances[Request.arg] # 0 /\ UNCHANGED enqueued_processes
    BY <1>5 DEF WaitGranted, CanTake
  <2>2. \A r \in Resources : r # Request.arg => available_instances'[r] = available_instances[r]
    BY <1>0, <1>5 DEF WaitGranted, TypeOK
  <2> QED BY <2>1, <2>2 DEF NobodyWaitsForAFreeInstance, Contended
<1>6. CASE PickPrioritized \/ PickWithFifo
  BY <1>1, <1>6, PickStep DEF Picks, resourceVars
<1>7. CASE Yield \/ InputOutput \/ UnknownResource \/ Exit \/ Push \/ Settle \/ CpuLost
  BY <1>1, <1>7
  DEF Yield, InputOutput, UnknownResource, Exit, Push, Settle, CpuLost, resourceVars
<1>8. ASSUME NEW p \in Procs, Connect(p) \/ HangUp(p) \/ Submit(p) \/ IoDone(p)
      PROVE  NobodyWaitsForAFreeInstance'
  BY <1>1, <1>8 DEF Connect, HangUp, Submit, IoDone, resourceVars
<1>9. ASSUME NEW t \in Threads, Lts(t) \/ LtsAbort(t), ~LtsRemove(t)
      PROVE  NobodyWaitsForAFreeInstance'
  <2>1. LtsQuiet(t) => UNCHANGED resourceVars
    BY <1>0, QuietStep
  <2> QED BY <1>1, <1>9, <2>1
          DEF Lts, LtsQuiet, LtsRemoveOther, LtsReap, LtsAdmit, LtsInit, LtsUnlock, resourceVars
<1>10. CASE PickWithHrrn
  BY <1>1, <1>10, HrrnMoves DEF resourceVars
<1> QED BY <1>2, <1>3, <1>4, <1>5, <1>6, <1>7, <1>8, <1>9, <1>10, NextByThread
        DEF MainStep, Serving

-----------------------------------------------------------------------------
(* The invariants, and what follows from them.                             *)

LEMMA PlacesInit == Init => PlacesInv
<1> SUFFICES ASSUME Init PROVE PlacesInv
  OBVIOUS
<1>1. IInv /\ TypeOK
  BY InvInit, TypeInit
<1>2. /\ new_pcbs = <<>> /\ active_pcbs = <<>> /\ queue_temporal = <<>> /\ queue_fifo = <<>>
      /\ Len(<<>>) = 0 /\ \A p : ~Contains(<<>>, p)
  BY EmptySeq DEF Init, Contains
<1>3. IsInjective(<<>>)
  BY <1>1, <1>2, LenProperties DEF TypeOK, IsInjective
<1>4. Placed({}) /\ Placed(Procs)
  BY <1>2, <1>3, NullAssumption
  DEF Init, Placed, Somewhere, InQueues, OnCpu, InCpu, Live, Submitted
<1>5. /\ Admitting /\ Holders /\ Ending /\ Sweep /\ NobodyWaitsForAFreeInstance
  BY <1>2
  DEF Init, Admitting, Holders, Ending, Sweep, Swept, Queued, NobodyWaitsForAFreeInstance,
      Contended
<1>6. Room
  <2>1. Callers = {}
    BY NullAssumption DEF Init, Callers, Calls, Threads
  <2> QED BY <1>2, <2>1, FS_EmptySet DEF Init, Room, RoomFor, Sweeping
<1>7. MultiprogrammingBound
  <2>1. <<>> \o <<>> = <<>>
    BY EmptySeq, ConcatMembers
  <2>2. Degree = 0
    BY <1>2, <2>1 DEF Init, Degree, InHands, Walking, InCpu
  <2> QED BY <2>2, MaxAssumption DEF MultiprogrammingBound
<1> QED BY <1>1, <1>4, <1>5, <1>6, <1>7 DEF PlacesInv, SharedInv, OnePlace

LEMMA Stutter ==
  UNCHANGED vars =>
    /\ UNCHANGED <<kernel, console, state, instructions, program_counter, io, new_pcbs,
                   active_pcbs, prioritized_pcb, available_instances, assigned_to,
                   enqueued_processes, main, pcb, next_pcb, queue_temporal, queue_fifo>>
    /\ UNCHANGED <<hrrnVars, long_term_scheduler_execution, lts, i, visited, held>>
  BY DEF vars, procVars, queueVars, resourceVars, mainVars, hrrnVars, ltsVars

LEMMA SharedStutter == SharedInv /\ IInv' /\ UNCHANGED vars => SharedInv'
<1> SUFFICES ASSUME SharedInv, IInv', UNCHANGED vars PROVE SharedInv'
  OBVIOUS
<1>1. /\ UNCHANGED <<kernel, console, state, instructions, new_pcbs, active_pcbs, held>>
      /\ UNCHANGED <<prioritized_pcb, available_instances, assigned_to, enqueued_processes>>
      /\ UNCHANGED <<main, pcb, long_term_scheduler_execution, lts, i, visited, hrrnVars>>
  BY Stutter
<1>2. Placed(Procs)'
  BY <1>1, PlaceFrame DEF SharedInv, OnCpu, InCpu, Live, Submitted
<1>3. Admitting' /\ Holders' /\ Ending' /\ NobodyWaitsForAFreeInstance'
  BY <1>1 DEF SharedInv, Admitting, Holders, Ending, NobodyWaitsForAFreeInstance, Contended
<1>4. Sweep'
  BY <1>1 DEF SharedInv, Sweep, Swept, Queued, Finished, Reaches
<1> QED BY <1>2, <1>3, <1>4 DEF SharedInv

(* Every step keeps the invariant of the places ...                        *)
LEMMA SharedNext == SharedInv /\ [Next]_vars => SharedInv'
<1> SUFFICES ASSUME SharedInv, [Next]_vars PROVE SharedInv'
  OBVIOUS
<1>1. IInv'
  BY InvNext DEF SharedInv
<1>2. CASE UNCHANGED vars
  BY <1>1, <1>2, SharedStutter
<1>3. CASE Next
  <2>1. /\ IInv /\ Placed(Procs) /\ Admitting /\ Holders /\ Ending
        /\ NobodyWaitsForAFreeInstance /\ Swept /\ Queued
    BY <1>3, UpMoves DEF SharedInv, Sweep
  <2>2. Admitting' /\ Holders' /\ NobodyWaitsForAFreeInstance' /\ Ending'
    BY <1>3, <2>1, AdmittingNext, HoldersNext, FreeNext, EndingNext
  <2>3. Placed(Procs)'
    BY <1>3, <2>1, PlaceConsole, PlaceLts, PlaceMain, NextByThread
  <2>4. CASE kernel' = "wrong_pcb"
    <3>1. Sweep'
      BY <1>3, <2>1, <2>4, UpMoves, WrongNext DEF Sweep
    <3> QED BY <1>1, <2>2, <2>3, <3>1 DEF SharedInv
  <2>5. CASE kernel' # "wrong_pcb"
    <3>1. Queued'
      BY <1>3, <2>1, <2>5, QueuedNext
    <3>2. TypeOK'
      BY <1>1 DEF IInv
    <3>3. Swept'
      BY <1>3, <2>1, <2>2, <2>3, <2>5, <3>2, SweptConsole, SweptLts, SweptMain, NextByThread
    <3>4. Sweep'
      BY <2>5, <3>1, <3>3 DEF Sweep
    <3> QED BY <1>1, <2>2, <2>3, <3>4 DEF SharedInv
  <2> QED BY <2>4, <2>5
<1> QED BY <1>2, <1>3

(* ... and with FIFO nobody is lost, no room is wasted and the degree is   *)
(* bounded.                                                                *)
LEMMA PlacesNext ==
  ASSUME ~AlgorithmIsHrrn
  PROVE  PlacesInv /\ [Next]_vars => PlacesInv'
<1> SUFFICES ASSUME PlacesInv, [Next]_vars PROVE PlacesInv'
  OBVIOUS
<1>1. SharedInv /\ SharedInv' /\ IInv /\ IInv'
  BY SharedNext DEF PlacesInv, SharedInv
<1>2. CASE UNCHANGED vars
  <2>1. /\ UNCHANGED <<kernel, console, state, instructions, new_pcbs, active_pcbs, held>>
        /\ UNCHANGED <<main, pcb, lts, i, hrrnVars, next_pcb, queue_temporal, queue_fifo>>
    BY <1>2, Stutter
  <2>2. ASSUME NEW lost, Placed(lost) PROVE Placed(lost)'
    BY <2>1, <2>2, PlaceFrame DEF OnCpu, InCpu, Live, Submitted
  <2>3. OnePlace'
    BY <2>1, <2>2 DEF PlacesInv, OnePlace
  <2>4. Room'
    BY <2>1 DEF PlacesInv, Room, Busy, Cpu, InCpu, Callers, Calls
  <2>5. MultiprogrammingBound'
    BY <2>1 DEF PlacesInv, MultiprogrammingBound, Degree, InHands, Walking, InCpu
  <2> QED BY <1>1, <2>3, <2>4, <2>5 DEF PlacesInv
<1>3. CASE Next
  <2>1. Placed({}) /\ RoomNow /\ Swept /\ MultiprogrammingBound
    BY <1>3, <1>1, UpMoves DEF PlacesInv, SharedInv, OnePlace, Room, RoomNow, Sweep
  <2>2. MultiprogrammingBound'
    BY <1>1, <1>3, <2>1, DegreeLts, DegreeOthers, NextByThread
  <2>3. CASE kernel' = "wrong_pcb"
    BY <1>1, <2>2, <2>3 DEF PlacesInv, OnePlace, Room
  <2>4. CASE kernel' # "wrong_pcb"
    <3>1. \A t \in Threads : ~LtsRemoveOther(t)
      BY <2>4 DEF LtsRemoveOther
    <3>2. Placed({})'
      BY <1>1, <1>3, <2>1, <3>1, PlaceConsole, PlaceLts, PlaceMain, NextByThread
    <3>3. RoomNow'
      BY <1>1, <1>3, <2>1, <2>4, RoomConsole, RoomLts, RoomMain, NextByThread
    <3> QED BY <1>1, <2>2, <2>4, <3>2, <3>3 DEF PlacesInv, OnePlace, Room, RoomNow
  <2> QED BY <2>3, <2>4
<1> QED BY <1>2, <1>3

(* The invariant of the places that both algorithms keep: of a process in  *)
(* the system it is not said that it is anywhere, for HRRN may lose it.    *)
THEOREM SharedInvariant == Spec => []SharedInv
<1>1. Init => SharedInv
  BY PlacesInit DEF PlacesInv
<1>2. SharedInv /\ [Next]_vars => SharedInv'
  BY SharedNext
<1> QED BY <1>1, <1>2, PTL DEF Spec

(* FIFO loses nobody, wastes no room and keeps to the maximum, as long as  *)
(* no sweep takes out another PCB than the one it tested.                  *)
THEOREM PlacesInvariant ==
  ASSUME ~AlgorithmIsHrrn
  PROVE  Spec => []PlacesInv
<1>1. PlacesInv /\ [Next]_vars => PlacesInv'
  BY PlacesNext
<1> QED BY <1>1, PlacesInit, PTL DEF Spec

(* scheduler.c:49: with FIFO at most one process more than the maximum is  *)
(* admitted, whatever the interleaving of the main loop with the scheduler *)
(* of the console threads.                                                 *)
THEOREM DegreeIsBounded ==
  ASSUME ~AlgorithmIsHrrn
  PROVE  Spec => []MultiprogrammingBound
<1>1. PlacesInv => MultiprogrammingBound
  BY DEF PlacesInv
<1> QED BY <1>1, PlacesInvariant, PTL

(* Between two rounds the prioritized PCB is READY and in the active       *)
(* queue: short_term_scheduler returns it without looking.                 *)
THEOREM PrioritizedCanRun == Spec => []PrioritizedIsReady
<1>1. ASSUME SharedInv, prioritized_pcb # NULL, main = "pick"
      PROVE  state[prioritized_pcb] = "READY" /\ Positions(active_pcbs, prioritized_pcb) # {}
  <2>1. kernel # "wrong_pcb"
    BY <1>1 DEF SharedInv, Sweep
  <2>2. /\ state[prioritized_pcb] = "READY"
        /\ \E k \in 1 .. Len(active_pcbs) : active_pcbs[k] = prioritized_pcb
    BY <1>1, <2>1 DEF SharedInv, IInv, Prioritized, PrioritizedIsActive
  <2> QED BY <2>2 DEF Positions
<1>2. SharedInv => PrioritizedIsReady
  BY <1>1 DEF PrioritizedIsReady
<1> QED BY <1>2, SharedInvariant, PTL

(* With FIFO every process in the system is in one place and a destroyed   *)
(* one is in none: in the hands-over between the console threads, the      *)
(* long-term scheduler and the main loop no PCB is lost or run twice, but  *)
(* by the sweep that takes out another PCB than the one it tested.         *)
THEOREM EveryPcbInOnePlace ==
  ASSUME ~AlgorithmIsHrrn
  PROVE  Spec => []PcbInOnePlace
<1>1. ASSUME PlacesInv, kernel # "wrong_pcb", NEW p \in Procs
      PROVE  Cardinality(Places(p)) = IF Live(p) THEN 1 ELSE 0
  <2>0. /\ IInv /\ Placed({}) /\ TypeOK
        /\ DOMAIN active_pcbs = 1 .. Len(active_pcbs)
        /\ DOMAIN new_pcbs = 1 .. Len(new_pcbs) /\ IsInjective(new_pcbs)
    BY <1>1, QueuesOfProcs, LenProperties DEF PlacesInv, SharedInv, OnePlace
  <2>1a. ~InQueues(p) /\ next_pcb # p /\ Positions(InHands, p) = {}
    <3>1. InHands = <<>> /\ queue_temporal = <<>> /\ queue_fifo = <<>> /\ next_pcb = NULL
      BY <2>0, HandsEmpty
    <3> QED BY <3>1, EmptySeq, NullAssumption DEF InQueues, Contains, Positions
  <2>1b. Places(p) = ({"new"} \X Positions(new_pcbs, p)) \cup ({"active"} \X Positions(active_pcbs, p))
                      \cup {x \in {<<"cpu", 0>>} : OnCpu(p)}
                      \cup {x \in {<<"lts", 0>>} : held = p}
    BY <2>1a DEF Places, OnCpu
  <2>1. ASSUME Contains(new_pcbs, p) PROVE \E x : Places(p) = {x}
    <3>1. PICK k \in 1 .. Len(new_pcbs) : new_pcbs[k] = p
      BY <2>1 DEF Contains
    <3>2. Positions(new_pcbs, p) = {k}
      BY <2>0, <3>1 DEF Positions, IsInjective
    <3>3. ~Contains(active_pcbs, p) /\ ~OnCpu(p) /\ held # p
      BY <2>0, <2>1 DEF Placed, Somewhere
    <3>4. Places(p) = {<<"new", k>>}
      BY <2>1b, <3>2, <3>3 DEF Positions, Contains
    <3> QED BY <3>4
  <2>2. ASSUME Contains(active_pcbs, p) PROVE \E x : Places(p) = {x}
    <3>1. PICK k \in 1 .. Len(active_pcbs) : active_pcbs[k] = p
      BY <2>2 DEF Contains
    <3>2. Positions(active_pcbs, p) = {k}
      BY <2>0, <3>1 DEF Positions, IsInjective, Placed
    <3>3. ~Contains(new_pcbs, p) /\ ~OnCpu(p) /\ held # p
      BY <2>0, <2>2 DEF Placed, Somewhere
    <3>4. Places(p) = {<<"active", k>>}
      BY <2>1b, <3>2, <3>3 DEF Positions, Contains
    <3> QED BY <3>4
  <2>3. ASSUME ~Contains(new_pcbs, p), ~Contains(active_pcbs, p)
        PROVE  Places(p) = {x \in {<<"cpu", 0>>} : OnCpu(p)} \cup {x \in {<<"lts", 0>>} : held = p}
    <3>1. Positions(new_pcbs, p) = {} /\ Positions(active_pcbs, p) = {}
      BY <2>3 DEF Positions, Contains
    <3> QED BY <2>1b, <3>1
  <2>4. CASE Live(p)
    <3>1. \E x : Places(p) = {x}
      <4>1. CASE Contains(new_pcbs, p) \/ Contains(active_pcbs, p)
        BY <2>1, <2>2, <4>1
      <4>2. CASE ~Contains(new_pcbs, p) /\ ~Contains(active_pcbs, p)
        <5>1. (OnCpu(p) \/ held = p) /\ ~(OnCpu(p) /\ held = p)
          BY <2>0, <2>1a, <2>4, <4>2 DEF Placed, Somewhere
        <5>2. Places(p) = {<<"cpu", 0>>} \/ Places(p) = {<<"lts", 0>>}
          BY <2>3, <4>2, <5>1
        <5> QED BY <5>2
      <4> QED BY <4>1, <4>2
    <3> QED BY <2>4, <3>1, FS_Singleton
  <2>5. CASE ~Live(p)
    <3>1. ~Contains(new_pcbs, p) /\ ~Contains(active_pcbs, p) /\ ~OnCpu(p) /\ held # p
      BY <2>0, <2>5 DEF Placed, Somewhere
    <3>2. Places(p) = {}
      BY <2>3, <3>1
    <3> QED BY <2>5, <3>2, FS_EmptySet
  <2> QED BY <2>4, <2>5
<1>2. PlacesInv => PcbInOnePlace
  BY <1>1 DEF PcbInOnePlace
<1> QED BY <1>2, PlacesInvariant, PTL

(* A destroyed PCB is not prioritized, not in an I/O thread, holds no      *)
(* resource and waits for none: no pointer to it is followed.              *)
THEOREM NoPointerDangles == Spec => []NoDanglingPcb
<1>1. ASSUME SharedInv, NEW p \in Procs, state[p] = "freed"
      PROVE  /\ p # prioritized_pcb /\ p \notin io
             /\ \A r \in Resources :
                  assigned_to[r] # p /\ Positions(enqueued_processes[r], p) = {}
  <2>1. IInv /\ Holders
    BY <1>1 DEF SharedInv
  <2>2. p # prioritized_pcb
    BY <1>1, <2>1, NullAssumption DEF IInv, Prioritized
  <2>3. p \notin io /\ \A r \in Resources : Positions(enqueued_processes[r], p) = {}
    BY <1>1, <2>1 DEF IInv, WaitingAreBlocked, Positions
  <2>4. \A r \in Resources : assigned_to[r] # p
    BY <1>1, <2>1, NullAssumption DEF Holders
  <2> QED BY <2>2, <2>3, <2>4
<1>2. SharedInv => NoDanglingPcb
  BY <1>1 DEF NoDanglingPcb
<1> QED BY <1>2, SharedInvariant, PTL

(* Nobody waits for a resource that has a free instance, through WAIT,     *)
(* SIGNAL and the release of what a finished process held.                 *)
THEOREM FreeInstancesAreTaken == Spec => []NobodyWaitsForAFreeInstance
<1>1. SharedInv => NobodyWaitsForAFreeInstance
  BY DEF SharedInv
<1> QED BY <1>1, SharedInvariant, PTL

(* A finished PCB is in the active queue only while the main thread is     *)
(* about to sweep: no sweep falls in the middle of a WAIT or a SIGNAL.     *)
THEOREM FinishedWaitForTheSweep == Spec => []FinishedStopTheMainLoop
<1>1. ASSUME SharedInv, NEW k \in 1 .. Len(active_pcbs), state[active_pcbs[k]] = "EXIT_PROCESS"
      PROVE  main \in {"settle", "schedule"}
  <2>1. active_pcbs[k] \in Procs /\ Contains(active_pcbs, active_pcbs[k])
    BY <1>1, QueuesOfProcs DEF SharedInv
  <2>2. held # active_pcbs[k] /\ ~OnCpu(active_pcbs[k])
    BY <1>1, <2>1 DEF SharedInv, Placed
  <2> QED BY <1>1, <2>1, <2>2 DEF SharedInv, Ending, OnCpu, InCpu
<1>2. SharedInv => FinishedStopTheMainLoop
  BY <1>1 DEF FinishedStopTheMainLoop
<1> QED BY <1>2, SharedInvariant, PTL

(* Whenever nobody is inside the long-term scheduler and there is room,    *)
(* every NEW process has a call of the scheduler still to come.            *)
THEOREM RoomIsNotWasted ==
  ASSUME ~AlgorithmIsHrrn
  PROVE  Spec => []NoRoomWasted
<1>1. ASSUME PlacesInv, lts = "idle", Degree < MaxMultiprogramming
      PROVE  Len(new_pcbs) <= Cardinality(Callers)
  <2>1. IInv /\ TypeOK /\ RoomFor("idle", Len(new_pcbs), Callers, Busy, i)
    BY <1>1 DEF PlacesInv, SharedInv, IInv, Sweep, Room
  <2>2. Degree = Busy
    BY <1>1, <2>1, DegreeIs, RoomTypes DEF Busy, Coming
  <2> QED BY <1>1, <2>1, <2>2, RoomTypes DEF RoomFor, Busy
<1>2. PlacesInv => NoRoomWasted
  BY <1>1 DEF NoRoomWasted, Callers
<1> QED BY <1>2, PlacesInvariant, PTL

-----------------------------------------------------------------------------
(* HRRN.                                                                   *)

(* Who is in the active queue or in the hands of HRRN.                     *)
LEMMA FourQueues ==
  ASSUME NEW a \in Seq(Procs), NEW s \in Seq(Procs), NEW t \in Seq(Procs),
         NEW n \in Procs \cup {NULL}, NEW p \in Procs
  PROVE  Contains(a \o (s \o t \o (IF n = NULL THEN <<>> ELSE <<n>>)), p) <=>
           Contains(a, p) \/ Contains(s, p) \/ Contains(t, p) \/ n = p
<1> DEFINE u == IF n = NULL THEN <<>> ELSE <<n>>
<1>1. u \in Seq(Procs) /\ (Contains(u, p) <=> n = p)
  <2>1. CASE n = NULL
    BY <2>1, EmptySeq, NullAssumption DEF Contains
  <2>2. CASE n # NULL
    <3>1. n \in Procs /\ <<n>> \in Seq(Procs) /\ Len(<<n>>) = 1 /\ <<n>>[1] = n
      BY <2>2
    <3>2. Contains(<<n>>, p) <=> n = p
      BY <3>1 DEF Contains
    <3> QED BY <2>2, <3>1, <3>2
  <2> QED BY <2>1, <2>2
<1> HIDE DEF u
<1>2. s \o t \in Seq(Procs) /\ (Contains(s \o t, p) <=> Contains(s, p) \/ Contains(t, p))
  BY ConcatMembers
<1> DEFINE st == s \o t
<1> HIDE DEF st
<1>3. st \in Seq(Procs) /\ (Contains(st, p) <=> Contains(s, p) \/ Contains(t, p))
  BY <1>2 DEF st
<1> DEFINE stu == st \o u
<1>4. stu \in Seq(Procs) /\ (Contains(stu, p) <=> Contains(st, p) \/ Contains(u, p))
  BY <1>1, <1>3, ConcatMembers
<1> HIDE DEF stu
<1>5. Contains(a \o stu, p) <=> Contains(a, p) \/ Contains(stu, p)
  BY <1>4, ConcatMembers
<1>6. Contains(a \o stu, p)
        <=> Contains(a, p) \/ Contains(s, p) \/ Contains(t, p) \/ n = p
  BY <1>1, <1>3, <1>4, <1>5
<1> QED BY <1>6 DEF stu, st, u

Among(p) == Contains(active_pcbs, p) \/ InQueues(p) \/ next_pcb = p

LEMMA AmongIs ==
  ASSUME IInv, IInv', NEW p \in Procs
  PROVE  (AmongActive(p) <=> Among(p)) /\ (AmongActive(p)' <=> Among(p)')
<1>1. /\ active_pcbs \in Seq(Procs) /\ queue_temporal \in Seq(Procs)
      /\ queue_fifo \in Seq(Procs) /\ next_pcb \in Procs \cup {NULL}
      /\ active_pcbs' \in Seq(Procs) /\ queue_temporal' \in Seq(Procs)
      /\ queue_fifo' \in Seq(Procs) /\ next_pcb' \in Procs \cup {NULL}
  BY DEF IInv, TypeOK
<1> DEFINE joined == active_pcbs \o (queue_temporal \o queue_fifo
                       \o (IF next_pcb = NULL THEN <<>> ELSE <<next_pcb>>))
<1>2. Contains(joined, p) <=> Contains(active_pcbs, p) \/ Contains(queue_temporal, p)
                                \/ Contains(queue_fifo, p) \/ next_pcb = p
  BY <1>1, FourQueues
<1>3. Contains(joined', p) <=> Contains(active_pcbs', p) \/ Contains(queue_temporal', p)
                                \/ Contains(queue_fifo', p) \/ next_pcb' = p
  BY <1>1, FourQueues
<1>4. AmongActive(p) <=> Contains(joined, p)
  BY DEF AmongActive, InHands, Walking
<1>5. AmongActive(p)' <=> Contains(joined', p)
  BY DEF AmongActive, InHands, Walking
<1> HIDE DEF joined
<1>6. AmongActive(p) <=> Among(p)
  BY <1>2, <1>4 DEF Among, InQueues
<1>7. AmongActive(p)' <=> Among(p)'
  BY <1>3, <1>5 DEF Among, InQueues
<1> QED BY <1>6, <1>7

LEMMA AmongFrame ==
  ASSUME UNCHANGED hrrnVars, NEW p, Contains(active_pcbs, p) => Contains(active_pcbs', p)
  PROVE  Among(p) => Among(p)'
  BY DEF hrrnVars, Among, InQueues

(* What leaves the active queue or the hands of HRRN runs, is finished, or *)
(* is not READY.                                                           *)
LEMMA AmongLts ==
  ASSUME IInv, Placed(Procs), NEW t \in Threads, Lts(t) \/ LtsAbort(t), ~LtsRemoveOther(t),
         NEW p \in Ready
  PROVE  Among(p) => Among(p)'
<1>0. TypeOK /\ p \in Procs /\ state[p] = "READY"
  BY DEF IInv, Ready
<1>1. UNCHANGED hrrnVars
  <2>1. CASE LtsUnlock(t)
    BY <2>1, MainKept DEF LtsUnlock
  <2>2. CASE LtsQuiet(t)
    BY <1>0, <2>2, QuietStep, MainKept
  <2>3. CASE LtsRemove(t) \/ LtsReap(t) \/ LtsAdmit(t) \/ LtsInit(t)
    BY <2>3, MainKept DEF LtsRemove, LtsReap, LtsAdmit, LtsInit
  <2> QED BY <2>1, <2>2, <2>3 DEF Lts, LtsQuiet
<1>2. Contains(active_pcbs, p) => Contains(active_pcbs', p)
  <2>1. CASE LtsQuiet(t)
    BY <1>0, <2>1, QuietStep DEF queueVars
  <2>2. CASE LtsRemove(t)
    <3>1. /\ i + 1 \in 1 .. Len(active_pcbs) /\ active_pcbs[i + 1] = visited
          /\ active_pcbs' = RemoveAt(active_pcbs, i + 1)
          /\ state[visited] = "EXIT_PROCESS"
      BY <1>0, <2>2, Lengths DEF LtsRemove, AtIndex, Runs, IInv, Reaping, TypeOK
    <3>2. \A q : Contains(active_pcbs', q) <=> Contains(active_pcbs, q) /\ q # visited
      BY <3>1, RemoveMembers, QueuesOfProcs DEF Placed
    <3> QED BY <1>0, <3>1, <3>2
  <2>3. CASE LtsInit(t)
    <3>1. active_pcbs' = Append(active_pcbs, held) /\ held \in Procs
      BY <1>0, <2>3 DEF LtsInit, Runs, TypeOK
    <3> QED BY <3>1, AppendMembers, QueuesOfProcs
  <2>4. CASE LtsReap(t) \/ LtsAdmit(t) \/ LtsUnlock(t)
    BY <2>4 DEF LtsReap, LtsAdmit, LtsUnlock, queueVars
  <2> QED BY <2>1, <2>2, <2>3, <2>4 DEF Lts, LtsQuiet
<1> QED BY <1>1, <1>2, AmongFrame

LEMMA AmongHrrn ==
  ASSUME IInv, Placed(Procs), PickWithHrrn, NEW p \in Ready, Among(p)
  PROVE  Among(p)' \/ state'[p] = "EXEC"
<1> USE DEF InHrrn
<1>0. /\ TypeOK /\ p \in Procs /\ active_pcbs \in Seq(Procs)
      /\ queue_temporal \in Seq(Procs) /\ queue_fifo \in Seq(Procs)
  BY QueuesOfProcs DEF Ready
<1>1. ASSUME active_pcbs # <<>>
      PROVE  /\ Head(active_pcbs) \in Procs
             /\ \A q : Contains(Tail(active_pcbs), q) <=>
                         Contains(active_pcbs, q) /\ q # Head(active_pcbs)
  BY <1>0, <1>1, MembersOf, TailMembers DEF Placed
<1>2. CASE HrrnStart
  BY <1>2, AmongFrame DEF HrrnStart
<1>3. CASE HrrnOnly
  <2>1. UNCHANGED hrrnVars /\ active_pcbs # <<>>
    BY <1>3 DEF HrrnOnly
  <2>2. CASE Head(active_pcbs) \in Ready
    <3>1. /\ active_pcbs' = Tail(active_pcbs)
          /\ state' = [state EXCEPT ![Head(active_pcbs)] = "EXEC"]
      BY <1>3, <2>2 DEF HrrnOnly, Dispatch, Become
    <3>2. CASE p = Head(active_pcbs)
      BY <1>0, <3>1, <3>2 DEF TypeOK
    <3>3. CASE p # Head(active_pcbs)
      BY <1>1, <2>1, <3>1, <3>3, AmongFrame
    <3> QED BY <3>2, <3>3
  <2>3. CASE Head(active_pcbs) \notin Ready
    BY <1>3, <2>1, <2>3, AmongFrame DEF HrrnOnly
  <2> QED BY <2>2, <2>3
<1>4. ASSUME NEW ratio \in Ratios, HrrnWalk(ratio) PROVE Among(p)'
  <2> DEFINE h == Head(active_pcbs)
  <2>1. h \in Procs /\ \A q : Contains(active_pcbs', q) <=> Contains(active_pcbs, q) /\ q # h
    BY <1>1, <1>4 DEF HrrnWalk
  <2>2. \A e \in Procs : \A q : /\ Contains(Append(queue_temporal, e), q) <=>
                                     Contains(queue_temporal, q) \/ q = e
                                /\ Contains(Append(queue_fifo, e), q) <=>
                                     Contains(queue_fifo, q) \/ q = e
    BY <1>0, AppendMembers
  <2>3. CASE next_pcb' = h /\ queue_temporal' = PassOver /\ UNCHANGED queue_fifo
    <3>1. Contains(queue_temporal, p) => Contains(queue_temporal', p)
      BY <2>2, <2>3 DEF PassOver, Ready
    <3>2. next_pcb = p => Contains(queue_temporal', p)
      BY <1>0, <2>2, <2>3 DEF PassOver
    <3> HIDE DEF h
    <3> QED BY <2>1, <2>3, <3>1, <3>2 DEF Among, InQueues
  <2>4. CASE UNCHANGED <<next_pcb, queue_temporal>> /\ queue_fifo' = Append(queue_fifo, h)
    <3> HIDE DEF h
    <3> QED BY <2>1, <2>2, <2>4 DEF Among, InQueues
  <2>5. CASE UNCHANGED <<next_pcb, queue_fifo>> /\ queue_temporal' = Append(queue_temporal, h)
    <3> HIDE DEF h
    <3> QED BY <2>1, <2>2, <2>5 DEF Among, InQueues
  <2> QED BY <1>4, <2>3, <2>4, <2>5 DEF HrrnWalk
<1>5. CASE HrrnWalked
  <2>1. \A q : Contains(queue_temporal', q) <=>
                 Contains(queue_temporal, q) \/ Contains(queue_fifo, q)
    BY <1>0, <1>5, ConcatMembers DEF HrrnWalked
  <2>2. UNCHANGED <<active_pcbs, next_pcb>>
    BY <1>5 DEF HrrnWalked
  <2> QED BY <2>1, <2>2 DEF Among, InQueues
<1>6. CASE HrrnRefill
  <2> DEFINE h == Head(queue_temporal)
  <2>1. /\ queue_temporal # <<>> /\ queue_temporal' = Tail(queue_temporal)
        /\ active_pcbs' = Append(active_pcbs, h) /\ UNCHANGED <<next_pcb, queue_fifo>>
    BY <1>6 DEF HrrnRefill
  <2>2. h \in Procs /\ \A q : Contains(queue_temporal', q) <=> Contains(queue_temporal, q) /\ q # h
    BY <1>0, <2>1, MembersOf, TailMembers DEF Placed
  <2>3. \A q : Contains(active_pcbs', q) <=> Contains(active_pcbs, q) \/ q = h
    BY <1>0, <2>1, <2>2, AppendMembers
  <2> HIDE DEF h
  <2> QED BY <2>1, <2>2, <2>3 DEF Among, InQueues
<1>7. CASE HrrnReturn
  <2>1. UNCHANGED <<active_pcbs, queue_temporal, queue_fifo>>
    BY <1>7 DEF HrrnReturn
  <2>2. CASE next_pcb = p
    BY <1>0, <1>7, <2>2 DEF HrrnReturn, Dispatch, Become, TypeOK
  <2>3. CASE next_pcb # p
    BY <2>1, <2>3 DEF Among, InQueues
  <2> QED BY <2>2, <2>3
<1> QED BY <1>2, <1>3, <1>4, <1>5, <1>6, <1>7 DEF PickWithHrrn

(* HRRN loses no READY PCB: it takes it, or leaves it in the queue.        *)
THEOREM ReadyAreKept == Spec => HrrnKeepsReady
<1> DEFINE Kept == kernel' # "wrong_pcb" =>
                     \A p \in Ready : AmongActive(p) => AmongActive(p)' \/ state'[p] = "EXEC"
<1>1. ASSUME SharedInv, SharedInv', Next, kernel' # "wrong_pcb", NEW p \in Ready, AmongActive(p)
      PROVE  AmongActive(p)' \/ state'[p] = "EXEC"
  <2>0. IInv /\ IInv' /\ Placed(Procs) /\ TypeOK /\ p \in Procs
    BY <1>1 DEF SharedInv, IInv, Ready
  <2>1. SUFFICES ASSUME Among(p) PROVE Among(p)' \/ state'[p] = "EXEC"
    BY <1>1, <2>0, AmongIs
  <2>2. CASE \E q \in Procs : Connect(q) \/ HangUp(q) \/ Submit(q) \/ IoDone(q)
    <3>1. UNCHANGED <<hrrnVars, active_pcbs>>
      BY <2>2, MainKept DEF Connect, HangUp, Submit, IoDone, queueVars
    <3> QED BY <2>1, <3>1, AmongFrame
  <2>3. CASE \E t \in Threads : Lts(t) \/ LtsAbort(t)
    <3>1. \A t \in Threads : ~LtsRemoveOther(t)
      BY <1>1 DEF LtsRemoveOther
    <3> QED BY <2>0, <2>1, <2>3, <3>1, AmongLts
  <2>4. CASE PickPrioritized \/ PickWithFifo
    <3>1. PICK k \in 1 .. Len(active_pcbs) : Picks(k)
      BY <2>0, <2>4, PickStep
    <3>2. \A q : Contains(active_pcbs', q) <=> Contains(active_pcbs, q) /\ q # active_pcbs[k]
      BY <2>0, <3>1, RemoveMembers, QueuesOfProcs DEF Picks, Placed
    <3>3. CASE p = active_pcbs[k]
      BY <2>0, <3>1, <3>3 DEF Picks, TypeOK
    <3>4. CASE p # active_pcbs[k]
      BY <2>1, <3>1, <3>2, <3>4, AmongFrame DEF Picks
    <3> QED BY <3>3, <3>4
  <2>5. CASE PickWithHrrn
    BY <2>0, <2>1, <2>5, AmongHrrn
  <2>6. CASE Serving
    BY <2>0, <2>1, <2>6, ServeStep, AmongFrame
  <2>7. CASE Push
    <3>1. active_pcbs' = Append(active_pcbs, pcb) /\ pcb \in Procs /\ UNCHANGED hrrnVars
      BY <2>0, <2>7 DEF Push, TypeOK
    <3>2. Contains(active_pcbs, p) => Contains(active_pcbs', p)
      BY <2>0, <3>1, AppendMembers, QueuesOfProcs
    <3> QED BY <2>1, <3>1, <3>2, AmongFrame
  <2>8. CASE Settle \/ CpuLost
    <3>1. UNCHANGED <<hrrnVars, active_pcbs>>
      BY <2>8, MainKept DEF Settle, CpuLost, queueVars
    <3> QED BY <2>1, <3>1, AmongFrame
  <2> QED BY <1>1, <2>2, <2>3, <2>4, <2>5, <2>6, <2>7, <2>8, NextByThread DEF MainStep
<1>2. SharedInv /\ SharedInv' /\ [Next]_vars => [Kept]_vars
  BY <1>1
<1> QED BY <1>2, SharedInvariant, PTL DEF Spec, HrrnKeepsReady

(* The PCB that HRRN runs has the highest ratio of those it looked at, and *)
(* is the first of them that has it.                                       *)
THEOREM TheBestIsPicked == Spec => HrrnPicksTheBest
<1> DEFINE Right ==
      HrrnReturn /\ main' = "cpu" =>
        \E k \in DOMAIN walked :
          /\ walked[k].pcb = pcb'
          /\ \A j \in DOMAIN walked :
               /\ walked[j].ratio <= walked[k].ratio
               /\ walked[j].ratio = walked[k].ratio => k <= j
<1>1. ASSUME IInv, HrrnReturn, main' = "cpu"
      PROVE  \E k \in DOMAIN walked :
               /\ walked[k].pcb = pcb'
               /\ \A j \in DOMAIN walked :
                    /\ walked[j].ratio <= walked[k].ratio
                    /\ walked[j].ratio = walked[k].ratio => k <= j
  <2>1. next_pcb \in Ready /\ pcb' = next_pcb
    BY <1>1 DEF HrrnReturn, Dispatch, Goto
  <2>2. next_pcb # NULL
    BY <2>1, NullAssumption DEF Ready
  <2>3. DOMAIN walked = 1 .. Len(walked)
    BY <1>1, LenProperties DEF IInv, TypeOK
  <2>4. PICK k \in 1 .. Len(walked) : BestAt(k)
    BY <1>1, <2>2 DEF IInv, BestSoFar
  <2> QED BY <2>1, <2>3, <2>4 DEF BestAt
<1>2. IInv /\ [Next]_vars => [Right]_vars
  BY <1>1
<1> QED BY <1>2, Invariant, PTL DEF Spec, HrrnPicksTheBest

-----------------------------------------------------------------------------
(* Who has the instances of a resource.                                    *)

(* The requests made after one more.                                       *)
LEMMA AskedNext ==
  ASSUME NEW prog, NEW n \in Nat, NEW op, NEW r
  PROVE  /\ Asked(prog, n, op, r) \in Nat
         /\ Asked(prog, n + 1, op, r) =
              Asked(prog, n, op, r) + IF prog[n + 1] = [op |-> op, arg |-> r] THEN 1 ELSE 0
<1> DEFINE A(m) == {k \in 1 .. m : prog[k] = [op |-> op, arg |-> r]}
<1>1. IsFiniteSet(A(n)) /\ Cardinality(A(n)) \in Nat
  <2>1. IsFiniteSet(1 .. n) /\ A(n) \subseteq 1 .. n
    BY FS_Interval
  <2> QED BY <2>1, FS_Subset, FS_CardinalityType
<1>2. CASE prog[n + 1] = [op |-> op, arg |-> r]
  <2>1. A(n + 1) = A(n) \cup {n + 1} /\ n + 1 \notin A(n)
    BY <1>2
  <2>2. Cardinality(A(n + 1)) = Cardinality(A(n)) + 1
    <3> HIDE DEF A
    <3> QED BY <1>1, <2>1, FS_AddElement
  <2> QED BY <1>1, <1>2, <2>2 DEF Asked
<1>3. CASE prog[n + 1] # [op |-> op, arg |-> r]
  <2>1. A(n + 1) = A(n)
    BY <1>3
  <2> QED BY <1>1, <1>3, <2>1 DEF Asked
<1> QED BY <1>2, <1>3

LEMMA AskedNone ==
  ASSUME NEW prog, NEW op, NEW r
  PROVE  Asked(prog, 0, op, r) = 0
<1>1. {k \in 1 .. 0 : prog[k] = [op |-> op, arg |-> r]} = {}
  OBVIOUS
<1> QED BY <1>1, FS_EmptySet DEF Asked

(* Nobody is twice in the queue of a resource.                             *)
Waits(p, r) == IF Contains(enqueued_processes[r], p) THEN 1 ELSE 0

LEMMA PositionsOnce ==
  ASSUME NEW q \in Seq(Procs), NEW p,
         \A k, l \in 1 .. Len(q) : q[k] = q[l] => k = l
  PROVE  Cardinality(Positions(q, p)) = IF Contains(q, p) THEN 1 ELSE 0
<1>1. CASE Contains(q, p)
  <2>1. PICK k \in 1 .. Len(q) : q[k] = p
    BY <1>1 DEF Contains
  <2>2. Positions(q, p) = {k}
    BY <2>1 DEF Positions
  <2> QED BY <1>1, <2>2, FS_Singleton
<1>2. CASE ~Contains(q, p)
  <2>1. Positions(q, p) = {}
    BY <1>2 DEF Contains, Positions
  <2> QED BY <1>2, <2>1, FS_EmptySet
<1> QED BY <1>1, <1>2

(* What a process has, without cardinalities of positions.                 *)
LEMMA HasIs ==
  ASSUME IInv, IInv', NEW p \in Procs, NEW r \in Resources, ~Returned(p), ~Returned(p)'
  PROVE  /\ Has(p, r) = Made(p, "WAIT", r) - Waits(p, r) - Made(p, "SIGNAL", r)
         /\ Has(p, r)' = Made(p, "WAIT", r)' - Waits(p, r)' - Made(p, "SIGNAL", r)'
         /\ Made(p, "WAIT", r) \in Nat /\ Made(p, "SIGNAL", r) \in Nat
<1> DEFINE q == enqueued_processes[r]
<1>1. q \in Seq(Procs) /\ q' \in Seq(Procs) /\ program_counter[p] \in Nat
  BY DEF IInv, TypeOK
<1>2. \A k, l \in 1 .. Len(q) : q[k] = q[l] => k = l
  BY WaitOnce
<1>3. \A k, l \in 1 .. Len(q') : (q')[k] = (q')[l] => k = l
  BY DEF IInv, WaitingAreBlocked
<1>4. Cardinality(Positions(q, p)) = Waits(p, r)
  <2> HIDE DEF q
  <2>1. Cardinality(Positions(q, p)) = IF Contains(q, p) THEN 1 ELSE 0
    BY <1>1, <1>2, PositionsOnce
  <2> QED BY <2>1 DEF Waits, q
<1>5. Cardinality(Positions(q', p)) = Waits(p, r)'
  <2> DEFINE n == q'
  <2>1. n \in Seq(Procs) /\ \A k, l \in 1 .. Len(n) : n[k] = n[l] => k = l
    BY <1>1, <1>3
  <2> HIDE DEF q, n
  <2>2. Cardinality(Positions(n, p)) = IF Contains(n, p) THEN 1 ELSE 0
    BY <2>1, PositionsOnce
  <2> QED BY <2>2 DEF Waits, q, n
<1>6. Made(p, "WAIT", r) \in Nat /\ Made(p, "SIGNAL", r) \in Nat
  BY <1>1, AskedNext DEF Made
<1>7. Positions(enqueued_processes[r], p)' = Positions(q', p)
  BY DEF Positions
<1> QED BY <1>4, <1>5, <1>6, <1>7 DEF Has

(* What a process has is a number, even of a resource signalled too often. *)
LEMMA HasType ==
  ASSUME IInv, NEW p \in Procs, NEW r \in Resources
  PROVE  Has(p, r) \in Int
<1>1. enqueued_processes[r] \in Seq(Procs) /\ program_counter[p] \in Nat
  BY DEF IInv, TypeOK
<1>2. Made(p, "WAIT", r) \in Nat /\ Made(p, "SIGNAL", r) \in Nat
  BY <1>1, AskedNext DEF Made
<1>3. Cardinality(Positions(enqueued_processes[r], p)) \in Nat
  <2> DEFINE q == enqueued_processes[r]
  <2>1. \A k, l \in 1 .. Len(q) : q[k] = q[l] => k = l
    BY WaitOnce
  <2> HIDE DEF q
  <2>2. Cardinality(Positions(q, p)) = IF Contains(q, p) THEN 1 ELSE 0
    BY <1>1, <2>1, PositionsOnce DEF q
  <2> QED BY <2>2 DEF q
<1> QED BY <1>2, <1>3 DEF Has

LEMMA HasTypeNext ==
  ASSUME IInv', NEW p \in Procs, NEW r \in Resources
  PROVE  Has(p, r)' \in Int
<1> DEFINE q == enqueued_processes'[r]
<1>1. q \in Seq(Procs) /\ program_counter'[p] \in Nat
  BY DEF IInv, TypeOK
<1>2. Made(p, "WAIT", r)' \in Nat /\ Made(p, "SIGNAL", r)' \in Nat
  BY <1>1, AskedNext DEF Made
<1>3. \A k, l \in 1 .. Len(q) : q[k] = q[l] => k = l
  BY DEF IInv, WaitingAreBlocked
<1>4. Positions(enqueued_processes[r], p)' = Positions(q, p)
  BY DEF Positions
<1> HIDE DEF q
<1>5. Cardinality(Positions(q, p)) = IF Contains(q, p) THEN 1 ELSE 0
  BY <1>1, <1>3, PositionsOnce
<1>6. Cardinality(Positions(q, p)) \in Nat
  BY <1>5
<1> QED BY <1>2, <1>4, <1>6 DEF Has

(* What a step may do to the books of a resource: nothing; one instance is *)
(* taken by the process in the CPU; it goes back; it goes to a waiter; or  *)
(* a process leaves that is not on record.                                 *)
Others(r, S) == \A p \in Procs \ S : Has(p, r)' = Has(p, r)
Untouched(r) ==
  /\ available_instances'[r] = available_instances[r]
  /\ assigned_to'[r] = assigned_to[r]
  /\ Others(r, {})
Taken(r, c) ==
  /\ available_instances[r] > 0
  /\ available_instances'[r] = available_instances[r] - 1
  /\ assigned_to'[r] = c
  /\ Has(c, r)' = Has(c, r) + 1
  /\ Others(r, {c})
GivenBack(r, c) ==
  /\ available_instances'[r] = available_instances[r] + 1
  /\ assigned_to'[r] = NULL
  /\ Others(r, {c})
HandedOver(r, c) ==
  /\ available_instances'[r] = available_instances[r]
  /\ \E h \in Procs \ {c} :
       /\ assigned_to'[r] = h
       /\ Has(h, r)' = Has(h, r) + 1
       /\ Others(r, {c, h})
Left(r, c) ==
  /\ available_instances'[r] = available_instances[r]
  /\ assigned_to'[r] = assigned_to[r] /\ assigned_to[r] # c
  /\ Others(r, {c})

(* The steps that move nobody's instances: no request is served, nobody    *)
(* joins or leaves, and no program comes in.                               *)
InRound(p) == state[p] \in {"READY", "EXEC", "BLOCK"}
Moves(p) == \/ state'[p] = state[p]
            \/ state[p] = "none" /\ state'[p] = "NEW"
            \/ state'[p] = "freed"
            \/ InRound(p) /\ InRound(p)'
Still ==
  /\ UNCHANGED <<instructions, program_counter, resourceVars>>
  /\ kernel' = kernel \/ kernel' # "null_holder"
  /\ \A p \in Procs : Returned(p)' <=> Returned(p)
Quiet == Still /\ \A p \in Procs : Moves(p)

LEMMA QuietBy ==
  ASSUME UNCHANGED <<instructions, program_counter, resourceVars, held, lts>>,
         kernel' = kernel, \A p \in Procs : Moves(p) /\ (state'[p] = "freed" => state[p] = "freed"),
         \A p \in Procs : state[p] = "freed" => state'[p] = "freed"
  PROVE  Quiet
BY DEF Quiet, Still, Returned, Moves, InRound

LEMMA QuietStates ==
  ASSUME UNCHANGED <<instructions, program_counter, resourceVars, state>>,
         kernel' = kernel \/ kernel' # "null_holder",
         (lts' = lts /\ held' = held) \/ (lts # "reap" /\ lts' # "reap")
  PROVE  Quiet
BY DEF Quiet, Still, Returned, Moves

LEMMA QuietConsole ==
  ASSUME IInv, NEW p \in Procs, Connect(p) \/ IoDone(p)
  PROVE  Quiet
<1>0. TypeOK
  BY DEF IInv
<1>1. /\ UNCHANGED <<instructions, program_counter, resourceVars, held, lts>>
      /\ kernel' = kernel
  BY DEF Connect, IoDone, ltsVars
<1>2. CASE Connect(p)
  <2>1. state[p] = "none" /\ state' = [state EXCEPT ![p] = "NEW"]
    BY <1>2 DEF Connect, Become, IInv, Consoles
  <2> QED BY <1>0, <1>1, <2>1, QuietBy DEF Moves, TypeOK
<1>3. CASE IoDone(p)
  <2>1. state[p] = "BLOCK" /\ state' = [state EXCEPT ![p] = "READY"]
    BY <1>3 DEF IoDone, Become, IInv, WaitingAreBlocked
  <2> QED BY <1>0, <1>1, <2>1, QuietBy DEF Moves, InRound, TypeOK
<1> QED BY <1>2, <1>3

LEMMA QuietLts ==
  ASSUME IInv, Ending, NEW t \in Threads, Lts(t) \/ LtsAbort(t), ~LtsRemove(t), ~LtsAdmit(t)
  PROVE  Quiet
<1>0. TypeOK
  BY DEF IInv
<1>1. CASE LtsQuiet(t)
  <2>1. /\ UNCHANGED <<instructions, program_counter, resourceVars, state, held>>
        /\ lts' = "reap" <=> lts = "reap"
    BY <1>0, <1>1, QuietStep DEF procVars
  <2>2. kernel' # "null_holder"
    BY <1>0, <1>1
    DEF LtsQuiet, LtsLock, LtsTest, LtsGetNull, LtsVisit, LtsLookLive, LtsLookFinished,
        LtsNothingToAdmit, LtsShow, LtsPrint, LtsAbort, Up, Runs
  <2> QED BY <2>1, <2>2 DEF Quiet, Still, Returned, Moves
<1>2. CASE LtsReap(t)
  <2>1. /\ UNCHANGED <<instructions, program_counter, resourceVars, kernel>>
        /\ state' = [state EXCEPT ![held] = "freed"] /\ lts = "reap" /\ held \in Procs
        /\ lts' = "test"
    BY <1>0, <1>2 DEF LtsReap, Become, Runs, TypeOK
  <2>2. \A p \in Procs : Moves(p) /\ (Returned(p)' <=> Returned(p))
    BY <1>0, <2>1 DEF Moves, Returned, TypeOK
  <2> QED BY <2>1, <2>2 DEF Quiet, Still
<1>3. CASE LtsInit(t) \/ LtsUnlock(t)
  <2>1. /\ UNCHANGED <<instructions, program_counter, resourceVars, state, kernel>>
        /\ lts # "reap" /\ lts' # "reap"
    BY <1>3 DEF LtsInit, LtsUnlock, Runs, procVars
  <2> QED BY <2>1, QuietStates
<1>4. CASE LtsRemoveOther(t)
  <2>1. /\ UNCHANGED <<instructions, program_counter, resourceVars, state, held, lts>>
        /\ kernel' # "null_holder"
    BY <1>4 DEF LtsRemoveOther, procVars, ltsVars
  <2> QED BY <2>1, QuietStates
<1> QED BY <1>1, <1>2, <1>3, <1>4 DEF Lts, LtsQuiet

LEMMA QuietMain ==
  ASSUME IInv, MainStep, ~Serving
  PROVE  Quiet
<1>0. TypeOK
  BY DEF IInv
<1>1. CASE PickPrioritized \/ PickWithFifo
  <2>1. PICK k \in 1 .. Len(active_pcbs) : Picks(k)
    BY <1>1, PickStep
  <2>2. /\ active_pcbs[k] \in Procs
        /\ \A p \in Procs : Moves(p) /\ (state'[p] = "freed" <=> state[p] = "freed")
    BY <1>0, <2>1, Lengths DEF Picks, Moves, InRound, TypeOK
  <2> QED BY <2>1, <2>2, QuietBy DEF Picks, ltsVars
<1>2. CASE PickWithHrrn
  <2>1. UNCHANGED <<instructions, program_counter, resourceVars, held, lts, kernel>>
    BY <1>2, HrrnMoves DEF ltsVars
  <2>2. \A p \in Procs : Moves(p) /\ (state'[p] = "freed" <=> state[p] = "freed")
    BY <1>0, <1>2, HrrnMoves DEF HrrnRuns, Moves, InRound, TypeOK
  <2> QED BY <2>1, <2>2, QuietBy
<1>3. CASE Push
  BY <1>3, QuietStates DEF Push, procVars, ltsVars
<1>4. CASE CpuLost
  <2>1. kernel' # "null_holder"
    BY <1>4 DEF CpuLost
  <2> QED BY <1>4, <2>1, QuietStates DEF CpuLost, procVars, ltsVars
<1>5. CASE Settle
  <2>1. \A p \in Procs : Moves(p) /\ (state'[p] = "freed" <=> state[p] = "freed")
    BY <1>0, <1>5 DEF Settle, Become, Settled, Moves, InRound, TypeOK
  <2> QED BY <1>5, <2>1, QuietBy DEF Settle, ltsVars
<1> QED BY <1>1, <1>2, <1>3, <1>4, <1>5 DEF MainStep

LEMMA StillBooks ==
  ASSUME Still, NEW r \in Resources
  PROVE  Untouched(r)
BY DEF Still, Untouched, Others, Has, Made, resourceVars

(* A resource that is tidy after a step was so before it.                  *)
LEMMA TidyBefore ==
  ASSUME \A p \in Procs :
           /\ program_counter[p] \in Nat /\ program_counter'[p] \in Nat
           /\ \/ program_counter[p] = 0
              \/ /\ instructions'[p] = instructions[p]
                 /\ program_counter[p] <= program_counter'[p],
         NEW r, Tidy(r)'
  PROVE  Tidy(r)
<1>1. ASSUME NEW p \in Procs, NEW n \in 1 .. program_counter[p]
      PROVE  Asked(instructions[p], n, "SIGNAL", r) <= Asked(instructions[p], n, "WAIT", r)
  <2>1. n \in 1 .. program_counter'[p] /\ instructions'[p] = instructions[p]
    BY <1>1
  <2>2. Asked(instructions'[p], n, "SIGNAL", r) <= Asked(instructions'[p], n, "WAIT", r)
    BY <2>1 DEF Tidy
  <2> QED BY <2>1, <2>2
<1> QED BY <1>1 DEF Tidy

(* The books of the resources hold when a step touches none of them.       *)
LEMMA UntouchedKeeps ==
  ASSUME Holding, \A r \in Resources : Untouched(r) /\ (Tidy(r)' => Tidy(r)),
         \A p \in Procs : Returned(p) => Returned(p)'
  PROVE  Holding'
<1>1. ASSUME NEW r \in Resources, Tidy(r)'
      PROVE  Spare(r)' /\ \A p \in Procs : Returned(p)' \/ OnRecord(p, r)'
  BY <1>1 DEF Holding, Spare, OnRecord, Due, Untouched, Others
<1> QED BY <1>1 DEF Holding

LEMMA StillTidy ==
  ASSUME TypeOK, Still, NEW r, Tidy(r)'
  PROVE  Tidy(r)
BY DEF Still, Tidy

LEMMA QuietKeeps ==
  ASSUME IInv, Counted, Holding, Quiet
  PROVE  Counted' /\ Holding'
<1>1. Counted'
  BY DEF Quiet, Still, Counted, Moves, InRound
<1>2. Holding'
  BY StillBooks, StillTidy, UntouchedKeeps DEF Quiet, Still, IInv
<1> QED BY <1>1, <1>2

(* A process that has asked for nothing has nothing.                       *)
LEMMA NewHasNothing ==
  ASSUME IInv, Counted, NEW p \in Procs, state[p] = "NEW", NEW r \in Resources
  PROVE  /\ Has(p, r) = 0 /\ program_counter[p] = 0
         /\ Made(p, "WAIT", r) = 0 /\ Made(p, "SIGNAL", r) = 0
<1>1. program_counter[p] = 0
  BY DEF Counted
<1>2. Made(p, "WAIT", r) = 0 /\ Made(p, "SIGNAL", r) = 0
  BY <1>1, AskedNone DEF Made
<1>3. Positions(enqueued_processes[r], p) = {}
  BY DEF Positions, IInv, WaitingAreBlocked
<1> QED BY <1>1, <1>2, <1>3, FS_EmptySet DEF Has

(* A console that submits its program, and one that goes away before.      *)
LEMMA SubmitBooks ==
  ASSUME IInv, Counted, NEW p \in Procs, Submit(p)
  PROVE  /\ \A r \in Resources : Untouched(r) /\ (Tidy(r)' => Tidy(r))
         /\ \A q \in Procs : Returned(q)' <=> Returned(q)
         /\ Counted' /\ UNCHANGED kernel
<1>0. TypeOK
  BY DEF IInv
<1>1. state[p] = "NEW" /\ program_counter[p] = 0
  BY DEF Submit, IInv, Consoles, Counted
<1>2. PICK prog \in Programs : instructions' = [instructions EXCEPT ![p] = prog]
  BY DEF Submit
<1>3. UNCHANGED <<kernel, state, program_counter, lts, held, available_instances,
                  assigned_to, enqueued_processes>>
  BY DEF Submit, resourceVars, ltsVars
<1>4. Counted'
  BY <1>0, <1>1, <1>2, <1>3 DEF Counted, TypeOK
<1>5. \A q \in Procs : Returned(q)' <=> Returned(q)
  BY <1>3 DEF Returned
<1>6. ASSUME NEW q \in Procs, NEW r \in Resources
      PROVE  Has(q, r)' = Has(q, r)
  <2>1. Made(q, "WAIT", r)' = Made(q, "WAIT", r) /\ Made(q, "SIGNAL", r)' = Made(q, "SIGNAL", r)
    <3>1. CASE q = p
      BY <1>1, <1>3, <3>1, AskedNone DEF Made
    <3>2. CASE q # p
      <4>1. instructions'[q] = instructions[q]
        BY <1>0, <1>2, <3>2 DEF TypeOK
      <4> QED BY <1>3, <4>1 DEF Made
    <3> QED BY <3>1, <3>2
  <2> QED BY <1>3, <1>5, <2>1 DEF Has
<1>7. \A r \in Resources : Untouched(r)
  BY <1>3, <1>6 DEF Untouched, Others
<1>8. \A q \in Procs : /\ program_counter[q] \in Nat /\ program_counter'[q] \in Nat
                       /\ \/ program_counter[q] = 0
                          \/ /\ instructions'[q] = instructions[q]
                             /\ program_counter[q] <= program_counter'[q]
  BY <1>0, <1>1, <1>2, <1>3 DEF TypeOK
<1> QED BY <1>3, <1>4, <1>5, <1>7, <1>8, TidyBefore

LEMMA HangUpBooks ==
  ASSUME IInv, Counted, NEW p \in Procs, HangUp(p)
  PROVE  /\ \A r \in Resources : Untouched(r) /\ (Tidy(r)' => Tidy(r)) /\ Has(p, r) = 0
         /\ \A q \in Procs : Returned(q)' <=> q = p \/ Returned(q)
         /\ ~Returned(p) /\ state[p] = "NEW" /\ Counted' /\ UNCHANGED kernel
<1>0. TypeOK
  BY DEF IInv
<1>1. state[p] = "NEW" /\ state' = [state EXCEPT ![p] = "freed"]
  BY DEF HangUp, Become, IInv, Consoles
<1>2. UNCHANGED <<kernel, instructions, program_counter, lts, held, available_instances,
                  assigned_to, enqueued_processes>>
  BY DEF HangUp, resourceVars, ltsVars
<1>3. Counted'
  BY <1>0, <1>1, <1>2 DEF Counted, TypeOK
<1>4. ~Returned(p) /\ \A q \in Procs : Returned(q)' <=> q = p \/ Returned(q)
  BY <1>0, <1>1, <1>2 DEF Returned, IInv, Reaping, TypeOK
<1>5. ASSUME NEW r \in Resources
      PROVE  Untouched(r) /\ (Tidy(r)' => Tidy(r)) /\ Has(p, r) = 0
  <2>1. Has(p, r) = 0
    BY <1>1, NewHasNothing
  <2>2. ASSUME NEW q \in Procs PROVE Has(q, r)' = Has(q, r)
    <3>1. CASE q = p
      BY <1>4, <2>1, <3>1 DEF Has
    <3>2. CASE q # p
      BY <1>2, <1>4, <3>2 DEF Has, Made
    <3> QED BY <3>1, <3>2
  <2>3. Tidy(r)' => Tidy(r)
    BY <1>2 DEF Tidy
  <2> QED BY <1>2, <2>1, <2>2, <2>3 DEF Untouched, Others
<1> QED BY <1>1, <1>2, <1>3, <1>4, <1>5

LEMMA AdmitBooks ==
  ASSUME IInv, Placed(Procs), Counted, NEW t \in Threads, LtsAdmit(t)
  PROVE  Still /\ Counted' /\ UNCHANGED kernel
<1>0. TypeOK
  BY DEF IInv
<1> DEFINE h == Head(new_pcbs)
<1>1. /\ new_pcbs # <<>> /\ state' = [state EXCEPT ![h] = "READY"]
      /\ lts = "admit" /\ lts' = "init"
      /\ UNCHANGED <<kernel, instructions, program_counter, resourceVars>>
  BY DEF LtsAdmit, CanAdmit, Become, Runs
<1>2. h \in Procs /\ state[h] = "NEW" /\ Contains(new_pcbs, h)
  <2>1. h = new_pcbs[1] /\ 1 \in 1 .. Len(new_pcbs)
    BY <1>0, <1>1, AppendHeadTail DEF TypeOK
  <2> QED BY <1>0, <2>1, Lengths DEF IInv, NewQueue, Contains
<1> HIDE DEF h
<1>3. instructions[h] \in Programs
  BY <1>0, <1>2 DEF Placed, Somewhere, Live, Submitted, TypeOK
<1>4. program_counter[h] = 0 /\ Len(instructions[h]) > 0
  BY <1>2, <1>3, ProgramsAssumption DEF Counted
<1>5. Counted'
  BY <1>0, <1>1, <1>2, <1>3, <1>4 DEF Counted, TypeOK
<1>6. \A p \in Procs : Returned(p)' <=> Returned(p)
  BY <1>0, <1>1, <1>2 DEF Returned, TypeOK
<1> QED BY <1>1, <1>5, <1>6 DEF Still

(* What resource_signal does to each resource.                             *)
LEMMA SignalEach ==
  ASSUME IInv, NEW rs \in SUBSET Resources, ResourceSignal(rs), NEW r \in Resources
  PROVE  \/ /\ r \notin rs
            /\ available_instances'[r] = available_instances[r]
            /\ assigned_to'[r] = assigned_to[r]
            /\ \A p \in Procs : Waits(p, r)' = Waits(p, r)
         \/ /\ r \in rs /\ ~Contended(r)
            /\ available_instances'[r] = available_instances[r] + 1
            /\ assigned_to'[r] = NULL
            /\ \A p \in Procs : Waits(p, r)' = Waits(p, r)
         \/ /\ r \in rs
            /\ available_instances'[r] = available_instances[r]
            /\ \E h \in Procs :
                 /\ assigned_to'[r] = h /\ state[h] = "BLOCK"
                 /\ Waits(h, r) = 1 /\ Waits(h, r)' = 0
                 /\ \A p \in Procs : p # h => Waits(p, r)' = Waits(p, r)
<1> DEFINE q == enqueued_processes[r]
<1>1. q \in Seq(Procs) /\ \A k, l \in 1 .. Len(q) : q[k] = q[l] => k = l
  BY WaitOnce DEF IInv, TypeOK
<1>2. CASE r \in rs /\ Contended(r)
  <2>2. q # <<>>
    BY <1>2 DEF Contended
  <2>3. PICK h \in Procs : h = Head(q) /\ h = q[1] /\ 1 \in 1 .. Len(q)
    BY <1>1, <2>2, AppendHeadTail
  <2>1. /\ available_instances'[r] = available_instances[r]
        /\ assigned_to'[r] = h /\ enqueued_processes'[r] = Tail(q)
    BY <1>2, <2>3
    DEF ResourceSignal, SignalledInstances, SignalledHolders, SignalledQueues
  <2>4. state[h] = "BLOCK"
    BY <2>3 DEF IInv, WaitingAreBlocked
  <2>5. IsInjective(q)
    <3> HIDE DEF q
    <3> QED BY <1>1, LenProperties DEF IsInjective
  <2>6. Contains(q, h)
    BY <2>3 DEF Contains
  <2>7. \A p : Contains(Tail(q), p) <=> Contains(q, p) /\ p # h
    <3> HIDE DEF q
    <3> QED BY <1>1, <2>2, <2>3, <2>5, TailMembers
  <2>8. \A p \in Procs : Waits(p, r)' = IF Contains(q, p) /\ p # h THEN 1 ELSE 0
    <3>1. \A p \in Procs : Waits(p, r)' = IF Contains(Tail(q), p) THEN 1 ELSE 0
      BY <2>1 DEF Waits
    <3> HIDE DEF q
    <3> QED BY <2>7, <3>1
  <2>9. \A p \in Procs : Waits(p, r) = IF Contains(q, p) THEN 1 ELSE 0
    BY DEF Waits
  <2> HIDE DEF q
  <2>10. Waits(h, r) = 1 /\ Waits(h, r)' = 0
    BY <2>6, <2>8, <2>9
  <2>11. ASSUME NEW p \in Procs, p # h PROVE Waits(p, r)' = Waits(p, r)
    BY <2>8, <2>9, <2>11
  <2> QED BY <1>2, <2>1, <2>4, <2>10, <2>11
<1>3. CASE ~(r \in rs /\ Contended(r))
  <2>1. enqueued_processes'[r] = enqueued_processes[r]
    BY <1>3 DEF ResourceSignal, SignalledQueues
  <2>2. \A p \in Procs : Waits(p, r)' = Waits(p, r)
    BY <2>1 DEF Waits
  <2> QED BY <1>3, <2>2 DEF ResourceSignal, SignalledInstances, SignalledHolders
<1> QED BY <1>2, <1>3

(* A finished process gives back the one instance of each resource that is *)
(* on record as its own, and is rid of the others.                         *)
LEMMA RemoveBooks ==
  ASSUME IInv, IInv', Counted, NEW t \in Threads, LtsRemove(t)
  PROVE  \E c \in Procs :
           /\ c = visited /\ Counted' /\ UNCHANGED kernel /\ ~Returned(c)
           /\ \A q \in Procs : Returned(q)' <=> q = c \/ Returned(q)
           /\ \A r \in Resources :
                /\ Has(c, r)' = 0 /\ (Tidy(r)' <=> Tidy(r))
                /\ \/ Left(r, c)
                   \/ /\ assigned_to[r] = c
                      /\ GivenBack(r, c) \/ HandedOver(r, c)
<1>0. TypeOK
  BY DEF IInv
<1>3. PICK p \in Procs : p = visited
  BY <1>0 DEF LtsRemove, Runs, TypeOK
<1> DEFINE rs == Released(p)
<1>1. /\ state[p] = "EXIT_PROCESS" /\ held' = p /\ lts' = "reap" /\ lts = "remove"
      /\ ResourceSignal(rs) /\ rs \in SUBSET Resources /\ state' = Wake(state, rs)
      /\ UNCHANGED <<kernel, instructions, program_counter>>
  BY <1>3 DEF LtsRemove, Released, Runs, IInv, Reaping
<1>2. OnlyWakes /\ rs = {r \in Resources : assigned_to[r] = p}
  BY <1>1, SignalWakes DEF Released
<1> HIDE DEF rs
<1>4. Counted'
  BY <1>1, <1>2 DEF Counted, OnlyWakes
<1>5. ~Returned(p) /\ \A q \in Procs : Returned(q)' <=> q = p \/ Returned(q)
  BY <1>1, <1>2 DEF Returned, OnlyWakes
<1>6. ASSUME NEW r \in Resources
      PROVE  /\ Has(p, r)' = 0 /\ (Tidy(r)' <=> Tidy(r))
             /\ \/ Left(r, p)
                \/ /\ assigned_to[r] = p
                   /\ GivenBack(r, p) \/ HandedOver(r, p)
  <2>1. Has(p, r)' = 0
    BY <1>5 DEF Has
  <2>2. Tidy(r)' <=> Tidy(r)
    BY <1>1 DEF Tidy
  <2>3. ASSUME NEW q \in Procs, q # p
        PROVE  /\ Waits(q, r)' = Waits(q, r) => Has(q, r)' = Has(q, r)
               /\ Waits(q, r) = 1 /\ Waits(q, r)' = 0 /\ state[q] = "BLOCK" =>
                    Has(q, r)' = Has(q, r) + 1
    <3>1. CASE Returned(q)
      <4>1. Has(q, r) = 0 /\ Has(q, r)' = 0
        BY <1>5, <3>1 DEF Has
      <4>2. state[q] # "BLOCK"
        BY <1>1, <3>1 DEF Returned
      <4> QED BY <4>1, <4>2
    <3>2. CASE ~Returned(q)
      <4>1. Made(q, "WAIT", r)' = Made(q, "WAIT", r) /\ Made(q, "SIGNAL", r)' = Made(q, "SIGNAL", r)
        BY <1>1 DEF Made
      <4>2. ~Returned(q)'
        BY <1>5, <2>3, <3>2
      <4>3. /\ Has(q, r) = Made(q, "WAIT", r) - Waits(q, r) - Made(q, "SIGNAL", r)
            /\ Has(q, r)' = Made(q, "WAIT", r)' - Waits(q, r)' - Made(q, "SIGNAL", r)'
            /\ Made(q, "WAIT", r) \in Nat /\ Made(q, "SIGNAL", r) \in Nat
        BY <3>2, <4>2, HasIs
      <4> QED BY <4>1, <4>3
    <3> QED BY <3>1, <3>2
  <2>4. CASE r \notin rs
    <3>1. /\ available_instances'[r] = available_instances[r]
          /\ assigned_to'[r] = assigned_to[r]
          /\ \A q \in Procs : Waits(q, r)' = Waits(q, r)
      BY <1>1, <2>4, SignalEach
    <3> QED BY <1>2, <2>1, <2>2, <2>3, <2>4, <3>1 DEF Left, Others
  <2>5. CASE r \in rs /\ assigned_to'[r] = NULL
             /\ available_instances'[r] = available_instances[r] + 1
             /\ \A x \in Procs : Waits(x, r)' = Waits(x, r)
    BY <1>2, <2>1, <2>2, <2>3, <2>5 DEF GivenBack, Others
  <2>6. CASE /\ r \in rs /\ available_instances'[r] = available_instances[r]
             /\ \E h \in Procs :
                  /\ assigned_to'[r] = h /\ state[h] = "BLOCK"
                  /\ Waits(h, r) = 1 /\ Waits(h, r)' = 0
                  /\ \A x \in Procs : x # h => Waits(x, r)' = Waits(x, r)
    <3>1. PICK h \in Procs : /\ assigned_to'[r] = h /\ state[h] = "BLOCK"
                             /\ Waits(h, r) = 1 /\ Waits(h, r)' = 0
                             /\ \A x \in Procs : x # h => Waits(x, r)' = Waits(x, r)
      BY <2>6
    <3>2. h # p
      BY <1>1, <3>1
    <3>3. Has(h, r)' = Has(h, r) + 1 /\ Others(r, {p, h})
      BY <2>3, <3>1, <3>2 DEF Others
    <3> QED BY <1>2, <2>1, <2>2, <2>6, <3>1, <3>2, <3>3 DEF HandedOver
  <2> QED BY <1>1, <2>4, <2>5, <2>6, SignalEach
<1> QED BY <1>1, <1>3, <1>4, <1>5, <1>6

(* One request more of the process in the CPU, which the program has.      *)
LEMMA RequestServed ==
  ASSUME IInv, Counted, Serving
  PROVE  /\ pcb \in Procs /\ ~Returned(pcb) /\ \A r \in Resources : Waits(pcb, r) = 0
         /\ instructions[pcb] \in Programs /\ program_counter[pcb] \in Nat
         /\ program_counter[pcb] + 1 \in 1 .. Len(instructions[pcb])
         /\ Request \in [op : Ops, arg : Resources \cup {NULL}]
         /\ Request.op = "EXIT" <=> program_counter[pcb] + 1 = Len(instructions[pcb])
         /\ instructions' = instructions
         /\ program_counter' = [program_counter EXCEPT ![pcb] = @ + 1]
         /\ \A p \in Procs, op \in Ops, r \in Resources :
              Made(p, op, r)' =
                Made(p, op, r)
                + IF p = pcb /\ Request.op = op /\ Request.arg = r THEN 1 ELSE 0
         /\ \A p \in Procs : Returned(p)' <=> Returned(p)
<1>0. TypeOK
  BY DEF IInv
<1>1. /\ pcb \in Procs /\ state[pcb] = "EXEC" /\ UNCHANGED <<instructions, held, lts>>
      /\ state'[pcb] \in {"EXEC", "BLOCK", "EXIT_PROCESS"}
      /\ \A p \in Procs : p = pcb \/ state'[p] = state[p]
                          \/ (state[p] = "BLOCK" /\ state'[p] = "READY")
  BY ServeStep DEF ltsVars
<1>2. program_counter' = [program_counter EXCEPT ![pcb] = @ + 1]
  BY DEF Serving, Yield, InputOutput, UnknownResource, WaitGranted, WaitBlocked, Signal,
         Exit, Serve
<1> DEFINE prog == instructions[pcb]
           n == program_counter[pcb]
<1>3. prog \in Programs /\ n \in Nat /\ n < Len(prog)
  BY <1>0, <1>1 DEF Counted, TypeOK
<1>4. prog \in Seq([op : Ops, arg : Resources \cup {NULL}]) /\ Len(prog) \in Nat
  BY <1>3, ProgramsAssumption, LenProperties
<1>5. n + 1 \in 1 .. Len(prog) /\ Request = prog[n + 1]
  BY <1>3, <1>4 DEF Request
<1>6. /\ Request \in [op : Ops, arg : Resources \cup {NULL}]
      /\ Request.op = "EXIT" <=> n + 1 = Len(prog)
  BY <1>3, <1>4, <1>5, ProgramsAssumption, ElementOfSeq
<1>7. ASSUME NEW p \in Procs, NEW op \in Ops, NEW r \in Resources
      PROVE  Made(p, op, r)' =
               Made(p, op, r) + IF p = pcb /\ Request.op = op /\ Request.arg = r THEN 1 ELSE 0
  <2>1. Made(p, op, r) \in Nat
    BY <1>0, AskedNext DEF Made, TypeOK
  <2>2. CASE p # pcb
    <3>1. Made(p, op, r)' = Made(p, op, r)
      BY <1>0, <1>1, <1>2, <2>2 DEF Made, TypeOK
    <3> QED BY <2>1, <2>2, <3>1
  <2>3. CASE p = pcb
    <3>1. program_counter'[pcb] = n + 1
      BY <1>0, <1>1, <1>2 DEF TypeOK
    <3>2. Made(p, op, r)' = Asked(prog, n + 1, op, r) /\ Made(p, op, r) = Asked(prog, n, op, r)
      BY <1>1, <2>3, <3>1 DEF Made
    <3>3. prog[n + 1] = [op |-> op, arg |-> r] <=> Request.op = op /\ Request.arg = r
      BY <1>5, <1>6
    <3> HIDE DEF prog, n
    <3>4. /\ Asked(prog, n, op, r) \in Nat
          /\ Asked(prog, n + 1, op, r) =
               Asked(prog, n, op, r) + IF prog[n + 1] = [op |-> op, arg |-> r] THEN 1 ELSE 0
      BY <1>3, AskedNext
    <3>5. CASE Request.op = op /\ Request.arg = r
      BY <2>3, <3>2, <3>3, <3>4, <3>5
    <3>6. CASE ~(Request.op = op /\ Request.arg = r)
      BY <2>3, <3>2, <3>3, <3>4, <3>6
    <3> QED BY <3>5, <3>6
  <2> QED BY <2>2, <2>3
<1>8. ~Returned(pcb) /\ \A p \in Procs : Returned(p)' <=> Returned(p)
  BY <1>1 DEF Returned, IInv, Reaping
<1>9. \A r \in Resources : Waits(pcb, r) = 0
  BY <1>1 DEF Waits, Contains, IInv, WaitingAreBlocked
<1> QED BY <1>1, <1>2, <1>3, <1>5, <1>6, <1>7, <1>8, <1>9

LEMMA CountedServing ==
  ASSUME IInv, Counted, Serving
  PROVE  Counted'
<1>0. TypeOK /\ program_counter \in [Procs -> Nat]
  BY DEF IInv, TypeOK
<1>1. /\ \A p \in Procs : p = pcb \/ state'[p] = state[p]
                          \/ (state[p] = "BLOCK" /\ state'[p] = "READY")
      /\ state'[pcb] \in {"EXEC", "BLOCK", "EXIT_PROCESS"} /\ pcb \in Procs
  BY ServeStep
<1>2. \A p \in Procs : p # pcb => program_counter'[p] = program_counter[p]
  BY <1>0, RequestServed
<1>3. state'[pcb] # "EXIT_PROCESS" => Request.op # "EXIT"
  <2>1. Request.op = "EXIT" => Exit
    BY DEF Serving, Yield, InputOutput, UnknownResource, WaitGranted, WaitBlocked, Signal,
           Exit, Serve
  <2>2. Exit => state'[pcb] = "EXIT_PROCESS"
    BY <1>0, <1>1 DEF Exit, Become, TypeOK
  <2> QED BY <2>1, <2>2
<1>4. ASSUME state'[pcb] # "EXIT_PROCESS"
      PROVE  instructions'[pcb] \in Programs /\ program_counter'[pcb] < Len(instructions'[pcb])
  <2>1. /\ instructions'[pcb] \in Programs
        /\ program_counter'[pcb] = program_counter[pcb] + 1
        /\ program_counter[pcb] + 1 \in 1 .. Len(instructions[pcb])
        /\ program_counter[pcb] + 1 # Len(instructions[pcb]) /\ instructions' = instructions
    BY <1>0, <1>1, <1>3, <1>4, RequestServed
  <2>2. Len(instructions[pcb]) \in Nat /\ program_counter[pcb] \in Nat
    BY <1>0, <1>1, <2>1, ProgramsAssumption, LenProperties
  <2> QED BY <2>1, <2>2
<1>5. instructions' = instructions
  BY RequestServed
<1> QED BY <1>1, <1>2, <1>4, <1>5 DEF Counted

(* What a request does to the books of a resource.                         *)
Asks(op, r) == Request.op = op /\ Request.arg = r

LEMMA ServingBooks ==
  ASSUME IInv, IInv', Counted, Serving, NEW r \in Resources, NEW c \in Procs, c = pcb
  PROVE  \/ Untouched(r) /\ ~Asks("SIGNAL", r)
         \/ Taken(r, c) /\ ~Asks("SIGNAL", r)
         \/ /\ Asks("SIGNAL", r) /\ Has(c, r)' = Has(c, r) - 1
            /\ GivenBack(r, c) \/ HandedOver(r, c)
<1>0. TypeOK
  BY DEF IInv
<1>1. c = pcb
  OBVIOUS
<1>2. /\ ~Returned(c) /\ Waits(c, r) = 0
      /\ \A p \in Procs : Returned(p)' <=> Returned(p)
  BY <1>1, RequestServed
<1>3. \A p \in Procs :
        /\ Made(p, "WAIT", r)' = Made(p, "WAIT", r) + IF p = c /\ Asks("WAIT", r) THEN 1 ELSE 0
        /\ Made(p, "SIGNAL", r)' = Made(p, "SIGNAL", r) + IF p = c /\ Asks("SIGNAL", r) THEN 1 ELSE 0
  BY <1>1, RequestServed DEF Ops, Asks
<1>4. ASSUME NEW p \in Procs, ~Returned(p)
      PROVE  /\ Has(p, r) = Made(p, "WAIT", r) - Waits(p, r) - Made(p, "SIGNAL", r)
             /\ Has(p, r)' = Made(p, "WAIT", r)' - Waits(p, r)' - Made(p, "SIGNAL", r)'
             /\ Made(p, "WAIT", r) \in Nat /\ Made(p, "SIGNAL", r) \in Nat
             /\ Waits(p, r) \in Nat /\ Waits(p, r)' \in Nat
  BY <1>2, <1>4, HasIs DEF Waits
<1>5. ASSUME NEW p \in Procs, Returned(p)
      PROVE  Has(p, r) = 0 /\ Has(p, r)' = 0 /\ state[p] # "BLOCK"
  BY <1>2, <1>5 DEF Has, Returned, IInv, Reaping
<1>6. ASSUME NEW p \in Procs,
             p # c \/ (~Asks("WAIT", r) /\ ~Asks("SIGNAL", r)), Waits(p, r)' = Waits(p, r)
      PROVE  Has(p, r)' = Has(p, r)
  <2>1. CASE Returned(p)
    BY <1>5, <2>1
  <2>2. CASE ~Returned(p)
    <3>1. Made(p, "WAIT", r)' = Made(p, "WAIT", r) /\ Made(p, "SIGNAL", r)' = Made(p, "SIGNAL", r)
      BY <1>3, <1>4, <1>6, <2>2
    <3> QED BY <1>4, <1>6, <2>2, <3>1
  <2> QED BY <2>1, <2>2
<1>7. CASE ~Asks("WAIT", r) /\ ~Asks("SIGNAL", r)
  <2>1. /\ available_instances'[r] = available_instances[r]
        /\ assigned_to'[r] = assigned_to[r]
        /\ \A p \in Procs : Waits(p, r)' = Waits(p, r)
    <3>1. CASE Signal
      <4>1. r \notin {Request.arg} /\ {Request.arg} \in SUBSET Resources
            /\ ResourceSignal({Request.arg})
        BY <1>7, <3>1 DEF Signal, Serve, Asks
      <4> QED BY <4>1, SignalEach
    <3>2. CASE WaitGranted \/ WaitBlocked
      <4>1. r # Request.arg /\ Request.arg \in Resources
        BY <1>7, <3>2 DEF WaitGranted, WaitBlocked, Serve, Asks
      <4>2. /\ available_instances'[r] = available_instances[r]
            /\ assigned_to'[r] = assigned_to[r]
            /\ enqueued_processes'[r] = enqueued_processes[r]
        BY <1>0, <3>2, <4>1 DEF WaitGranted, WaitBlocked, TypeOK
      <4> QED BY <4>2 DEF Waits
    <3>3. CASE Yield \/ InputOutput \/ UnknownResource \/ Exit
      <4>1. UNCHANGED resourceVars
        BY <3>3 DEF Yield, InputOutput, UnknownResource, Exit
      <4> QED BY <4>1 DEF resourceVars, Waits
    <3> QED BY <3>1, <3>2, <3>3 DEF Serving
  <2>2. \A p \in Procs : Has(p, r)' = Has(p, r)
    BY <1>6, <1>7, <2>1
  <2> QED BY <1>7, <2>1, <2>2 DEF Untouched, Others
<1>8. CASE WaitGranted /\ Asks("WAIT", r)
  <2>1. /\ available_instances[r] > 0
        /\ available_instances' = [available_instances EXCEPT ![r] = @ - 1]
        /\ assigned_to' = [assigned_to EXCEPT ![r] = pcb]
        /\ enqueued_processes' = enqueued_processes
    BY <1>8 DEF WaitGranted, CanTake, Asks
  <2>2. /\ available_instances'[r] = available_instances[r] - 1 /\ assigned_to'[r] = pcb
        /\ \A p \in Procs : Waits(p, r)' = Waits(p, r)
    BY <1>0, <2>1 DEF Waits, TypeOK
  <2>3. ~Asks("SIGNAL", r)
    BY <1>8 DEF Asks
  <2>4. /\ Made(c, "WAIT", r)' = Made(c, "WAIT", r) + 1
        /\ Made(c, "SIGNAL", r)' = Made(c, "SIGNAL", r)
    BY <1>2, <1>3, <1>4, <1>8, <2>3
  <2>5. Has(c, r)' = Has(c, r) + 1
    BY <1>2, <1>4, <2>2, <2>4
  <2>6. Others(r, {c})
    BY <1>6, <2>2 DEF Others
  <2> QED BY <1>1, <2>1, <2>2, <2>3, <2>5, <2>6 DEF Taken
<1>9. CASE WaitBlocked /\ Asks("WAIT", r)
  <2>1. /\ enqueued_processes' = [enqueued_processes EXCEPT ![r] = Append(@, pcb)]
        /\ UNCHANGED <<available_instances, assigned_to>>
    BY <1>9 DEF WaitBlocked, Asks
  <2>2. enqueued_processes[r] \in Seq(Procs)
        /\ enqueued_processes'[r] = Append(enqueued_processes[r], c)
    BY <1>0, <1>1, <2>1 DEF TypeOK
  <2>3. \A p \in Procs : Waits(p, r)' = IF p = c THEN 1 ELSE Waits(p, r)
    BY <2>2, AppendMembers DEF Waits
  <2>4. ~Asks("SIGNAL", r)
    BY <1>9 DEF Asks
  <2>5. /\ Made(c, "WAIT", r)' = Made(c, "WAIT", r) + 1
        /\ Made(c, "SIGNAL", r)' = Made(c, "SIGNAL", r)
    BY <1>2, <1>3, <1>4, <1>9, <2>4
  <2>6. Has(c, r)' = Has(c, r)
    BY <1>2, <1>4, <2>3, <2>5
  <2>7. \A p \in Procs : Has(p, r)' = Has(p, r)
    BY <1>6, <2>3, <2>6
  <2> QED BY <2>1, <2>4, <2>7 DEF Untouched, Others
<1>10. CASE Asks("SIGNAL", r)
  <2>1. Signal /\ ResourceSignal({r})
    BY <1>10 DEF Serving, Yield, InputOutput, UnknownResource, WaitGranted, WaitBlocked,
                 Signal, Exit, Serve, Asks
  <2>2. ~Asks("WAIT", r)
    BY <1>10 DEF Asks
  <2>3. /\ Made(c, "WAIT", r)' = Made(c, "WAIT", r)
        /\ Made(c, "SIGNAL", r)' = Made(c, "SIGNAL", r) + 1
    BY <1>2, <1>3, <1>4, <1>10, <2>2
  <2>4. ASSUME Waits(c, r)' = 0 PROVE Has(c, r)' = Has(c, r) - 1
    BY <1>2, <1>4, <2>3, <2>4
  <2>5. CASE /\ available_instances'[r] = available_instances[r] + 1
             /\ assigned_to'[r] = NULL
             /\ \A p \in Procs : Waits(p, r)' = Waits(p, r)
    <3>1. Has(c, r)' = Has(c, r) - 1
      BY <1>2, <2>4, <2>5
    <3>2. Others(r, {c})
      BY <1>6, <2>5 DEF Others
    <3> QED BY <1>1, <1>10, <2>5, <3>1, <3>2 DEF GivenBack
  <2>6. CASE /\ available_instances'[r] = available_instances[r]
             /\ \E h \in Procs :
                  /\ assigned_to'[r] = h /\ state[h] = "BLOCK"
                  /\ Waits(h, r) = 1 /\ Waits(h, r)' = 0
                  /\ \A p \in Procs : p # h => Waits(p, r)' = Waits(p, r)
    <3>1. PICK h \in Procs : /\ assigned_to'[r] = h /\ state[h] = "BLOCK"
                             /\ Waits(h, r) = 1 /\ Waits(h, r)' = 0
                             /\ \A p \in Procs : p # h => Waits(p, r)' = Waits(p, r)
      BY <2>6
    <3>2. h # c
      BY <1>2, <3>1
    <3>3. Has(c, r)' = Has(c, r) - 1
      BY <1>2, <2>4, <3>1, <3>2
    <3>4. Has(h, r)' = Has(h, r) + 1
      <4>1. ~Returned(h)
        BY <1>5, <3>1
      <4>2. /\ Made(h, "WAIT", r)' = Made(h, "WAIT", r)
            /\ Made(h, "SIGNAL", r)' = Made(h, "SIGNAL", r)
        BY <1>3, <1>4, <3>2, <4>1
      <4> QED BY <1>4, <3>1, <4>1, <4>2
    <3>5. Others(r, {c, h})
      BY <1>6, <3>1 DEF Others
    <3> QED BY <1>1, <1>10, <2>6, <3>1, <3>2, <3>3, <3>4, <3>5 DEF HandedOver
  <2>7. r \in {r} /\ {r} \in SUBSET Resources
    OBVIOUS
  <2> QED BY <2>1, <2>5, <2>6, <2>7, SignalEach
<1>11. Asks("WAIT", r) => WaitGranted \/ WaitBlocked
  BY DEF Serving, Yield, InputOutput, UnknownResource, WaitGranted, WaitBlocked, Signal,
         Exit, Serve, Asks
<1> QED BY <1>7, <1>8, <1>9, <1>10, <1>11

(* The holder on record of a tidy resource is the process that has it ...  *)
LEMMA BooksKeep ==
  ASSUME TypeOK, Holders, Holding, NEW r \in Resources, Tidy(r), NEW c \in Procs,
         \A p \in Procs : Returned(p) => Returned(p)',
         assigned_to[r] = c, Returned(c)' \/ Has(c, r)' = 0,
         GivenBack(r, c) \/ HandedOver(r, c)
  PROVE  Spare(r)' /\ \A p \in Procs : Returned(p)' \/ OnRecord(p, r)'
<1>1. /\ available_instances[r] \in Nat /\ Instances[r] \in Nat
      /\ c # NULL /\ Spare(r) /\ NULL \notin Procs
  BY InstancesAssumption, NullAssumption DEF TypeOK, Holding
<1>2. available_instances[r] + 1 = Instances[r]
  BY <1>1 DEF Spare
<1>3. \A p \in Procs : p # c => Returned(p)' \/ Has(p, r) = 0
  BY DEF Holding, OnRecord, Due
<1>4. CASE GivenBack(r, c)
  BY <1>1, <1>2, <1>3, <1>4 DEF GivenBack, Others, Spare, OnRecord, Due
<1>5. CASE HandedOver(r, c)
  BY <1>1, <1>2, <1>3, <1>5 DEF HandedOver, Others, Spare, OnRecord, Due
<1> QED BY <1>4, <1>5

(* ... after a sweep ...                                                   *)
LEMMA RemoveKeeps ==
  ASSUME IInv, IInv', Holders, Counted, Holding, NEW t \in Threads, LtsRemove(t)
  PROVE  Counted' /\ Holding' /\ UNCHANGED kernel
<1>1. PICK c \in Procs :
        /\ c = visited /\ Counted' /\ UNCHANGED kernel
        /\ \A q \in Procs : Returned(q)' <=> q = c \/ Returned(q)
        /\ \A r \in Resources :
             /\ Has(c, r)' = 0 /\ (Tidy(r)' <=> Tidy(r))
             /\ Left(r, c) \/ (assigned_to[r] = c /\ (GivenBack(r, c) \/ HandedOver(r, c)))
  BY RemoveBooks
<1>2. ASSUME NEW r \in Resources, Tidy(r)'
      PROVE  Spare(r)' /\ \A p \in Procs : Returned(p)' \/ OnRecord(p, r)'
  <2>1. Tidy(r)
    BY <1>1, <1>2
  <2>2. CASE Left(r, c)
    BY <1>1, <2>1, <2>2 DEF Left, Others, Holding, Spare, OnRecord, Due
  <2>3. CASE assigned_to[r] = c /\ (GivenBack(r, c) \/ HandedOver(r, c))
    BY <1>1, <2>1, <2>3, BooksKeep DEF IInv
  <2> QED BY <1>1, <2>2, <2>3
<1> QED BY <1>1, <1>2 DEF Holding

(* ... and after a request: whoever signals a tidy resource has it.        *)
LEMMA ServingKeeps ==
  ASSUME IInv, IInv', Holders, Counted, Holding, Serving
  PROVE  Holding' /\ EverySignalHasAHolder'
<1>0. TypeOK
  BY DEF IInv
<1>1. PICK c \in Procs : c = pcb
  BY RequestServed
<1>2. /\ ~Returned(c) /\ program_counter' = [program_counter EXCEPT ![c] = @ + 1]
      /\ instructions' = instructions
      /\ \A p \in Procs : Returned(p)' <=> Returned(p)
  BY <1>1, RequestServed
<1>3. \A p \in Procs : /\ program_counter[p] \in Nat /\ program_counter'[p] \in Nat
                       /\ instructions'[p] = instructions[p]
                       /\ program_counter[p] <= program_counter'[p]
  BY <1>0, <1>2 DEF TypeOK
<1>4. \A r : Tidy(r)' => Tidy(r)
  BY <1>3, TidyBefore
<1>5. ASSUME NEW r \in Resources, Tidy(r)', Asks("SIGNAL", r)
      PROVE  Has(c, r) = 1 /\ assigned_to[r] = c
  <2>1. ~Returned(c)' /\ Waits(c, r) = 0
    BY <1>1, <1>2, RequestServed
  <2>2. /\ Has(c, r) = Made(c, "WAIT", r) - Waits(c, r) - Made(c, "SIGNAL", r)
        /\ Made(c, "WAIT", r) \in Nat /\ Made(c, "SIGNAL", r) \in Nat
    BY <1>2, <2>1, HasIs
  <2>3. /\ Made(c, "SIGNAL", r)' = Made(c, "SIGNAL", r) + 1
        /\ Made(c, "WAIT", r)' = Made(c, "WAIT", r)
    <3>1. /\ Made(c, "WAIT", r)' =
               Made(c, "WAIT", r) + IF c = pcb /\ Asks("WAIT", r) THEN 1 ELSE 0
          /\ Made(c, "SIGNAL", r)' =
               Made(c, "SIGNAL", r) + IF c = pcb /\ Asks("SIGNAL", r) THEN 1 ELSE 0
      BY RequestServed DEF Ops, Asks
    <3>2. ~Asks("WAIT", r)
      BY <1>5 DEF Asks
    <3> QED BY <1>1, <1>5, <2>2, <3>1, <3>2
  <2>4. Made(c, "SIGNAL", r)' <= Made(c, "WAIT", r)'
    <3>1. program_counter'[c] \in 1 .. program_counter'[c]
      BY <1>0, <1>2 DEF TypeOK
    <3> QED BY <1>5, <3>1 DEF Made, Tidy
  <2>5. Has(c, r) >= 1
    BY <2>1, <2>2, <2>3, <2>4
  <2>6. OnRecord(c, r)
    BY <1>2, <1>4, <1>5 DEF Holding
  <2> QED BY <2>5, <2>6 DEF OnRecord, Due
<1>6. ASSUME NEW r \in Resources, Tidy(r)'
      PROVE  Spare(r)' /\ \A p \in Procs : Returned(p)' \/ OnRecord(p, r)'
  <2>1. /\ Tidy(r) /\ Spare(r) /\ available_instances[r] \in Nat /\ Instances[r] \in {0, 1}
        /\ NULL \notin Procs /\ \A p \in Procs : Returned(p) \/ OnRecord(p, r)
    <3>1. Tidy(r) /\ available_instances[r] \in Nat /\ NULL \notin Procs
      BY <1>0, <1>4, <1>6, NullAssumption DEF TypeOK
    <3>2. Instances[r] \in {0, 1}
      BY <3>1, InstancesAssumption DEF Tidy
    <3> QED BY <3>1, <3>2 DEF Holding
  <2>2. CASE Untouched(r)
    BY <1>2, <2>1, <2>2 DEF Untouched, Others, Spare, OnRecord, Due
  <2>3. CASE Taken(r, c)
    <3>1. available_instances[r] = 1 /\ Instances[r] = 1 /\ assigned_to[r] = NULL
      BY <2>1, <2>3 DEF Spare, Taken
    <3>2. \A p \in Procs : Returned(p) \/ Has(p, r) = 0
      BY <2>1, <3>1 DEF OnRecord, Due
    <3>3. assigned_to'[r] = c /\ available_instances'[r] = 0 /\ Has(c, r)' = 1
      BY <1>1, <1>2, <2>3, <3>1, <3>2 DEF Taken
    <3>4. \A p \in Procs : p # c => Returned(p)' \/ Has(p, r)' = 0
      BY <1>1, <1>2, <2>3, <3>2 DEF Taken, Others
    <3>5. Spare(r)'
      BY <2>1, <3>1, <3>3 DEF Spare
    <3> QED BY <3>3, <3>4, <3>5 DEF OnRecord, Due
  <2>4. CASE /\ Asks("SIGNAL", r) /\ Has(c, r)' = Has(c, r) - 1
             /\ GivenBack(r, c) \/ HandedOver(r, c)
    <3>1. Has(c, r) = 1 /\ assigned_to[r] = c
      BY <1>5, <1>6, <2>4
    <3>2. Has(c, r)' = 0
      BY <1>1, <2>4, <3>1
    <3> QED BY <1>0, <1>1, <1>2, <2>1, <2>4, <3>1, <3>2, BooksKeep
  <2> QED BY <1>1, <2>2, <2>3, <2>4, ServingBooks
<1>7. EverySignalHasAHolder'
  <2>1. ASSUME kernel' = "null_holder"
        PROVE  ~Tidy(LastRequest.arg)'
    <3>1. Signal
      BY <2>1 DEF Serving, Yield, InputOutput, UnknownResource, WaitGranted, WaitBlocked,
                  Signal, Exit, Serve, Up
    <3>2. PICK r \in Resources : Asks("SIGNAL", r) /\ (SignalNull(r) \/ kernel' = kernel)
      BY <3>1 DEF Signal, Serve, Asks
    <3>3. assigned_to[r] = NULL
      BY <2>1, <3>1, <3>2 DEF Signal, Serve, Up, SignalNull
    <3>4. ~Tidy(r)'
      BY <1>5, <3>2, <3>3, NullAssumption
    <3>5. LastRequest' = Request
      BY <1>0, <1>1, <1>2, <3>1 DEF LastRequest, Request, Signal, Serve, TypeOK
    <3>6. (LastRequest.arg)' = r
      BY <3>2, <3>5 DEF Asks
    <3> DEFINE a == LastRequest.arg
    <3>7. Tidy(a)' = Tidy(r)'
      BY <3>6 DEF Tidy
    <3> QED BY <3>4, <3>7
  <2> QED BY <2>1 DEF EverySignalHasAHolder
<1> QED BY <1>6, <1>7 DEF Holding

-----------------------------------------------------------------------------
(* The invariant of the holders and what it says of the instances.         *)

LEMMA HoldingInit == Init => Counted /\ Holding /\ EverySignalHasAHolder
<1> SUFFICES ASSUME Init PROVE Counted /\ Holding /\ EverySignalHasAHolder
  OBVIOUS
<1>1. Counted /\ EverySignalHasAHolder
  BY DEF Init, Counted, EverySignalHasAHolder
<1>2. \A r \in Resources : Spare(r)
  BY InstancesAssumption DEF Init, Spare
<1>3. ASSUME NEW r \in Resources, NEW p \in Procs
      PROVE  OnRecord(p, r)
  <2>1. Made(p, "WAIT", r) = 0 /\ Made(p, "SIGNAL", r) = 0
    BY AskedNone DEF Init, Made
  <2>2. Cardinality(Positions(enqueued_processes[r], p)) = 0
    <3>1. Len(enqueued_processes[r]) = 0
      BY EmptySeq DEF Init
    <3>2. Positions(enqueued_processes[r], p) = {}
      BY <3>1 DEF Positions
    <3> QED BY <3>2, FS_EmptySet
  <2>3. Has(p, r) = 0
    BY <2>1, <2>2 DEF Has
  <2> QED BY <2>3, NullAssumption DEF Init, OnRecord, Due
<1> QED BY <1>1, <1>2, <1>3 DEF Holding

LEMMA LtsIsUp ==
  ASSUME IInv, NEW t \in Threads, Lts(t) \/ LtsAbort(t)
  PROVE  kernel = "up"
<1>1. Next
  BY DEF Next
<1> QED BY <1>1, UpMoves

LEMMA MainIsUp ==
  ASSUME IInv, MainStep
  PROVE  kernel = "up"
<1>1. Next
  BY DEF Next, MainStep
<1> QED BY <1>1, UpMoves

(* What each step does to the books, of whatever thread it is.             *)
LEMMA HoldingNext == HoldingInv /\ [Next]_vars => HoldingInv'
<1> SUFFICES ASSUME HoldingInv, [Next]_vars PROVE HoldingInv'
  OBVIOUS
<1>1. SharedInv' /\ IInv'
  BY SharedNext DEF HoldingInv, SharedInv
<1>2. /\ IInv /\ Placed(Procs) /\ Holders /\ Ending
      /\ Counted /\ Holding /\ EverySignalHasAHolder
  BY DEF HoldingInv, SharedInv
<1>3. CASE UNCHANGED vars
  <2>1. Quiet
    BY <1>3 DEF Quiet, Still, Moves, Returned, vars, procVars, resourceVars, ltsVars
  <2>2. EverySignalHasAHolder'
    BY <1>2, <1>3
    DEF EverySignalHasAHolder, LastRequest, Tidy, vars, procVars, mainVars
  <2> QED BY <1>1, <1>2, <2>1, <2>2, QuietKeeps DEF HoldingInv
<1>4. ASSUME NEW p \in Procs, Connect(p) \/ HangUp(p) \/ Submit(p) \/ IoDone(p)
      PROVE  Counted' /\ Holding' /\ EverySignalHasAHolder'
  <2>0. kernel' # "null_holder"
    BY <1>4 DEF Connect, HangUp, Submit, IoDone, Up
  <2>1. CASE Connect(p) \/ IoDone(p)
    BY <1>2, <2>0, <2>1, QuietConsole, QuietKeeps DEF EverySignalHasAHolder
  <2>2. CASE Submit(p)
    BY <1>2, <2>0, <2>2, SubmitBooks, UntouchedKeeps DEF EverySignalHasAHolder
  <2>3. CASE HangUp(p)
    BY <1>2, <2>0, <2>3, HangUpBooks, UntouchedKeeps DEF EverySignalHasAHolder
  <2> QED BY <1>4, <2>1, <2>2, <2>3
<1>5. ASSUME NEW t \in Threads, Lts(t) \/ LtsAbort(t)
      PROVE  Counted' /\ Holding' /\ EverySignalHasAHolder'
  <2>1. CASE LtsRemove(t)
    <3>1. kernel = "up"
      BY <2>1 DEF LtsRemove, Runs, Up
    <3> QED BY <1>1, <1>2, <2>1, <3>1, RemoveKeeps DEF EverySignalHasAHolder
  <2>2. CASE LtsAdmit(t)
    <3>1. Still /\ Counted' /\ kernel' # "null_holder"
      BY <1>2, <2>2, AdmitBooks DEF LtsAdmit, Runs, Up
    <3>2. TypeOK /\ \A p \in Procs : Returned(p) => Returned(p)'
      BY <1>2, <3>1 DEF IInv, Still
    <3>3. Holding'
      BY <1>2, <3>1, <3>2, StillBooks, StillTidy, UntouchedKeeps
    <3> QED BY <3>1, <3>3 DEF EverySignalHasAHolder
  <2>3. CASE ~LtsRemove(t) /\ ~LtsAdmit(t)
    <3>1. Quiet
      BY <1>2, <1>5, <2>3, QuietLts
    <3>2. kernel' # "null_holder"
      BY <1>2, <1>5, <3>1, LtsIsUp DEF Quiet, Still
    <3> QED BY <1>2, <3>1, <3>2, QuietKeeps DEF EverySignalHasAHolder
  <2> QED BY <2>1, <2>2, <2>3
<1>6. ASSUME MainStep
      PROVE  Counted' /\ Holding' /\ EverySignalHasAHolder'
  <2>1. CASE Serving
    BY <1>1, <1>2, <2>1, CountedServing, ServingKeeps
  <2>2. CASE ~Serving
    <3>1. Quiet
      BY <1>2, <1>6, <2>2, QuietMain
    <3>2. kernel' # "null_holder"
      BY <1>2, <1>6, <2>2, <3>1, MainIsUp DEF Quiet, Still
    <3> QED BY <1>2, <3>1, <3>2, QuietKeeps DEF EverySignalHasAHolder
  <2> QED BY <2>1, <2>2
<1> QED BY <1>1, <1>3, <1>4, <1>5, <1>6, NextByThread DEF HoldingInv

(* As long as a resource is tidy, assigned_to is the process that has its  *)
(* instance, to the end, whatever is asked of the other resources.         *)
THEOREM HoldingInvariant == Spec => []HoldingInv
<1>1. Init => HoldingInv
  BY HoldingInit, PlacesInit DEF HoldingInv, PlacesInv
<1>2. HoldingInv /\ [Next]_vars => HoldingInv'
  BY HoldingNext
<1> QED BY <1>1, <1>2, PTL DEF Spec

(* resource_signal never follows a null holder for a tidy resource.        *)
THEOREM SignalsHaveHolders == Spec => []EverySignalHasAHolder
<1>1. HoldingInv => EverySignalHasAHolder
  BY DEF HoldingInv
<1> QED BY <1>1, HoldingInvariant, PTL

(* The sum over the processes of what each has, when the part of one or of *)
(* two of them changes.                                                    *)
At(c, x) == c[x]
FunctionSum == INSTANCE SumLemmas WITH f <- At

LEMMA SumIs ==
  ASSUME NEW S, NEW has, DOMAIN has = S
  PROVE  SumFunction(has) = FunctionSum!SetSum(has, S)
<1>1. SumFunctionOnSet(has, S) = FunctionSum!SetSum(has, S)
  BY DEF SumFunctionOnSet, FoldFunctionOnSet, FunctionSum!SetSum, FunctionSum!MapThenSumSet,
         MapThenFoldSet, FunctionSum!MapThenFoldSet, At
<1> QED BY <1>1 DEF SumFunction

LEMMA SumMoves ==
  ASSUME NEW S, IsFiniteSet(S), NEW f \in [S -> Int], NEW g \in [S -> Int], NEW c \in S,
         \A p \in S : p # c => g[p] = f[p]
  PROVE  SumFunction(f) \in Int /\ SumFunction(g) = SumFunction(f) + (g[c] - f[c])
<1>1. SumFunction(f) = FunctionSum!SetSum(f, S) /\ SumFunction(g) = FunctionSum!SetSum(g, S)
  BY SumIs
<1>2. \A p \in S : At(f, p) \in Int /\ At(g, p) \in Int /\ (p # c => At(g, p) = At(f, p))
  BY DEF At
<1>3. /\ FunctionSum!SetSum(f, S) \in Int
      /\ FunctionSum!SetSum(g, S) = FunctionSum!SetSum(f, S) + (At(g, c) - At(f, c))
  BY <1>2, FunctionSum!SetSumShift DEF IsFiniteSet, FunctionSum!IsFiniteSet
<1> QED BY <1>1, <1>3 DEF At

LEMMA SumMovesTwo ==
  ASSUME NEW S, IsFiniteSet(S), NEW f \in [S -> Int], NEW g \in [S -> Int],
         NEW c \in S, NEW h \in S, c # h, \A p \in S : p # c /\ p # h => g[p] = f[p]
  PROVE  /\ SumFunction(f) \in Int
         /\ SumFunction(g) = SumFunction(f) + (g[c] - f[c]) + (g[h] - f[h])
<1> DEFINE m == [f EXCEPT ![c] = g[c]]
<1>1. /\ m \in [S -> Int] /\ m[c] = g[c] /\ m[h] = f[h]
      /\ \A p \in S : (p # c => m[p] = f[p]) /\ (p # h => g[p] = m[p])
  OBVIOUS
<1> HIDE DEF m
<1>2. SumFunction(f) \in Int /\ SumFunction(m) = SumFunction(f) + (g[c] - f[c])
  BY <1>1, SumMoves
<1>3. SumFunction(g) = SumFunction(m) + (g[h] - f[h])
  BY <1>1, SumMoves
<1>4. f[c] \in Int /\ f[h] \in Int /\ g[c] \in Int /\ g[h] \in Int
  OBVIOUS
<1> QED BY <1>2, <1>3, <1>4

(* What becomes of the total of a resource.                                *)
LEMMA TotalSame ==
  ASSUME NEW r \in Resources, Untouched(r)
  PROVE  Total(r)' = Total(r)
<1>1. [p \in Procs |-> Has(p, r)'] = [p \in Procs |-> Has(p, r)]
  BY DEF Untouched, Others
<1> QED BY <1>1 DEF Total, Untouched

LEMMA TotalMoves ==
  ASSUME IsFiniteSet(Procs), IInv, IInv', NEW r \in Resources, NEW c \in Procs
  PROVE  /\ Total(r) \in Int
         /\ Others(r, {c}) =>
              Total(r)' = Total(r) + (available_instances'[r] - available_instances[r])
                            + (Has(c, r)' - Has(c, r))
         /\ \A h \in Procs \ {c} : Others(r, {c, h}) =>
              Total(r)' = Total(r) + (available_instances'[r] - available_instances[r])
                            + (Has(c, r)' - Has(c, r)) + (Has(h, r)' - Has(h, r))
<1>1. PICK f : f = [p \in Procs |-> Has(p, r)]
  OBVIOUS
<1>2. PICK g : g = [p \in Procs |-> Has(p, r)']
  OBVIOUS
<1>3. \A p \in Procs : Has(p, r) \in Int /\ Has(p, r)' \in Int
  BY HasType, HasTypeNext
<1>4. f \in [Procs -> Int] /\ g \in [Procs -> Int]
  BY <1>1, <1>2, <1>3
<1>5. available_instances[r] \in Nat /\ available_instances'[r] \in Nat
  BY DEF IInv, TypeOK
<1>6. /\ Total(r) = available_instances[r] + SumFunction(f)
      /\ Total(r)' = available_instances'[r] + SumFunction(g)
  BY <1>1, <1>2 DEF Total
<1>7. \A p \in Procs : f[p] = Has(p, r) /\ g[p] = Has(p, r)'
  BY <1>1, <1>2
<1>8. SumFunction(f) \in Int
  BY <1>4, SumMoves
<1>9. ASSUME Others(r, {c})
      PROVE  Total(r)' = Total(r) + (available_instances'[r] - available_instances[r])
                           + (Has(c, r)' - Has(c, r))
  <2>1. \A p \in Procs : p # c => g[p] = f[p]
    BY <1>7, <1>9 DEF Others
  <2>2. SumFunction(g) = SumFunction(f) + (g[c] - f[c])
    BY <1>4, <2>1, SumMoves
  <2> QED BY <1>3, <1>5, <1>6, <1>7, <1>8, <2>2
<1>10. ASSUME NEW h \in Procs \ {c}, Others(r, {c, h})
       PROVE  Total(r)' = Total(r) + (available_instances'[r] - available_instances[r])
                            + (Has(c, r)' - Has(c, r)) + (Has(h, r)' - Has(h, r))
  <2>1. \A p \in Procs : p # c /\ p # h => g[p] = f[p]
    BY <1>7, <1>10 DEF Others
  <2>2. SumFunction(g) = SumFunction(f) + (g[c] - f[c]) + (g[h] - f[h])
    BY <1>4, <2>1, SumMovesTwo
  <2> QED BY <1>3, <1>5, <1>6, <1>7, <1>8, <2>2
<1> QED BY <1>5, <1>6, <1>8, <1>9, <1>10

(* The books of every resource balance in every step, whatever the programs*)
(* ask: only a process that ends makes or loses instances, the difference  *)
(* between what it had and the one that it gives back.                     *)
THEOREM InstancesBalance ==
  ASSUME IsFiniteSet(Procs)
  PROVE  Spec => InstancesAreAccounted
<1> DEFINE Balances(r) ==
      \/ Total(r)' = Total(r) /\ \A p \in Procs : ~Ends(p)
      \/ \E p \in Procs : Ends(p) /\ Total(r)' + Has(p, r) = Total(r) + Due(p, r)
<1>1. ASSUME HoldingInv, HoldingInv', Next, NEW r \in Resources
      PROVE  Balances(r)
  <2>0. IInv /\ IInv' /\ Placed(Procs) /\ Holders /\ Ending /\ Counted /\ TypeOK
    BY <1>1 DEF HoldingInv, SharedInv, IInv
  <2>1. ASSUME Still PROVE Balances(r)
    BY <2>1, StillBooks, TotalSame DEF Still, Ends
  <2>2. ASSUME NEW p \in Procs, Submit(p) PROVE Balances(r)
    BY <2>0, <2>2, SubmitBooks, TotalSame DEF Ends
  <2>3. ASSUME NEW p \in Procs, HangUp(p) PROVE Balances(r)
    <3>1. /\ Untouched(r) /\ Has(p, r) = 0 /\ Ends(p) /\ state[p] = "NEW"
      BY <2>0, <2>3, HangUpBooks DEF Ends
    <3>2. Due(p, r) = 0
      BY <2>0, <3>1, NullAssumption DEF Due, Holders
    <3>3. Total(r)' = Total(r) /\ Total(r) \in Int
      BY <2>0, <3>1, TotalSame, TotalMoves
    <3> QED BY <3>1, <3>2, <3>3
  <2>4. ASSUME NEW t \in Threads, LtsRemove(t) PROVE Balances(r)
    <3>1. PICK c \in Procs :
            /\ c = visited /\ Ends(c) /\ Has(c, r)' = 0
            /\ Left(r, c) \/ (assigned_to[r] = c /\ (GivenBack(r, c) \/ HandedOver(r, c)))
      BY <2>0, <2>4, RemoveBooks DEF Ends
    <3>2. Has(c, r) \in Int /\ Total(r) \in Int /\ available_instances[r] \in Nat
      BY <2>0, TotalMoves, HasType DEF TypeOK
    <3>3. CASE Left(r, c)
      <4>1. Due(c, r) = 0 /\ available_instances'[r] = available_instances[r] /\ Others(r, {c})
        BY <3>3 DEF Left, Due
      <4>2. Total(r)' = Total(r) + (available_instances'[r] - available_instances[r])
                          + (Has(c, r)' - Has(c, r))
        BY <2>0, <4>1, TotalMoves
      <4> QED BY <3>1, <3>2, <4>1, <4>2
    <3>4. CASE assigned_to[r] = c /\ GivenBack(r, c)
      <4>1. /\ Due(c, r) = 1 /\ available_instances'[r] = available_instances[r] + 1
            /\ Others(r, {c})
        BY <3>4 DEF GivenBack, Due
      <4>2. Total(r)' = Total(r) + (available_instances'[r] - available_instances[r])
                          + (Has(c, r)' - Has(c, r))
        BY <2>0, <4>1, TotalMoves
      <4> QED BY <3>1, <3>2, <4>1, <4>2
    <3>5. CASE assigned_to[r] = c /\ HandedOver(r, c)
      <4>1. PICK h \in Procs \ {c} : Has(h, r)' = Has(h, r) + 1 /\ Others(r, {c, h})
        BY <3>5 DEF HandedOver
      <4>2. Due(c, r) = 1 /\ available_instances'[r] = available_instances[r]
        BY <3>5 DEF HandedOver, Due
      <4>3. Total(r)' = Total(r) + (available_instances'[r] - available_instances[r])
                          + (Has(c, r)' - Has(c, r)) + (Has(h, r)' - Has(h, r))
        BY <2>0, <4>1, TotalMoves
      <4>4. Has(h, r) \in Int
        BY <2>0, HasType
      <4> QED BY <3>1, <3>2, <4>1, <4>2, <4>3, <4>4
    <3> QED BY <3>1, <3>3, <3>4, <3>5
  <2>5. ASSUME Serving PROVE Balances(r)
    <3>1. PICK c \in Procs : c = pcb
      BY <2>0, <2>5, RequestServed
    <3>2. \A p \in Procs : ~Ends(p)
      BY <2>0, <2>5, RequestServed DEF Ends
    <3>3. Has(c, r) \in Int /\ Total(r) \in Int /\ available_instances[r] \in Nat
      BY <2>0, TotalMoves, HasType DEF TypeOK
    <3>4. CASE Untouched(r)
      BY <3>2, <3>4, TotalSame
    <3>5. CASE Taken(r, c) \/ (Has(c, r)' = Has(c, r) - 1 /\ GivenBack(r, c))
      <4>1. /\ Others(r, {c})
            /\ \/ /\ available_instances'[r] = available_instances[r] - 1
                  /\ Has(c, r)' = Has(c, r) + 1
               \/ /\ available_instances'[r] = available_instances[r] + 1
                  /\ Has(c, r)' = Has(c, r) - 1
        BY <3>1, <3>5 DEF Taken, GivenBack
      <4>2. Total(r)' = Total(r) + (available_instances'[r] - available_instances[r])
                          + (Has(c, r)' - Has(c, r))
        BY <2>0, <4>1, TotalMoves
      <4> QED BY <3>2, <3>3, <4>1, <4>2
    <3>6. CASE Has(c, r)' = Has(c, r) - 1 /\ HandedOver(r, c)
      <4>1. PICK h \in Procs \ {c} : Has(h, r)' = Has(h, r) + 1 /\ Others(r, {c, h})
        BY <3>6 DEF HandedOver
      <4>2. available_instances'[r] = available_instances[r]
        BY <3>6 DEF HandedOver
      <4>3. Total(r)' = Total(r) + (available_instances'[r] - available_instances[r])
                          + (Has(c, r)' - Has(c, r)) + (Has(h, r)' - Has(h, r))
        BY <2>0, <4>1, TotalMoves
      <4>4. Has(h, r) \in Int
        BY <2>0, HasType
      <4> QED BY <3>2, <3>3, <3>6, <4>1, <4>2, <4>3, <4>4
    <3> QED BY <2>0, <2>5, <3>1, <3>4, <3>5, <3>6, ServingBooks
  <2>6. ASSUME NEW p \in Procs, Connect(p) \/ IoDone(p) PROVE Balances(r)
    BY <2>0, <2>1, <2>6, QuietConsole DEF Quiet
  <2>7. ASSUME NEW t \in Threads, Lts(t) \/ LtsAbort(t), ~LtsRemove(t) PROVE Balances(r)
    BY <2>0, <2>1, <2>7, AdmitBooks, QuietLts DEF Quiet
  <2>8. ASSUME MainStep, ~Serving PROVE Balances(r)
    BY <2>0, <2>1, <2>8, QuietMain DEF Quiet
  <2> HIDE DEF Balances
  <2> QED BY <1>1, <2>2, <2>3, <2>4, <2>5, <2>6, <2>7, <2>8, NextByThread
<1>2. HoldingInv /\ HoldingInv' /\ [Next]_vars => [\A r \in Resources : Balances(r)]_vars
  BY <1>1
<1> QED BY <1>2, HoldingInvariant, PTL DEF Spec, InstancesAreAccounted

(* The sum when one process has it all.                                    *)
LEMMA OneHolder ==
  ASSUME NEW S, IsFiniteSet(S), NEW h, NEW has,
         has = [p \in S |-> IF h = p THEN 1 ELSE 0]
  PROVE  SumFunction(has) = IF h \in S THEN 1 ELSE 0
<1> DEFINE none == [p \in S |-> 0]
<1>1. SumFunction(none) = 0
  <2>1. \A p \in S : At(none, p) = 0
    BY DEF At
  <2>2. FunctionSum!SetSum(none, S) = 0
    <3> HIDE DEF none
    <3> QED BY <2>1, FunctionSum!SetSumZero DEF IsFiniteSet, FunctionSum!IsFiniteSet
  <2> QED BY <2>2, SumIs
<1>2. CASE h \in S
  <2>1. /\ none \in [S -> Int] /\ has \in [S -> Int] /\ has[h] = 1 /\ none[h] = 0
        /\ \A p \in S : p # h => has[p] = none[p]
    BY <1>2
  <2> HIDE DEF none
  <2>2. SumFunction(has) = SumFunction(none) + (has[h] - none[h])
    BY <1>2, <2>1, SumMoves
  <2> QED BY <1>1, <1>2, <2>1, <2>2
<1>3. CASE h \notin S
  <2>1. has = none
    BY <1>3
  <2> QED BY <1>1, <1>3, <2>1
<1> QED BY <1>2, <1>3

(* The instance of a tidy resource is neither lost nor multiplied, through *)
(* WAIT, SIGNAL, hand-over and the end of its holder, for any number of    *)
(* processes and with either algorithm.                                    *)
THEOREM InstancesAreConserved ==
  ASSUME IsFiniteSet(Procs)
  PROVE  Spec => []ResourceConservation
<1>1. ASSUME HoldingInv, NEW r \in Resources, Tidy(r)
      PROVE  Total(r) = Instances[r]
  <2>1. Spare(r) /\ Holders /\ TypeOK /\ NULL \notin Procs
    BY <1>1, NullAssumption DEF HoldingInv, Holding, SharedInv, IInv
  <2>2. \A p \in Procs : Has(p, r) = IF assigned_to[r] = p THEN 1 ELSE 0
    <3>1. ASSUME NEW p \in Procs, Returned(p)
          PROVE  Has(p, r) = 0 /\ assigned_to[r] # p
      BY <1>1, <2>1, <3>1 DEF Has, Returned, Holders
    <3>2. ASSUME NEW p \in Procs, ~Returned(p)
          PROVE  Has(p, r) = IF assigned_to[r] = p THEN 1 ELSE 0
      BY <1>1, <3>2 DEF HoldingInv, Holding, OnRecord, Due
    <3> QED BY <3>1, <3>2
  <2>3. PICK has : has = [p \in Procs |-> Has(p, r)]
    OBVIOUS
  <2>4. PICK h : h = assigned_to[r]
    OBVIOUS
  <2>5. has = [p \in Procs |-> IF h = p THEN 1 ELSE 0]
    BY <2>2, <2>3, <2>4
  <2>6. SumFunction(has) = IF h \in Procs THEN 1 ELSE 0
    BY <2>5, OneHolder
  <2>7. assigned_to[r] \in Procs \cup {NULL}
    BY <2>1 DEF TypeOK
  <2> QED BY <2>1, <2>3, <2>4, <2>6, <2>7 DEF Spare, Total
<1>2. HoldingInv => ResourceConservation
  BY <1>1 DEF ResourceConservation
<1> QED BY <1>2, HoldingInvariant, PTL
=============================================================================
