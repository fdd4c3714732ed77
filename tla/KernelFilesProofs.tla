-------------------------- MODULE KernelFilesProofs --------------------------
(***************************************************************************)
(* Theorems about the files of the kernel, for any number of processes and *)
(* files, with a file system that may refuse, lose and fail: what waits is *)
(* awaited once, and, when processes close only the files they have, every *)
(* file has one owner and the kernel implements FileLocks.                 *)
(***************************************************************************)
EXTENDS KernelFiles, QueueLemmas, TLAPS

USE DEF fileVars, handlerVars, socketVars, mainVars

-----------------------------------------------------------------------------
(* Type correctness.                                                       *)

LEMMA FilesTypeInit == Init => TypeOK
  BY EmptySeq DEF Init, TypeOK

(* What a receive takes is an answer or NULL, and leaves answers.          *)
LEMMA ReceiveType ==
  ASSUME TypeOK, NEW answer, Receive(answer)
  PROVE  /\ answered' \in Seq(Answers)
         /\ answer \in Answers \cup {NULL}
         /\ answered # <<>> => Len(answered') = Len(answered) - 1
         /\ answered = <<>> => fs = "lost"
<1>1. answered \in Seq(Answers)
  BY DEF TypeOK
<1> QED BY <1>1, AppendHeadTail DEF Receive

LEMMA SendType ==
  ASSUME TypeOK, NEW op \in {"open", "create", "truncate", "transfer"}, NEW f \in Files,
         Send(op, f)
  PROVE  /\ asked' \in Seq(Requests)
         /\ fs = "up" => Len(asked') = Len(asked) + 1
<1>1. asked \in Seq(Requests)
  BY DEF TypeOK
<1>2. [op |-> op, file |-> f] \in Requests
  BY DEF Requests
<1> QED BY <1>1, <1>2, AppendHeadTail DEF Send

(* The queues of processes, after a push and after a pop.                  *)
LEMMA WaitingQueues ==
  ASSUME TypeOK, NEW f \in Files
  PROVE  /\ waiting[f] \in Seq(Procs)
         /\ \A p \in Procs : Append(waiting[f], p) \in Seq(Procs)
         /\ waiting[f] # <<>> =>
              Head(waiting[f]) \in Procs /\ Tail(waiting[f]) \in Seq(Procs)
<1>1. waiting[f] \in Seq(Procs)
  BY DEF TypeOK
<1> QED BY <1>1, AppendHeadTail

(* An entry of the tables, changed.                                        *)
Positions == {"closed", "unset", "set"}
LEMMA TableEntry ==
  ASSUME NEW T \in [Procs -> [Files -> Positions]],
         NEW p \in Procs, NEW f \in Files, NEW v \in Positions
  PROVE  /\ [T EXCEPT ![p][f] = v] \in [Procs -> [Files -> Positions]]
         /\ \A q \in Procs, g \in Files :
              [T EXCEPT ![p][f] = v][q][g] = IF q = p /\ g = f THEN v ELSE T[q][g]
<1>1. [T[p] EXCEPT ![f] = v] \in [Files -> Positions]
  OBVIOUS
<1>2. ASSUME NEW q \in Procs, NEW g \in Files
      PROVE  [T EXCEPT ![p][f] = v][q][g] = IF q = p /\ g = f THEN v ELSE T[q][g]
  <2>1. T[q] \in [Files -> Positions]
    OBVIOUS
  <2> QED BY <2>1
<1> QED BY <1>1, <1>2

LEMMA FilesTypeMain ==
  ASSUME TypeOK, Serving
  PROVE  TypeOK'
<1>1. CASE Other \/ Exit \/ Push \/ Block \/ CompactRequest \/ Drained
  BY <1>1 DEF Other, Exit, Push, Block, CompactRequest, Drained, Serve, Goto, Become, TypeOK
<1>2. CASE Settle
  <2>1. pcb \in Procs /\ main' = "pick" /\ pcb' = NULL /\ file' = NULL
    BY <1>2 DEF Settle, Goto, TypeOK
  <2>2. CASE local_files' = [local_files EXCEPT ![pcb] = [f \in Files |-> "closed"]]
    BY <1>2, <2>1, <2>2 DEF Settle, Become, TypeOK
  <2>3. CASE UNCHANGED local_files
    BY <1>2, <2>1, <2>3 DEF Settle, Become, TypeOK
  <2> QED BY <1>2, <2>2, <2>3 DEF Settle
<1>3. ASSUME NEW f \in Files, FOpenWait(f) PROVE TypeOK'
  BY <1>3, WaitingQueues DEF FOpenWait, WaitBlocked, Serve, Goto, Become, TypeOK
<1>4. ASSUME NEW f \in Files, FOpenAsk(f) PROVE TypeOK'
  BY <1>4, SendType DEF FOpenAsk, Ask, SendFails, Serve, Goto, TypeOK
<1>5. ASSUME NEW f \in Files, FileNotOpen(f) \/ NotMine(f) PROVE TypeOK'
  BY <1>5 DEF FileNotOpen, NotMine, Serve, Goto, TypeOK
<1>6. ASSUME NEW f \in Files, FClose(f) PROVE TypeOK'
  <2>1. pcb \in Procs /\ pcb' = pcb /\ main' = "push"
    BY <1>6 DEF FClose, Serve, Goto, TypeOK
  <2>2. CASE waiting[f] = <<>>
    <3>1. local_files' \in [Procs -> [Files -> Positions]]
      <4>1. local_files' = [local_files EXCEPT ![pcb][f] = "closed"]
        BY <1>6, <2>2 DEF FClose
      <4>2. local_files \in [Procs -> [Files -> Positions]]
        BY DEF TypeOK, Positions
      <4> QED BY <2>1, <4>1, <4>2, TableEntry DEF Positions
    <3>2. /\ open' = open \ {f}
          /\ UNCHANGED <<kernel, state, waiting, active_pcbs, file, handlerVars, socketVars>>
      BY <1>6, <2>2 DEF FClose
    <3>3. file \in Files \cup {NULL}
      BY <1>6 DEF TypeOK
    <3> QED BY <2>1, <3>1, <3>2, <3>3 DEF TypeOK, Positions
  <2>3. CASE waiting[f] # <<>>
    <3>1. Head(waiting[f]) \in Procs /\ Tail(waiting[f]) \in Seq(Procs)
      BY <2>3, WaitingQueues
    <3>2. waiting' = [waiting EXCEPT ![f] = Tail(waiting[f])]
      BY <1>6, <2>3 DEF FClose, HeadLeaves
    <3>4. waiting' \in [Files -> Seq(Procs)]
      BY <3>1, <3>2 DEF TypeOK
    <3>5. state' \in [Procs -> {"none", "READY", "EXEC", "BLOCK", "EXIT_PROCESS", "freed"}]
      BY <1>6, <2>3, <3>1 DEF FClose, Become, TypeOK
    <3>3. local_files' \in [Procs -> [Files -> Positions]]
      <4> DEFINE T == [local_files EXCEPT ![Head(waiting[f])][f] = "unset"]
      <4>1. local_files' = [T EXCEPT ![pcb][f] = "closed"]
        BY <1>6, <2>3 DEF FClose, HandedOver
      <4>2. T \in [Procs -> [Files -> Positions]]
        BY <3>1, TableEntry DEF TypeOK, Positions
      <4> HIDE DEF T
      <4> QED BY <2>1, <4>1, <4>2, TableEntry DEF Positions
    <3> QED BY <1>6, <2>1, <2>3, <3>3, <3>4, <3>5 DEF FClose, TypeOK, Positions
  <2> QED BY <2>2, <2>3
<1>7. ASSUME NEW f \in Files, FSeek(f) PROVE TypeOK'
  BY <1>7 DEF FSeek, Serve, Goto, TypeOK
<1>8. ASSUME NEW f \in Files, FTruncateAsk(f) PROVE TypeOK'
  BY <1>8, SendType DEF FTruncateAsk, Ask, SendFails, Serve, Goto, TypeOK
<1>9. ASSUME NEW f \in Files, FReadWrite(f) PROVE TypeOK'
  <2>1. pcb \in Procs /\ local_files[pcb][f] \in {"unset", "set"}
    BY <1>9 DEF FReadWrite, Serve, Has, TypeOK
  <2>2. [pcb |-> pcb, file |-> f, position |-> local_files[pcb][f]] \in FileInstructions
    BY <2>1 DEF FileInstructions
  <2>3. file_instructions' \in Seq(FileInstructions)
    BY <1>9, <2>2, AppendHeadTail DEF FReadWrite, TypeOK
  <2> QED BY <1>9, <2>1, <2>3 DEF FReadWrite, Goto, TypeOK
<1>10. CASE FOpenAnswer
  <2>1. file \in Files /\ pcb \in Procs
    BY <1>10 DEF FOpenAnswer, TypeOK
  <2>2. answered' \in Seq(Answers)
    BY <1>10, ReceiveType DEF FOpenAnswer
  <2>3. CASE Opened /\ main' = "push" /\ UNCHANGED <<asked, file>>
    BY <1>10, <2>1, <2>2, <2>3, EmptySeq DEF FOpenAnswer, Opened, TypeOK
  <2>4. CASE Ask("create", file, "create") /\ UNCHANGED fileVars
    <3>1. asked' \in Seq(Requests) /\ file' = file /\ main' \in {"create", "push"}
      BY <2>1, <2>4, SendType DEF Ask, SendFails, Goto, TypeOK
    <3> QED BY <1>10, <2>1, <2>2, <2>4, <3>1 DEF FOpenAnswer, TypeOK
  <2>5. CASE main' = "push" /\ UNCHANGED <<fileVars, asked, file>>
    BY <1>10, <2>1, <2>2, <2>5 DEF FOpenAnswer, TypeOK
  <2> QED BY <1>10, <2>3, <2>4, <2>5 DEF FOpenAnswer, Goto
<1>11. CASE FCreateAnswer
  <2>1. file \in Files /\ pcb \in Procs
    BY <1>11 DEF FCreateAnswer, TypeOK
  <2>2. answered' \in Seq(Answers)
    BY <1>11, ReceiveType DEF FCreateAnswer
  <2>3. CASE Opened
    BY <1>11, <2>1, <2>2, <2>3, EmptySeq DEF FCreateAnswer, Goto, Opened, TypeOK
  <2>4. CASE UNCHANGED fileVars
    BY <1>11, <2>1, <2>2, <2>4 DEF FCreateAnswer, Goto, TypeOK
  <2> QED BY <1>11, <2>3, <2>4 DEF FCreateAnswer
<1>12. CASE FTruncateAnswer
  BY <1>12, ReceiveType DEF FTruncateAnswer, Goto, TypeOK
<1> QED BY <1>1, <1>2, <1>3, <1>4, <1>5, <1>6, <1>7, <1>8, <1>9, <1>10, <1>11, <1>12
        DEF Serving, File, Awaited

LEMMA FilesTypeOthers ==
  ASSUME TypeOK,
         (\E p \in Procs : Arrive(p) \/ Pick(p)) \/ HandleFs \/ FsServe \/ FsLost
  PROVE  TypeOK'
<1>1. ASSUME NEW p \in Procs, Arrive(p) \/ Pick(p) PROVE TypeOK'
  BY <1>1 DEF Arrive, Pick, Goto, Become, TypeOK
<1>2. CASE HandleTake
  <2>1. /\ Head(file_instructions) \in FileInstructions
        /\ file_instructions' \in Seq(FileInstructions)
    BY <1>2, AppendHeadTail DEF HandleTake, Popped, TypeOK
  <2>2. Head(file_instructions).file \in Files
    BY <2>1 DEF FileInstructions
  <2>3. asked' \in Seq(Requests)
    BY <1>2, <2>2, SendType DEF HandleTake, SendFails, TypeOK
  <2> QED BY <1>2, <2>1, <2>3 DEF HandleTake, TypeOK
<1>3. CASE HandleAnswer
  <2>1. handler.pcb \in Procs
    BY <1>3 DEF HandleAnswer, FileInstructions, TypeOK
  <2> QED BY <1>3, <2>1, ReceiveType DEF HandleAnswer, Become, TypeOK
<1>4. CASE FsServe
  <2>1. Head(asked) \in Requests /\ asked' \in Seq(Requests)
    BY <1>4, AppendHeadTail DEF FsServe, TypeOK
  <2>2. FsAnswers(Head(asked)) \subseteq Answers
    BY <2>1 DEF FsAnswers, Requests, Answers
  <2>3. answered' \in Seq(Answers)
    BY <1>4, <2>2, AppendHeadTail DEF FsServe, Replied, TypeOK
  <2>4. created' \subseteq Files
    BY <1>4, <2>1 DEF FsServe, Requests, TypeOK
  <2> QED BY <1>4, <2>1, <2>3, <2>4 DEF FsServe, TypeOK
<1>5. CASE FsLost
  BY <1>5, EmptySeq DEF FsLost, TypeOK
<1> QED BY <1>1, <1>2, <1>3, <1>4, <1>5 DEF HandleFs

LEMMA FilesTypeNext == TypeOK /\ [Next]_vars => TypeOK'
<1>1. TypeOK /\ UNCHANGED vars => TypeOK'
  BY DEF vars, TypeOK
<1> QED BY <1>1, FilesTypeMain, FilesTypeOthers DEF Next

(* Type correctness, in every reachable state.                             *)
THEOREM FilesTypeCorrect == Spec => []TypeOK
  BY FilesTypeInit, FilesTypeNext, PTL DEF Spec

-----------------------------------------------------------------------------
(* The inductive invariant, one lemma per conjunct.                        *)

LEMMA FilesInvInit == Init => IInv
<1> SUFFICES ASSUME Init PROVE IInv
  OBVIOUS
<1>1. TypeOK
  BY FilesTypeInit
<1>2. Running /\ HandedPcb /\ NotOpenYet /\ ClosedIsFree
  BY DEF Init, Running, HandedPcb, NotOpenYet, ClosedIsFree
<1>3. Len(<<>>) = 0
  BY EmptySeq
<1>4. AwaitedOnce
  BY <1>3 DEF Init, AwaitedOnce, WaitersOnce, RequestsOnce, Apart
<1>5. AnswersAreEnough
  BY <1>3 DEF Init, AnswersAreEnough, Awaiting
<1>6. OneOwner
  BY DEF Init, OneOwner, Has
<1> QED BY <1>1, <1>2, <1>4, <1>5, <1>6 DEF IInv

(* The elements of the queues are processes and requests of processes.     *)
LEMMA Elements ==
  ASSUME TypeOK
  PROVE  /\ \A f \in Files : Len(waiting[f]) \in Nat
         /\ \A f \in Files : \A k \in 1 .. Len(waiting[f]) : waiting[f][k] \in Procs
         /\ Len(file_instructions) \in Nat
         /\ \A i \in 1 .. Len(file_instructions) :
              file_instructions[i] \in FileInstructions /\ file_instructions[i].pcb \in Procs
         /\ handler # NULL => handler \in FileInstructions /\ handler.pcb \in Procs
<1>1. \A f \in Files : waiting[f] \in Seq(Procs)
  BY DEF TypeOK
<1>2. file_instructions \in Seq(FileInstructions)
  BY DEF TypeOK
<1>3. \A fi \in FileInstructions : fi.pcb \in Procs
  BY DEF FileInstructions
<1>4. handler \in FileInstructions \cup {NULL}
  BY DEF TypeOK
<1> QED BY <1>1, <1>2, <1>3, <1>4, AppendHeadTail

(* The PCB in the hands of the main loop outside of the line that blocks   *)
(* it is awaited by nobody as long as it is in EXEC.                       *)
LEMMA AwaitedFrame ==
  ASSUME TypeOK, AwaitedOnce, UNCHANGED <<waiting, file_instructions, handler>>,
         \A p \in Procs : state[p] = "BLOCK" => state'[p] = "BLOCK",
         \A p \in Procs : InTransit(p) => InTransit(p)'
  PROVE  AwaitedOnce'
<1>1. WaitersOnce'
  BY Elements DEF AwaitedOnce, WaitersOnce
<1>2. RequestsOnce'
  BY Elements DEF AwaitedOnce, RequestsOnce
<1>3. Apart'
  BY DEF AwaitedOnce, Apart
<1> QED BY <1>1, <1>2, <1>3 DEF AwaitedOnce

(* ... where nothing is BLOCKed but the PCB, when it is its turn.          *)
LEMMA AwaitedMain ==
  ASSUME IInv, main' # "block", UNCHANGED <<waiting, file_instructions, handler>>,
         \/ UNCHANGED state /\ main # "block"
         \/ \E s : state' = [state EXCEPT ![pcb] = s] /\ state[pcb] # "BLOCK" /\ main # "block"
         \/ state' = [state EXCEPT ![pcb] = "BLOCK"] /\ main = "block"
  PROVE  AwaitedOnce'
<1>1. ASSUME NEW p \in Procs, state[p] = "BLOCK" PROVE state'[p] = "BLOCK"
  BY <1>1 DEF IInv, TypeOK
<1>2. ASSUME NEW p \in Procs, InTransit(p) PROVE InTransit(p)'
  BY <1>1, <1>2 DEF IInv, TypeOK, InTransit
<1> QED BY <1>1, <1>2, AwaitedFrame DEF IInv

(* A PCB in EXEC that is not about to be blocked is awaited by nobody.     *)
LEMMA NotAwaited ==
  ASSUME IInv, NEW p \in Procs, state[p] = "EXEC", main # "block"
  PROVE  /\ \A f \in Files : \A k \in 1 .. Len(waiting[f]) : waiting[f][k] # p
         /\ \A i \in 1 .. Len(file_instructions) : file_instructions[i].pcb # p
         /\ handler # NULL => handler.pcb # p
  BY DEF IInv, AwaitedOnce, WaitersOnce, RequestsOnce, InTransit

LEMMA AwaitedFOpenWait ==
  ASSUME IInv, NEW f \in Files, FOpenWait(f)
  PROVE  AwaitedOnce'
<1>0. TypeOK /\ Running /\ WaitersOnce /\ RequestsOnce /\ Apart
  BY DEF IInv, AwaitedOnce
<1>1. /\ pcb \in Procs /\ state[pcb] = "EXEC" /\ main = "serve" /\ main' = "push"
      /\ pcb' = pcb /\ handler' = handler /\ file_instructions' = file_instructions
  BY <1>0 DEF FOpenWait, Serve, Goto, TypeOK, Running
<1>2. \A p \in Procs : state'[p] = IF p = pcb THEN "BLOCK" ELSE state[p]
  BY <1>0, <1>1 DEF FOpenWait, WaitBlocked, Become, TypeOK
<1>3. \A g \in Files : \A k \in 1 .. Len(waiting'[g]) :
        \/ g = f /\ k = Len(waiting[f]) + 1 /\ waiting'[g][k] = pcb
        \/ k \in 1 .. Len(waiting[g]) /\ waiting'[g][k] = waiting[g][k]
  <2>1. waiting[f] \in Seq(Procs)
    BY <1>0 DEF TypeOK
  <2>2. \A g \in Files : waiting'[g] = IF g = f THEN Append(waiting[f], pcb) ELSE waiting[g]
    BY <1>0 DEF FOpenWait, TypeOK
  <2>3. /\ Len(waiting[f]) \in Nat
        /\ Len(Append(waiting[f], pcb)) = Len(waiting[f]) + 1
        /\ \A k \in 1 .. Len(waiting[f]) + 1 :
             Append(waiting[f], pcb)[k] = IF k <= Len(waiting[f]) THEN waiting[f][k] ELSE pcb
    BY <1>1, <2>1, AppendHeadTail
  <2>4. ASSUME NEW g \in Files, NEW k \in 1 .. Len(waiting'[g])
        PROVE  \/ g = f /\ k = Len(waiting[f]) + 1 /\ waiting'[g][k] = pcb
               \/ k \in 1 .. Len(waiting[g]) /\ waiting'[g][k] = waiting[g][k]
    <3>1. CASE g = f
      <4>1. waiting'[g] = Append(waiting[f], pcb) /\ k \in 1 .. Len(waiting[f]) + 1
        BY <2>2, <2>3, <3>1
      <4>2. waiting'[g][k] = IF k <= Len(waiting[f]) THEN waiting[f][k] ELSE pcb
        BY <2>3, <4>1
      <4> QED BY <2>3, <3>1, <4>1, <4>2
    <3>2. CASE g # f
      BY <2>2, <2>4, <3>2
    <3> QED BY <3>1, <3>2
  <2> QED BY <2>4
<1>4. WaitersOnce'
  <2>1. \A g \in Files : \A k \in 1 .. Len(waiting[g]) :
          waiting[g][k] # pcb /\ waiting[g][k] \in Procs
    BY <1>0, <1>1, NotAwaited, Elements
  <2>2. \A g \in Files : \A k \in 1 .. Len(waiting'[g]) : state'[waiting'[g][k]] = "BLOCK"
    BY <1>0, <1>1, <1>2, <1>3, <2>1 DEF WaitersOnce
  <2>3. ASSUME NEW g \in Files, NEW k \in 1 .. Len(waiting'[g]),
               NEW e \in Files, NEW l \in 1 .. Len(waiting'[e]),
               waiting'[g][k] = waiting'[e][l]
        PROVE  g = e /\ k = l
    <3> DEFINE Latest(x, n) == x = f /\ n = Len(waiting[f]) + 1 /\ waiting'[x][n] = pcb
               Old(x, n) == n \in 1 .. Len(waiting[x]) /\ waiting'[x][n] = waiting[x][n]
    <3>1. (Latest(g, k) \/ Old(g, k)) /\ (Latest(e, l) \/ Old(e, l))
      BY <1>3
    <3>2. CASE Old(g, k) /\ Old(e, l)
      <4>1. waiting[g][k] = waiting[e][l] /\ k \in 1 .. Len(waiting[g]) /\ l \in 1 .. Len(waiting[e])
        BY <2>3, <3>2
      <4> HIDE DEF Latest, Old
      <4> QED BY <1>0, <4>1 DEF WaitersOnce
    <3>3. CASE Latest(g, k) /\ Latest(e, l)
      BY <3>3
    <3>4. CASE (Latest(g, k) /\ Old(e, l)) \/ (Old(g, k) /\ Latest(e, l))
      BY <2>1, <2>3, <3>4
    <3> QED BY <3>1, <3>2, <3>3, <3>4
  <2> QED BY <2>2, <2>3 DEF WaitersOnce
<1>5. RequestsOnce'
  BY <1>0, <1>1, <1>2, NotAwaited, Elements DEF RequestsOnce, InTransit
<1>6. Apart'
  BY <1>0, <1>1, <1>3, NotAwaited DEF Apart
<1> QED BY <1>4, <1>5, <1>6 DEF AwaitedOnce

LEMMA AwaitedFClose ==
  ASSUME IInv, NEW f \in Files, FClose(f), waiting[f] # <<>>
  PROVE  AwaitedOnce'
<1>0. TypeOK /\ Running /\ WaitersOnce /\ RequestsOnce /\ Apart
  BY DEF IInv, AwaitedOnce
<1> DEFINE h == Head(waiting[f])
<1>1. /\ main = "serve" /\ main' = "push" /\ pcb' = pcb
      /\ handler' = handler /\ file_instructions' = file_instructions
  BY DEF FClose, Serve, Goto
<1>2. waiting[f] \in Seq(Procs)
  BY <1>0 DEF TypeOK
<1>3. h \in Procs /\ h = waiting[f][1] /\ 1 \in 1 .. Len(waiting[f])
  BY <1>2, AppendHeadTail
<1>4. \A p \in Procs : state'[p] = IF p = h THEN "READY" ELSE state[p]
  BY <1>0, <1>3 DEF FClose, Become, TypeOK
<1>5. \A g \in Files : \A k \in 1 .. Len(waiting'[g]) :
        IF g = f
          THEN k + 1 \in 1 .. Len(waiting[f]) /\ waiting'[g][k] = waiting[f][k + 1]
          ELSE k \in 1 .. Len(waiting[g]) /\ waiting'[g][k] = waiting[g][k]
  <2>1. \A g \in Files : waiting'[g] = IF g = f THEN Tail(waiting[f]) ELSE waiting[g]
    BY <1>0 DEF FClose, HeadLeaves, TypeOK
  <2>2. /\ Len(waiting[f]) \in Nat
        /\ Len(Tail(waiting[f])) = Len(waiting[f]) - 1
        /\ \A k \in 1 .. Len(waiting[f]) - 1 : Tail(waiting[f])[k] = waiting[f][k + 1]
    BY <1>2, AppendHeadTail
  <2>3. ASSUME NEW k \in 1 .. Len(waiting'[f])
        PROVE  k + 1 \in 1 .. Len(waiting[f]) /\ waiting'[f][k] = waiting[f][k + 1]
    <3>1. waiting'[f] = Tail(waiting[f]) /\ k \in 1 .. Len(waiting[f]) - 1
      BY <2>1, <2>2
    <3> QED BY <2>2, <3>1
  <2> QED BY <2>1, <2>3
<1> HIDE DEF h
<1>6. \A g \in Files : \A k \in 1 .. Len(waiting'[g]) :
        waiting'[g][k] \in Procs /\ waiting'[g][k] # h
  <2>2. \A g \in Files : \A k \in 1 .. Len(waiting[g]) : waiting[g][k] \in Procs
    BY <1>0, Elements
  <2>3. \A g \in Files : \A k \in 1 .. Len(waiting[g]) :
          waiting[g][k] = h => g = f /\ k = 1
    BY <1>0, <1>3 DEF WaitersOnce
  <2>4. ASSUME NEW g \in Files, NEW k \in 1 .. Len(waiting'[g])
        PROVE  waiting'[g][k] \in Procs /\ waiting'[g][k] # h
    <3>1. CASE g = f
      <4>1. k + 1 \in 1 .. Len(waiting[f]) /\ waiting'[g][k] = waiting[f][k + 1]
        BY <1>5, <3>1
      <4>2. k \in Int /\ 1 <= k
        OBVIOUS
      <4>3. k + 1 # 1
        BY <4>2
      <4> QED BY <2>2, <2>3, <4>1, <4>3
    <3>2. CASE g # f
      <4>1. k \in 1 .. Len(waiting[g]) /\ waiting'[g][k] = waiting[g][k]
        BY <1>5, <3>2
      <4> QED BY <2>2, <2>3, <3>2, <4>1
    <3> QED BY <3>1, <3>2
  <2> QED BY <2>4
<1>7. \A g \in Files : \A k \in 1 .. Len(waiting'[g]) : \E n \in 1 .. Len(waiting[g]) :
         waiting'[g][k] = waiting[g][n] /\ n = IF g = f THEN k + 1 ELSE k
  <2>1. ASSUME NEW g \in Files, NEW k \in 1 .. Len(waiting'[g])
        PROVE  \E n \in 1 .. Len(waiting[g]) :
                 waiting'[g][k] = waiting[g][n] /\ n = IF g = f THEN k + 1 ELSE k
    <3>1. CASE g = f
      <4>1. k + 1 \in 1 .. Len(waiting[g]) /\ waiting'[g][k] = waiting[g][k + 1]
        BY <1>5, <3>1
      <4> QED BY <3>1, <4>1
    <3>2. CASE g # f
      <4>1. k \in 1 .. Len(waiting[g]) /\ waiting'[g][k] = waiting[g][k]
        BY <1>5, <3>2
      <4> QED BY <3>2, <4>1
    <3> QED BY <3>1, <3>2
  <2> QED BY <2>1
<1>8. WaitersOnce'
  <2>1. ASSUME NEW g \in Files, NEW k \in 1 .. Len(waiting'[g])
        PROVE  state'[waiting'[g][k]] = "BLOCK"
    <3>1. waiting'[g][k] \in Procs /\ waiting'[g][k] # h
      BY <1>6
    <3>2. PICK n \in 1 .. Len(waiting[g]) : waiting'[g][k] = waiting[g][n]
      BY <1>7
    <3> QED BY <1>0, <1>4, <3>1, <3>2 DEF WaitersOnce
  <2>2. ASSUME NEW g \in Files, NEW k \in 1 .. Len(waiting'[g]),
               NEW e \in Files, NEW l \in 1 .. Len(waiting'[e]),
               waiting'[g][k] = waiting'[e][l]
        PROVE  g = e /\ k = l
    <3>1. PICK n \in 1 .. Len(waiting[g]) :
            waiting'[g][k] = waiting[g][n] /\ n = IF g = f THEN k + 1 ELSE k
      BY <1>7
    <3>2. PICK m \in 1 .. Len(waiting[e]) :
            waiting'[e][l] = waiting[e][m] /\ m = IF e = f THEN l + 1 ELSE l
      BY <1>7
    <3>3. waiting[g][n] = waiting[e][m]
      BY <2>2, <3>1, <3>2
    <3>4. g = e /\ n = m
      BY <1>0, <3>3 DEF WaitersOnce
    <3> QED BY <3>1, <3>2, <3>4
  <2> QED BY <2>1, <2>2 DEF WaitersOnce
<1>9. RequestsOnce'
  <2>1. /\ \A i \in 1 .. Len(file_instructions) : file_instructions[i].pcb # h
        /\ handler # NULL => handler.pcb # h
    BY <1>0, <1>3 DEF Apart
  <2> QED BY <1>0, <1>1, <1>4, <2>1, Elements DEF RequestsOnce, InTransit
<1>10. Apart'
  <2>1. ASSUME NEW g \in Files, NEW k \in 1 .. Len(waiting'[g])
        PROVE  /\ \A i \in 1 .. Len(file_instructions) :
                    file_instructions[i].pcb # waiting'[g][k]
               /\ handler # NULL => handler.pcb # waiting'[g][k]
    <3>1. PICK n \in 1 .. Len(waiting[g]) : waiting'[g][k] = waiting[g][n]
      BY <1>7
    <3> QED BY <1>0, <3>1 DEF Apart
  <2> QED BY <1>1, <2>1 DEF Apart
<1> QED BY <1>8, <1>9, <1>10 DEF AwaitedOnce

LEMMA AwaitedFReadWrite ==
  ASSUME IInv, NEW f \in Files, FReadWrite(f)
  PROVE  AwaitedOnce'
<1>0. TypeOK /\ Running /\ WaitersOnce /\ RequestsOnce /\ Apart
  BY DEF IInv, AwaitedOnce
<1> DEFINE fi == [pcb |-> pcb, file |-> f, position |-> local_files[pcb][f]]
<1>1. /\ pcb \in Procs /\ state[pcb] = "EXEC" /\ main = "serve" /\ main' = "block"
      /\ pcb' = pcb /\ handler' = handler /\ UNCHANGED <<state, waiting>>
  BY <1>0 DEF FReadWrite, Serve, Goto, TypeOK, Running
<1>2. fi \in FileInstructions
  BY <1>0, <1>1 DEF FReadWrite, Has, TypeOK, FileInstructions
<1>3. fi.pcb = pcb
  OBVIOUS
<1>4. \A i \in 1 .. Len(file_instructions') :
        \/ i = Len(file_instructions) + 1 /\ file_instructions'[i].pcb = pcb
        \/ /\ i \in 1 .. Len(file_instructions)
           /\ file_instructions'[i] = file_instructions[i]
  <2>1. file_instructions \in Seq(FileInstructions)
    BY <1>0 DEF TypeOK
  <2>2. file_instructions' = Append(file_instructions, fi)
    BY DEF FReadWrite
  <2> HIDE DEF fi
  <2> QED BY <1>2, <1>3, <2>1, <2>2, AppendHeadTail
<1>5. WaitersOnce'
  BY <1>0, <1>1 DEF WaitersOnce
<1>6. RequestsOnce'
  BY <1>0, <1>1, <1>4, NotAwaited, Elements DEF RequestsOnce, InTransit
<1>7. Apart'
  <2>1. \A f2 \in Files : \A k \in 1 .. Len(waiting[f2]) : waiting[f2][k] # pcb
    BY <1>1, NotAwaited
  <2>2. ASSUME NEW f2 \in Files, NEW k \in 1 .. Len(waiting[f2])
        PROVE  /\ \A i \in 1 .. Len(file_instructions') :
                    file_instructions'[i].pcb # waiting[f2][k]
               /\ handler # NULL => handler.pcb # waiting[f2][k]
    <3>1. /\ \A i \in 1 .. Len(file_instructions) : file_instructions[i].pcb # waiting[f2][k]
          /\ handler # NULL => handler.pcb # waiting[f2][k]
      BY <1>0 DEF Apart
    <3> QED BY <1>4, <2>1, <3>1
  <2> QED BY <1>1, <2>2 DEF Apart
<1> QED BY <1>5, <1>6, <1>7 DEF AwaitedOnce

LEMMA AwaitedHandleTake ==
  ASSUME IInv, HandleTake
  PROVE  AwaitedOnce'
<1>0. TypeOK /\ Running /\ WaitersOnce /\ RequestsOnce /\ Apart
  BY DEF IInv, AwaitedOnce
<1>1. UNCHANGED <<state, main, pcb, waiting>>
  BY DEF HandleTake
<1>2. file_instructions \in Seq(FileInstructions) /\ file_instructions # <<>>
  BY <1>0 DEF HandleTake, TypeOK
<1>3. /\ Head(file_instructions) = file_instructions[1]
      /\ 1 \in 1 .. Len(file_instructions)
      /\ \A i \in 1 .. Len(file_instructions') :
           /\ i + 1 \in 1 .. Len(file_instructions)
           /\ file_instructions'[i] = file_instructions[i + 1]
  BY <1>2, AppendHeadTail DEF HandleTake, Popped
<1>4. handler' = NULL \/ handler' = file_instructions[1]
  BY <1>3 DEF HandleTake
<1>5. WaitersOnce'
  BY <1>0, <1>1 DEF WaitersOnce
<1>6. RequestsOnce'
  <2>1. ASSUME NEW i \in 1 .. Len(file_instructions')
        PROVE  /\ file_instructions'[i].pcb = file_instructions[i + 1].pcb
               /\ i + 1 \in 1 .. Len(file_instructions) /\ i + 1 # 1 /\ i \in Int
    BY <1>3
  <2>2. \A k \in 1 .. Len(file_instructions) :
          \/ state'[file_instructions[k].pcb] = "BLOCK"
          \/ /\ file_instructions[k].pcb = pcb' /\ main' = "block"
             /\ state'[file_instructions[k].pcb] = "EXEC"
    BY <1>0, <1>1 DEF RequestsOnce, InTransit
  <2>3. \A k, l \in 1 .. Len(file_instructions) :
          file_instructions[k].pcb = file_instructions[l].pcb => k = l
    BY <1>0 DEF RequestsOnce
  <2>4. ASSUME NEW i \in 1 .. Len(file_instructions'), NEW j \in 1 .. Len(file_instructions'),
               file_instructions'[i].pcb = file_instructions'[j].pcb
        PROVE  i = j
    <3>1. i + 1 = j + 1
      BY <2>1, <2>3, <2>4
    <3> QED BY <2>1, <3>1
  <2>5. ASSUME NEW i \in 1 .. Len(file_instructions'), handler' # NULL
        PROVE  handler'.pcb # file_instructions'[i].pcb
    BY <1>3, <1>4, <2>1, <2>3, <2>5
  <2> QED BY <1>3, <1>4, <2>1, <2>2, <2>4, <2>5 DEF RequestsOnce, InTransit
<1>7. Apart'
  BY <1>0, <1>1, <1>3, <1>4 DEF Apart
<1> QED BY <1>5, <1>6, <1>7 DEF AwaitedOnce

LEMMA AwaitedHandleAnswer ==
  ASSUME IInv, HandleAnswer
  PROVE  AwaitedOnce'
<1>0. TypeOK /\ Running /\ WaitersOnce /\ RequestsOnce /\ Apart
  BY DEF IInv, AwaitedOnce
<1>1. /\ UNCHANGED <<main, pcb, waiting, file_instructions>>
      /\ handler # NULL /\ handler' = NULL
  BY DEF HandleAnswer
<1>2. \A p \in Procs : p # handler.pcb => state'[p] = state[p]
  BY <1>0 DEF HandleAnswer, Become, TypeOK
<1>3. WaitersOnce'
  BY <1>0, <1>1, <1>2, Elements DEF WaitersOnce, Apart
<1>4. RequestsOnce'
  BY <1>0, <1>1, <1>2, Elements DEF RequestsOnce, InTransit
<1>5. Apart'
  BY <1>0, <1>1 DEF Apart
<1> QED BY <1>3, <1>4, <1>5 DEF AwaitedOnce

(* Opening a file leaves the queues alone: nobody waited for it.           *)
LEMMA OpenedWaiting ==
  ASSUME IInv, main \in {"open", "create"}, Opened
  PROVE  waiting' = waiting
<1>1. file \in Files /\ waiting[file] = <<>>
  BY DEF IInv, TypeOK, NotOpenYet, ClosedIsFree
<1> QED BY <1>1 DEF Opened, IInv, TypeOK

LEMMA AwaitedServing ==
  ASSUME IInv, Serving
  PROVE  AwaitedOnce'
<1>1. CASE Other \/ Push \/ CompactRequest \/ Drained \/ FTruncateAnswer
  <2>1. /\ UNCHANGED <<waiting, file_instructions, handler, state>>
        /\ main # "block" /\ main' # "block"
    BY <1>1 DEF Other, Push, CompactRequest, Drained, FTruncateAnswer, Serve, Goto
  <2> QED BY <2>1, AwaitedMain
<1>2. CASE Exit
  <2>1. /\ state[pcb] = "EXEC" /\ main = "serve" /\ main' = "push"
        /\ state' = [state EXCEPT ![pcb] = "EXIT_PROCESS"]
        /\ UNCHANGED <<waiting, file_instructions, handler>>
    BY <1>2 DEF IInv, Running, Exit, Serve, Goto, Become
  <2> QED BY <2>1, AwaitedMain
<1>3. CASE Block
  <2>1. /\ main = "block" /\ main' = "push"
        /\ state' = [state EXCEPT ![pcb] = "BLOCK"]
        /\ UNCHANGED <<waiting, file_instructions, handler>>
    BY <1>3 DEF Block, Goto, Become
  <2> QED BY <2>1, AwaitedMain
<1>4. CASE Settle
  <2>1. /\ main = "settle" /\ main' = "pick"
        /\ UNCHANGED <<waiting, file_instructions, handler>>
        /\ \/ UNCHANGED state
           \/ \E s : state' = [state EXCEPT ![pcb] = s] /\ state[pcb] # "BLOCK"
    BY <1>4 DEF Settle, Goto, Become
  <2> QED BY <2>1, AwaitedMain
<1>5. ASSUME NEW f \in Files,
             FOpenAsk(f) \/ FileNotOpen(f) \/ FSeek(f) \/ FTruncateAsk(f) \/ NotMine(f)
      PROVE  AwaitedOnce'
  <2>1. /\ UNCHANGED <<waiting, file_instructions, handler, state>>
        /\ main # "block" /\ main' # "block"
    BY <1>5 DEF FOpenAsk, Ask, FileNotOpen, FSeek, FTruncateAsk, NotMine, Serve, Goto
  <2> QED BY <2>1, AwaitedMain
<1>6. ASSUME NEW f \in Files, FClose(f) PROVE AwaitedOnce'
  <2>1. CASE waiting[f] = <<>>
    <3>1. /\ UNCHANGED <<waiting, file_instructions, handler, state>>
          /\ main # "block" /\ main' # "block"
      BY <1>6, <2>1 DEF FClose, Serve, Goto
    <3> QED BY <3>1, AwaitedMain
  <2> QED BY <1>6, <2>1, AwaitedFClose
<1>7. CASE FOpenAnswer \/ FCreateAnswer
  <2>1. /\ UNCHANGED <<file_instructions, handler, state>>
        /\ main \in {"open", "create"} /\ main' # "block"
    BY <1>7 DEF FOpenAnswer, FCreateAnswer, Ask, Goto
  <2>2. waiting' = waiting
    BY <1>7, <2>1, OpenedWaiting DEF FOpenAnswer, FCreateAnswer
  <2> QED BY <2>1, <2>2, AwaitedMain
<1> QED BY <1>1, <1>2, <1>3, <1>4, <1>5, <1>6, <1>7, AwaitedFOpenWait, AwaitedFReadWrite
        DEF Serving, File, Awaited

LEMMA AwaitedNext ==
  ASSUME IInv, [Next]_vars
  PROVE  AwaitedOnce'
<1>1. ASSUME NEW p \in Procs, Arrive(p) \/ Pick(p) PROVE AwaitedOnce'
  <2>1. /\ UNCHANGED <<waiting, file_instructions, handler>>
        /\ \A q \in Procs : state[q] \in {"BLOCK", "EXEC"} => state'[q] = state[q]
        /\ main = "block" => UNCHANGED <<main, pcb>>
    BY <1>1 DEF Arrive, Pick, Become, IInv, TypeOK
  <2>2. \A q \in Procs : InTransit(q) => InTransit(q)'
    BY <2>1 DEF InTransit
  <2> QED BY <2>1, <2>2, AwaitedFrame DEF IInv
<1>2. CASE FsServe \/ FsLost \/ UNCHANGED vars
  <2>1. UNCHANGED <<waiting, file_instructions, handler, state, main, pcb>>
    BY <1>2 DEF FsServe, FsLost, vars
  <2> QED BY <2>1, AwaitedFrame DEF IInv, InTransit
<1> QED BY <1>1, <1>2, AwaitedServing, AwaitedHandleTake, AwaitedHandleAnswer
        DEF Next, HandleFs

(* The conjuncts about the place of the main loop.                         *)
LEMMA PlacesNext ==
  ASSUME IInv, [Next]_vars
  PROVE  Running' /\ HandedPcb' /\ NotOpenYet' /\ ClosedIsFree'
<1> DEFINE P == Running /\ HandedPcb /\ NotOpenYet /\ ClosedIsFree
<1> USE DEF IInv, Running, HandedPcb, NotOpenYet, ClosedIsFree
<1>1. ASSUME NEW p \in Procs, Arrive(p) \/ Pick(p) PROVE P'
  BY <1>1 DEF Arrive, Pick, Goto, Become, TypeOK
<1>2. CASE Other \/ Exit \/ Push \/ Block \/ CompactRequest \/ Drained \/ FTruncateAnswer
  BY <1>2 DEF Other, Exit, Push, Block, CompactRequest, Drained, FTruncateAnswer,
              Serve, Goto, Become, TypeOK
<1>3. CASE Settle
  BY <1>3 DEF Settle, Goto, Become
<1>4. ASSUME NEW f \in Files, FOpenWait(f) PROVE P'
  <2>1. /\ main' = "push" /\ pcb' = pcb /\ pcb \in Procs /\ open' = open /\ f \in open
        /\ state'[pcb] = "BLOCK"
    BY <1>4 DEF FOpenWait, WaitBlocked, Serve, Goto, Become, TypeOK
  <2>2. \A g \in Files : g # f => waiting'[g] = waiting[g]
    BY <1>4 DEF FOpenWait, TypeOK
  <2> QED BY <2>1, <2>2
<1>5. ASSUME NEW f \in Files,
             FOpenAsk(f) \/ FileNotOpen(f) \/ FSeek(f) \/ FTruncateAsk(f) \/ NotMine(f)
                \/ FReadWrite(f)
      PROVE  P'
  BY <1>5 DEF FOpenAsk, Ask, FileNotOpen, FSeek, FTruncateAsk, NotMine, FReadWrite,
              Serve, Goto
<1>6. ASSUME NEW f \in Files, FClose(f) PROVE P'
  <2>1. main' = "push" /\ pcb' = pcb /\ pcb \in Procs /\ state[pcb] = "EXEC" /\ main = "serve"
    BY <1>6 DEF FClose, Serve, Goto, TypeOK
  <2>2. CASE waiting[f] = <<>>
    BY <1>6, <2>1, <2>2 DEF FClose
  <2>3. CASE waiting[f] # <<>>
    <3>1. Head(waiting[f]) \in Procs
      BY <2>3, WaitingQueues
    <3>2. state'[pcb] \in {"EXEC", "READY"} /\ open' = open /\ f \in open
      BY <1>6, <2>1, <2>3, <3>1 DEF FClose, Become, TypeOK
    <3>3. \A g \in Files : g # f => waiting'[g] = waiting[g]
      BY <1>6, <2>3 DEF FClose, TypeOK
    <3> QED BY <2>1, <3>2, <3>3
  <2> QED BY <2>2, <2>3
<1>7. CASE FOpenAnswer \/ FCreateAnswer
  <2>1. /\ main \in {"open", "create"} /\ UNCHANGED <<state, pcb>>
        /\ main' = "push" \/ (main' = "create" /\ file' = file /\ UNCHANGED open)
    BY <1>7 DEF FOpenAnswer, FCreateAnswer, Ask, Goto
  <2>2. waiting' = waiting /\ open \subseteq open'
    BY <1>7, <2>1, OpenedWaiting DEF FOpenAnswer, FCreateAnswer, Opened
  <2> QED BY <2>1, <2>2
<1>8. CASE HandleTake \/ FsServe \/ FsLost \/ UNCHANGED vars
  BY <1>8 DEF HandleTake, FsServe, FsLost, vars
<1>9. CASE HandleAnswer
  <2>1. handler.pcb \in Procs /\ InTransit(handler.pcb)
    BY <1>9, Elements DEF HandleAnswer, AwaitedOnce, RequestsOnce
  <2>2. /\ UNCHANGED <<main, pcb, file, open, waiting>>
        /\ \A p \in Procs : state'[p] = state[p] \/ (p = handler.pcb /\ state'[p] = "READY")
    BY <1>9, <2>1 DEF HandleAnswer, Become, TypeOK
  <2>3. main \in {"serve", "open", "create", "truncate", "drain"} =>
          pcb \in Procs /\ pcb # handler.pcb
    BY <1>9, NotAwaited DEF HandleAnswer, TypeOK
  <2> QED BY <2>2, <2>3 DEF TypeOK
<1> QED BY <1>1, <1>2, <1>3, <1>4, <1>5, <1>6, <1>7, <1>8, <1>9
        DEF Next, Serving, File, Awaited, HandleFs

(* The numbers of requests, answers and threads that wait.                 *)
LEMMA Numbers ==
  ASSUME TypeOK
  PROVE  /\ Len(asked) \in Nat /\ Len(answered) \in Nat
         /\ Awaiting(TRUE) = 1 /\ Awaiting(FALSE) = 0
  BY AppendHeadTail DEF TypeOK, Awaiting

LEMMA AnswersMain ==
  ASSUME IInv, Serving
  PROVE  AnswersAreEnough'
<1> USE DEF IInv
<1> DEFINE W == {"open", "create", "truncate"}
<1>1. ASSUME UNCHANGED <<asked, answered, fs, handler>>, main \notin W, main' \notin W
      PROVE  AnswersAreEnough'
  BY <1>1 DEF AnswersAreEnough, Awaiting
<1>2. CASE Other \/ Exit \/ Push \/ Block \/ CompactRequest \/ Drained \/ Settle
  BY <1>1, <1>2 DEF Other, Exit, Push, Block, CompactRequest, Drained, Settle, Serve, Goto
<1>3. ASSUME NEW f \in Files,
             FOpenWait(f) \/ FileNotOpen(f) \/ FClose(f) \/ FSeek(f) \/ NotMine(f) \/ FReadWrite(f)
      PROVE  AnswersAreEnough'
  BY <1>1, <1>3 DEF FOpenWait, FileNotOpen, FClose, FSeek, NotMine, FReadWrite, Serve, Goto
<1>4. ASSUME NEW f \in Files, FOpenAsk(f) \/ FTruncateAsk(f)
      PROVE  AnswersAreEnough'
  <2>1. /\ main = "serve" /\ UNCHANGED <<answered, fs, handler>>
        /\ \/ (Send("open", f) \/ Send("truncate", f)) /\ main' \in W
           \/ fs = "lost"
    BY <1>4 DEF FOpenAsk, FTruncateAsk, Ask, SendFails, Serve, Goto
  <2>2. fs = "up" => Len(asked') = Len(asked) + 1 /\ main' \in W
    BY <2>1, SendType
  <2>3. fs = "up" => Len(asked) + Len(answered) = 0 + Awaiting(handler # NULL)
    BY <2>1 DEF AnswersAreEnough, Awaiting
  <2>4. Awaiting(handler # NULL) \in Nat
    BY DEF Awaiting
  <2> QED BY <2>1, <2>2, <2>3, <2>4, Numbers DEF AnswersAreEnough, Awaiting
<1>5. CASE FOpenAnswer \/ FCreateAnswer \/ FTruncateAnswer
  <2>1. /\ main \in W /\ UNCHANGED <<fs, handler>>
        /\ \E answer : Receive(answer)
        /\ \/ UNCHANGED asked /\ main' = "push"
           \/ Ask("create", file, "create") /\ file \in Files
    BY <1>5 DEF FOpenAnswer, FCreateAnswer, FTruncateAnswer, Goto, TypeOK
  <2>2. fs = "up" => Len(answered') = Len(answered) - 1
    BY <2>1, ReceiveType DEF TypeOK
  <2>3. fs = "up" => \/ Len(asked') = Len(asked) /\ main' \notin W
                     \/ Len(asked') = Len(asked) + 1 /\ main' \in W
    BY <2>1, SendType DEF Ask, SendFails, Goto
  <2>4. fs = "up" => Len(asked) + Len(answered) = 1 + Awaiting(handler # NULL)
    BY <2>1 DEF AnswersAreEnough, Awaiting
  <2>5. Awaiting(handler # NULL) \in Nat
    BY DEF Awaiting
  <2> QED BY <2>1, <2>2, <2>3, <2>4, <2>5, Numbers DEF AnswersAreEnough, Awaiting
<1> QED BY <1>2, <1>3, <1>4, <1>5 DEF Serving, File, Awaited

LEMMA AnswersNext ==
  ASSUME IInv, [Next]_vars
  PROVE  AnswersAreEnough'
<1> USE DEF IInv
<1>1. ASSUME NEW p \in Procs, Arrive(p) \/ Pick(p) PROVE AnswersAreEnough'
  BY <1>1 DEF Arrive, Pick, Goto, AnswersAreEnough, Awaiting
<1>2. CASE HandleTake
  <2> DEFINE fi == Head(file_instructions)
  <2>1. fi \in FileInstructions /\ fi # NULL /\ fi.file \in Files
    <3>1. fi \in FileInstructions
      BY <1>2, AppendHeadTail DEF HandleTake, TypeOK
    <3>2. NULL \notin FileInstructions
      BY NullAssumption
    <3>3. \A r \in FileInstructions : r.file \in Files
      BY DEF FileInstructions
    <3> QED BY <3>1, <3>2, <3>3
  <2>2. UNCHANGED <<main, answered, fs>> /\ handler = NULL
    BY <1>2 DEF HandleTake
  <2>3. \/ UNCHANGED <<handler, asked>>
        \/ Send("transfer", fi.file) /\ handler' = fi
        \/ fs = "lost"
    BY <1>2 DEF HandleTake, SendFails
  <2>4. CASE UNCHANGED <<handler, asked>> \/ fs = "lost"
    BY <2>2, <2>4 DEF AnswersAreEnough
  <2>5. CASE Send("transfer", fi.file) /\ handler' = fi /\ fs = "up"
    <3>1. Len(asked') = Len(asked) + 1
      BY <2>1, <2>5, SendType
    <3> HIDE DEF fi
    <3> QED BY <2>1, <2>2, <2>5, <3>1, Numbers DEF AnswersAreEnough, Awaiting
  <2>6. fs = "up" \/ fs = "lost"
    BY DEF TypeOK
  <2> HIDE DEF fi
  <2> QED BY <2>3, <2>4, <2>5, <2>6
<1>3. CASE HandleAnswer
  <2>1. /\ UNCHANGED <<main, asked, fs>> /\ handler # NULL /\ handler' = NULL
        /\ fs = "up" => Len(answered') = Len(answered) - 1
    BY <1>3, ReceiveType DEF HandleAnswer, TypeOK
  <2>2. Awaiting(main \in {"open", "create", "truncate"}) \in Nat
    BY DEF Awaiting
  <2> QED BY <2>1, <2>2, Numbers DEF AnswersAreEnough, Awaiting
<1>4. CASE FsServe
  <2>1. Head(asked) \in Requests /\ Len(asked') = Len(asked) - 1
    BY <1>4, AppendHeadTail DEF FsServe, TypeOK
  <2>2. FsAnswers(Head(asked)) \subseteq Answers
    BY <2>1 DEF FsAnswers, Requests, Answers
  <2>3. Len(answered') = Len(answered) + 1
    BY <1>4, <2>2, AppendHeadTail DEF FsServe, Replied, TypeOK
  <2>4. UNCHANGED <<main, handler, fs>>
    BY <1>4 DEF FsServe
  <2> QED BY <2>1, <2>3, <2>4, Numbers DEF AnswersAreEnough
<1>5. CASE FsLost
  BY <1>5 DEF FsLost, AnswersAreEnough
<1>6. CASE UNCHANGED vars
  BY <1>6 DEF vars, AnswersAreEnough
<1> QED BY <1>1, <1>2, <1>3, <1>4, <1>5, <1>6, AnswersMain DEF Next, HandleFs

-----------------------------------------------------------------------------
(* One owner, when processes close only the files they have.               *)

(* ... as long as nobody gets a file and no owner ends.                    *)
LEMMA OwnerFrame ==
  ASSUME OneOwner, ClosedIsFree', UNCHANGED open,
         \A p \in Procs, f \in Files : Has(p, f)' => Has(p, f) /\ state'[p] \notin {"none", "freed"}
  PROVE  OneOwner'
<1>1. ASSUME NEW f \in Files, f \notin open'
      PROVE  waiting'[f] = <<>> /\ \A p \in Procs : ~Has(p, f)'
  BY <1>1 DEF OneOwner, ClosedIsFree
<1>2. \A p, q \in Procs : \A f \in Files : Has(p, f)' /\ Has(q, f)' => p = q
  BY DEF OneOwner
<1> QED BY <1>1, <1>2 DEF OneOwner

LEMMA OwnerOpened ==
  ASSUME IInv, OneOwner, ClosedIsFree', main \in {"open", "create"}, Opened, UNCHANGED state
  PROVE  OneOwner'
<1> USE DEF IInv
<1>1. file \in Files /\ file \notin open /\ pcb \in Procs /\ state[pcb] \notin {"none", "freed"}
  BY DEF TypeOK, NotOpenYet, HandedPcb
<1>2. \A p \in Procs, g \in Files :
        local_files'[p][g] = IF p = pcb /\ g = file THEN "unset" ELSE local_files[p][g]
  BY <1>1, TableEntry DEF Opened, TypeOK, Positions
<1>3. \A p \in Procs, g \in Files : Has(p, g)' <=> Has(p, g) \/ (p = pcb /\ g = file)
  BY <1>2 DEF Has
<1>4. \A p \in Procs : ~Has(p, file)
  BY <1>1 DEF OneOwner
<1>5. open' = open \cup {file}
  BY DEF Opened
<1>6. \A g \in Files : g \notin open' => waiting'[g] = <<>> /\ \A p \in Procs : ~Has(p, g)'
  BY <1>3, <1>5 DEF OneOwner, ClosedIsFree
<1>7. \A p, q \in Procs : \A g \in Files : Has(p, g)' /\ Has(q, g)' => p = q
  BY <1>3, <1>4 DEF OneOwner
<1>8. \A p \in Procs : \A g \in Files : Has(p, g)' => state'[p] \notin {"none", "freed"}
  BY <1>1, <1>3 DEF OneOwner
<1> QED BY <1>6, <1>7, <1>8 DEF OneOwner

(* F_CLOSE by the owner: who has what after it.                            *)
LEMMA TablesFClose ==
  ASSUME IInv, OneOwner, NEW f \in Files, FClose(f), Has(pcb, f)
  PROVE  /\ pcb \in Procs /\ state[pcb] = "EXEC"
         /\ waiting[f] = <<>> => \A p \in Procs, g \in Files :
              Has(p, g)' <=> Has(p, g) /\ g # f
         /\ waiting[f] # <<>> =>
              /\ Head(waiting[f]) \in Procs /\ Head(waiting[f]) # pcb
              /\ \A p \in Procs, g \in Files :
                   Has(p, g)' <=> IF g = f THEN p = Head(waiting[f]) ELSE Has(p, g)
<1> USE DEF IInv
<1>1. pcb \in Procs /\ state[pcb] = "EXEC" /\ main = "serve"
  BY DEF FClose, Serve, TypeOK, Running
<1>2. local_files \in [Procs -> [Files -> Positions]]
  BY DEF TypeOK, Positions
<1>3. \A p \in Procs : Has(p, f) <=> p = pcb
  BY <1>1 DEF OneOwner
<1>4. ASSUME waiting[f] = <<>>, NEW p \in Procs, NEW g \in Files
      PROVE  Has(p, g)' <=> Has(p, g) /\ g # f
  <2>1. local_files' = [local_files EXCEPT ![pcb][f] = "closed"]
    BY <1>4 DEF FClose
  <2>2. local_files'[p][g] = IF p = pcb /\ g = f THEN "closed" ELSE local_files[p][g]
    BY <1>1, <1>2, <2>1, TableEntry DEF Positions
  <2> QED BY <1>3, <2>2 DEF Has
<1>5. ASSUME waiting[f] # <<>>
      PROVE  Head(waiting[f]) \in Procs /\ Head(waiting[f]) # pcb
  <2>1. waiting[f] \in Seq(Procs)
    BY DEF TypeOK
  <2>2. Head(waiting[f]) = waiting[f][1] /\ 1 \in 1 .. Len(waiting[f])
    BY <1>5, <2>1, AppendHeadTail
  <2> QED BY <1>1, <1>5, <2>2, WaitingQueues, NotAwaited
<1>6. ASSUME waiting[f] # <<>>, NEW p \in Procs, NEW g \in Files
      PROVE  Has(p, g)' <=> IF g = f THEN p = Head(waiting[f]) ELSE Has(p, g)
  <2> DEFINE h == Head(waiting[f])
             T == [local_files EXCEPT ![h][f] = "unset"]
  <2>1. local_files' = [T EXCEPT ![pcb][f] = "closed"]
    BY <1>6 DEF FClose, HandedOver
  <2>2. h \in Procs /\ h # pcb
    BY <1>5, <1>6
  <2> HIDE DEF h
  <2>3. /\ T \in [Procs -> [Files -> Positions]]
        /\ T[p][g] = IF p = h /\ g = f THEN "unset" ELSE local_files[p][g]
    BY <1>2, <2>2, TableEntry DEF Positions
  <2> HIDE DEF T
  <2>4. local_files'[p][g] = IF p = pcb /\ g = f THEN "closed" ELSE T[p][g]
    BY <1>1, <2>1, <2>3, TableEntry DEF Positions
  <2>5. Has(p, g)' <=> IF g = f THEN p = h ELSE Has(p, g)
    BY <1>3, <2>2, <2>3, <2>4 DEF Has
  <2> QED BY <2>5 DEF h
<1> QED BY <1>1, <1>4, <1>5, <1>6

LEMMA OwnerFClose ==
  ASSUME IInv, OneOwner, ClosedIsFree', NEW f \in Files, FClose(f), Has(pcb, f)
  PROVE  OneOwner'
<1> USE DEF IInv
<1>1. CASE waiting[f] = <<>>
  <2>1. open' = open \ {f} /\ UNCHANGED state
    BY <1>1 DEF FClose
  <2>2. \A p \in Procs, g \in Files : Has(p, g)' <=> Has(p, g) /\ g # f
    BY <1>1, TablesFClose
  <2> QED BY <2>1, <2>2 DEF OneOwner, ClosedIsFree
<1>2. CASE waiting[f] # <<>>
  <2> DEFINE h == Head(waiting[f])
  <2>1. /\ h \in Procs
        /\ \A p \in Procs, g \in Files : Has(p, g)' <=> IF g = f THEN p = h ELSE Has(p, g)
    BY <1>2, TablesFClose
  <2> HIDE DEF h
  <2>2. f \in open /\ open' = open
    BY <1>2 DEF FClose
  <2>3. \A p \in Procs : state'[p] = IF p = h THEN "READY" ELSE state[p]
    BY <1>2, <2>1 DEF FClose, Become, TypeOK, h
  <2>4. \A g \in Files : g \notin open' => waiting'[g] = <<>> /\ \A p \in Procs : ~Has(p, g)'
    BY <2>1, <2>2 DEF OneOwner, ClosedIsFree
  <2>5. \A p, q \in Procs : \A g \in Files : Has(p, g)' /\ Has(q, g)' => p = q
    BY <2>1 DEF OneOwner
  <2>6. \A p \in Procs : \A g \in Files : Has(p, g)' => state'[p] \notin {"none", "freed"}
    <3>1. ASSUME NEW p \in Procs, NEW g \in Files, Has(p, g)'
          PROVE  state'[p] \notin {"none", "freed"}
      BY <2>1, <2>3, <3>1 DEF OneOwner
    <3> QED BY <3>1
  <2> QED BY <2>4, <2>5, <2>6 DEF OneOwner
<1> QED BY <1>1, <1>2

LEMMA OwnerNext ==
  ASSUME IInv, [Next]_vars, OwnersClose
  PROVE  OneOwner'
<1> USE DEF IInv
<1>0. ClosedIsFree' /\ OneOwner
  BY PlacesNext
<1>1. ASSUME UNCHANGED <<open, local_files>>,
             \A p \in Procs : state[p] \notin {"none", "freed"} => state'[p] \notin {"none", "freed"}
      PROVE  OneOwner'
  <2>1. \A p \in Procs, f \in Files : Has(p, f)' => Has(p, f)
    BY <1>1 DEF Has
  <2> QED BY <1>0, <1>1, <2>1, OwnerFrame DEF OneOwner
<1>2. ASSUME NEW p \in Procs, Arrive(p) \/ Pick(p) PROVE OneOwner'
  BY <1>1, <1>2 DEF Arrive, Pick, Become, TypeOK
<1>3. CASE Other \/ Exit \/ Push \/ Block \/ CompactRequest \/ Drained \/ FTruncateAnswer
  BY <1>1, <1>3 DEF Other, Exit, Push, Block, CompactRequest, Drained, FTruncateAnswer,
                    Become, TypeOK
<1>4. ASSUME NEW f \in Files,
             \/ FOpenWait(f) \/ FOpenAsk(f) \/ FileNotOpen(f) \/ FTruncateAsk(f)
             \/ NotMine(f) \/ FReadWrite(f)
      PROVE  OneOwner'
  BY <1>1, <1>4 DEF FOpenWait, WaitBlocked, FOpenAsk, FileNotOpen, FTruncateAsk, NotMine,
                    FReadWrite, Become, TypeOK
<1>5. ASSUME NEW f \in Files, FClose(f) PROVE OneOwner'
  BY <1>0, <1>5, OwnerFClose DEF FClose
<1>6. ASSUME NEW f \in Files, FSeek(f) PROVE OneOwner'
  <2>1. /\ pcb \in Procs /\ Has(pcb, f) /\ UNCHANGED <<open, state>>
        /\ local_files' = [local_files EXCEPT ![pcb][f] = "set"]
    BY <1>6 DEF FSeek, Serve, TypeOK
  <2>2. \A p \in Procs, g \in Files :
          local_files'[p][g] = IF p = pcb /\ g = f THEN "set" ELSE local_files[p][g]
    BY <2>1, TableEntry DEF TypeOK, Positions
  <2>3. \A p \in Procs, g \in Files : Has(p, g)' => Has(p, g)
    BY <2>1, <2>2 DEF Has
  <2> QED BY <1>0, <2>1, <2>3, OwnerFrame DEF OneOwner
<1>7. CASE FOpenAnswer \/ FCreateAnswer
  <2>1. main \in {"open", "create"} /\ UNCHANGED state /\ (Opened \/ UNCHANGED fileVars)
    BY <1>7 DEF FOpenAnswer, FCreateAnswer
  <2> QED BY <1>0, <1>1, <2>1, OwnerOpened
<1>8. CASE Settle
  <2>1. pcb \in Procs /\ UNCHANGED open
    BY <1>8 DEF Settle, TypeOK
  <2>2. \/ UNCHANGED local_files /\ (UNCHANGED state \/ state' = [state EXCEPT ![pcb] = "READY"])
        \/ /\ local_files' = [local_files EXCEPT ![pcb] = [f \in Files |-> "closed"]]
           /\ state' = [state EXCEPT ![pcb] = "freed"]
    BY <1>8 DEF Settle, Become
  <2>3. CASE UNCHANGED local_files /\ (UNCHANGED state \/ state' = [state EXCEPT ![pcb] = "READY"])
    BY <1>1, <2>1, <2>3 DEF TypeOK
  <2>4. CASE /\ local_files' = [local_files EXCEPT ![pcb] = [f \in Files |-> "closed"]]
             /\ state' = [state EXCEPT ![pcb] = "freed"]
    <3>1. \A p \in Procs, f \in Files :
            Has(p, f)' => Has(p, f) /\ p # pcb /\ state'[p] = state[p]
      BY <2>1, <2>4 DEF Has, TypeOK
    <3> QED BY <1>0, <2>1, <3>1, OwnerFrame DEF OneOwner
  <2> QED BY <2>2, <2>3, <2>4
<1>9. CASE HandleTake \/ FsServe \/ FsLost \/ UNCHANGED vars
  BY <1>1, <1>9 DEF HandleTake, FsServe, FsLost, vars
<1>10. CASE HandleAnswer
  BY <1>1, <1>10, Elements DEF HandleAnswer, Become, TypeOK
<1> QED BY <1>2, <1>3, <1>4, <1>5, <1>6, <1>7, <1>8, <1>9, <1>10
        DEF Next, Serving, File, Awaited, HandleFs

LEMMA FilesInvNext == IInv /\ [Next]_vars => IInv'
<1> SUFFICES ASSUME IInv, [Next]_vars PROVE IInv'
  OBVIOUS
<1>1. TypeOK'
  BY FilesTypeNext DEF IInv
<1>2. OwnersClose => OneOwner'
  BY OwnerNext
<1> QED BY <1>1, <1>2, PlacesNext, AwaitedNext, AnswersNext DEF IInv

(* The inductive invariant, in every reachable state.                      *)
THEOREM FilesInvariant == Spec => []IInv
  BY FilesInvInit, FilesInvNext, PTL DEF Spec

(* Whoever waits for a file or for a transfer is awaited exactly once.     *)
THEOREM FilesAwaitedOnce == Spec => []AwaitedOnce
<1>1. IInv => AwaitedOnce
  BY DEF IInv
<1> QED BY <1>1, FilesInvariant, PTL

(* No thread waits for an answer that nobody sends.                        *)
THEOREM FilesAnswersAreEnough == Spec => []AnswersAreEnough
<1>1. IInv => AnswersAreEnough
  BY DEF IInv
<1> QED BY <1>1, FilesInvariant, PTL

(* global_files and the tables of the processes agree on one owner.        *)
THEOREM FilesOneOwner ==
  ASSUME OwnersClose
  PROVE  Spec => []OneOwner
<1>1. IInv => OneOwner
  BY DEF IInv
<1> QED BY <1>1, FilesInvariant, PTL

-----------------------------------------------------------------------------
(* The refinement: to the processes a file is a lock with a fair queue.    *)

(* Who has a file, by what global_files and the tables say of it.          *)
LEMMA HolderOf ==
  ASSUME NEW opened, NEW tables, NEW f \in Files,
         \A p, q \in Procs : tables[p][f] # "closed" /\ tables[q][f] # "closed" => p = q
  PROVE  /\ f \notin opened => HolderIn(opened, tables, f) = NULL
         /\ f \in opened /\ (\A p \in Procs : tables[p][f] = "closed") =>
              HolderIn(opened, tables, f) = Gone
         /\ \A p \in Procs : f \in opened /\ tables[p][f] # "closed" =>
              HolderIn(opened, tables, f) = p
<1>1. ASSUME NEW p \in Procs, f \in opened, tables[p][f] # "closed"
      PROVE  HolderIn(opened, tables, f) = p
  <2>1. (CHOOSE q \in Procs : tables[q][f] # "closed") = p
    BY <1>1
  <2> QED BY <1>1, <2>1 DEF HolderIn
<1> QED BY <1>1 DEF HolderIn

LEMMA Holders ==
  ASSUME OneOwner, NEW f \in Files
  PROVE  /\ f \notin open => Holder(f) = NULL
         /\ f \in open /\ (\A p \in Procs : ~Has(p, f)) => Holder(f) = Gone
         /\ \A p \in Procs : Has(p, f) => f \in open /\ Holder(f) = p
<1>1. \A p, q \in Procs : local_files[p][f] # "closed" /\ local_files[q][f] # "closed" => p = q
  BY DEF OneOwner, Has
<1>2. \A p \in Procs : Has(p, f) => f \in open
  BY DEF OneOwner
<1> QED BY <1>1, <1>2, HolderOf DEF Holder, Has

LEMMA HoldersNext ==
  ASSUME OneOwner', NEW f \in Files
  PROVE  /\ f \notin open' => Holder(f)' = NULL
         /\ f \in open' /\ (\A p \in Procs : ~Has(p, f)') => Holder(f)' = Gone
         /\ \A p \in Procs : Has(p, f)' => f \in open' /\ Holder(f)' = p
<1>1. \A p, q \in Procs : local_files'[p][f] # "closed" /\ local_files'[q][f] # "closed" => p = q
  BY DEF OneOwner, Has
<1>2. \A p \in Procs : Has(p, f)' => f \in open'
  BY DEF OneOwner
<1> QED BY <1>1, <1>2, HolderOf DEF Holder, Has

LEMMA SameHolders ==
  ASSUME OneOwner, OneOwner', UNCHANGED open,
         \A p \in Procs, f \in Files : Has(p, f)' <=> Has(p, f)
  PROVE  [f \in Files |-> Holder(f)]' = [f \in Files |-> Holder(f)]
<1>1. ASSUME NEW f \in Files PROVE Holder(f)' = Holder(f)
  BY Holders, HoldersNext
<1> QED BY <1>1

LEMMA LocksOpen ==
  ASSUME IInv, OneOwner, OneOwner', main \in {"open", "create"}, Opened
  PROVE  Locks!Take(pcb, file)
<1> USE DEF IInv
<1>1. file \in Files /\ file \notin open /\ pcb \in Procs
  BY DEF TypeOK, NotOpenYet
<1>2. \A p \in Procs, g \in Files :
        local_files'[p][g] = IF p = pcb /\ g = file THEN "unset" ELSE local_files[p][g]
  BY <1>1, TableEntry DEF Opened, TypeOK, Positions
<1>3. \A p \in Procs, g \in Files : Has(p, g)' <=> Has(p, g) \/ (p = pcb /\ g = file)
  BY <1>2 DEF Has
<1>4. open' = open \cup {file} /\ waiting' = waiting
  BY OpenedWaiting DEF Opened
<1>5. ASSUME NEW g \in Files PROVE Holder(g)' = IF g = file THEN pcb ELSE Holder(g)
  <2>1. CASE g = file
    BY <1>1, <1>3, <2>1, HoldersNext
  <2>2. CASE g # file
    BY <1>3, <1>4, <2>2, Holders, HoldersNext
  <2> QED BY <2>1, <2>2
<1>6. Holder(file) = NULL
  BY <1>1, Holders
<1> QED BY <1>1, <1>4, <1>5, <1>6 DEF Locks!Take

LEMMA LocksWait ==
  ASSUME IInv, OneOwner, OneOwner', NEW f \in Files, FOpenWait(f)
  PROVE  Locks!Wait(pcb, f)
<1>1. /\ f \in open /\ UNCHANGED <<open, local_files>>
      /\ waiting' = [waiting EXCEPT ![f] = Append(@, pcb)]
  BY DEF FOpenWait
<1>2. Holder(f) # NULL
  BY <1>1, Holders, NullAssumption
<1>3. [g \in Files |-> Holder(g)]' = [g \in Files |-> Holder(g)]
  BY <1>1, SameHolders DEF Has
<1> QED BY <1>1, <1>2, <1>3 DEF Locks!Wait

LEMMA LocksClose ==
  ASSUME IInv, OneOwner, OneOwner', NEW f \in Files, FClose(f), Has(pcb, f)
  PROVE  Locks!Close(pcb, f)
<1>1. pcb \in Procs /\ Holder(f) = pcb /\ f \in open
  BY TablesFClose, Holders
<1>2. CASE waiting[f] = <<>>
  <2>1. open' = open \ {f} /\ waiting' = waiting
    BY <1>2 DEF FClose
  <2>2. \A p \in Procs, g \in Files : Has(p, g)' <=> Has(p, g) /\ g # f
    BY <1>2, TablesFClose
  <2>3. ASSUME NEW g \in Files PROVE Holder(g)' = IF g = f THEN NULL ELSE Holder(g)
    BY <2>1, <2>2, Holders, HoldersNext
  <2> QED BY <1>1, <1>2, <2>1, <2>3 DEF Locks!Close
<1>3. CASE waiting[f] # <<>>
  <2> DEFINE h == Head(waiting[f])
  <2>1. /\ h \in Procs
        /\ \A p \in Procs, g \in Files : Has(p, g)' <=> IF g = f THEN p = h ELSE Has(p, g)
    BY <1>3, TablesFClose
  <2>2. open' = open /\ waiting' = [waiting EXCEPT ![f] = Tail(waiting[f])]
    BY <1>3 DEF FClose, HeadLeaves
  <2>3. ASSUME NEW g \in Files PROVE Holder(g)' = IF g = f THEN h ELSE Holder(g)
    <3> HIDE DEF h
    <3>1. CASE g = f
      BY <2>1, <3>1, HoldersNext
    <3>2. CASE g # f
      BY <2>1, <2>2, <3>2, Holders, HoldersNext
    <3> QED BY <3>1, <3>2
  <2> QED BY <1>1, <1>3, <2>2, <2>3 DEF Locks!Close
<1> QED BY <1>2, <1>3

LEMMA LocksEnd ==
  ASSUME IInv, OneOwner, OneOwner', pcb \in Procs, UNCHANGED <<open, waiting>>,
         local_files' = [local_files EXCEPT ![pcb] = [f \in Files |-> "closed"]]
  PROVE  Locks!End(pcb)
<1>1. \A p \in Procs, f \in Files : Has(p, f)' <=> Has(p, f) /\ p # pcb
  BY DEF Has, IInv, TypeOK
<1>2. ASSUME NEW f \in Files
      PROVE  Holder(f)' = IF Holder(f) = pcb THEN Gone ELSE Holder(f)
  <2>1. CASE f \notin open
    BY <2>1, Holders, HoldersNext, NullAssumption
  <2>2. CASE f \in open /\ \A p \in Procs : ~Has(p, f)
    BY <1>1, <2>2, Holders, HoldersNext, NullAssumption
  <2>3. ASSUME NEW p \in Procs, Has(p, f)
        PROVE  Holder(f)' = IF Holder(f) = pcb THEN Gone ELSE Holder(f)
    <3>1. Holder(f) = p /\ f \in open /\ \A q \in Procs : Has(q, f) => q = p
      BY <2>3, Holders DEF OneOwner
    <3>2. CASE p = pcb
      <4>1. \A q \in Procs : ~Has(q, f)'
        BY <1>1, <3>1, <3>2
      <4> QED BY <3>1, <3>2, <4>1, HoldersNext
    <3>3. CASE p # pcb
      <4>1. Has(p, f)'
        BY <1>1, <2>3, <3>3
      <4> QED BY <3>1, <3>3, <4>1, HoldersNext
    <3> QED BY <3>2, <3>3
  <2> QED BY <2>1, <2>2, <2>3
<1> QED BY <1>2 DEF Locks!End

LEMMA LocksStep ==
  ASSUME IInv, IInv', OwnersClose, [Next]_vars
  PROVE  [Locks!Next]_Locks!vars
<1>0. OneOwner /\ OneOwner'
  BY DEF IInv
<1>1. ASSUME UNCHANGED fileVars PROVE UNCHANGED Locks!vars
  BY <1>0, <1>1, SameHolders DEF Has, Locks!vars
<1>2. CASE \/ \E p \in Procs : Arrive(p) \/ Pick(p)
           \/ Other \/ Exit \/ Push \/ Block \/ CompactRequest \/ Drained \/ FTruncateAnswer
           \/ HandleTake \/ HandleAnswer \/ FsServe \/ FsLost \/ UNCHANGED vars
  BY <1>1, <1>2 DEF Arrive, Pick, Other, Exit, Push, Block, CompactRequest, Drained,
     FTruncateAnswer, HandleTake, HandleAnswer, FsServe, FsLost, vars
<1>3. ASSUME NEW f \in Files,
             FOpenAsk(f) \/ FileNotOpen(f) \/ FTruncateAsk(f) \/ NotMine(f) \/ FReadWrite(f)
      PROVE  UNCHANGED Locks!vars
  BY <1>1, <1>3 DEF FOpenAsk, FileNotOpen, FTruncateAsk, NotMine, FReadWrite
<1>4. ASSUME NEW f \in Files, FSeek(f) PROVE UNCHANGED Locks!vars
  <2>1. /\ pcb \in Procs /\ Has(pcb, f) /\ UNCHANGED <<open, waiting>>
        /\ local_files' = [local_files EXCEPT ![pcb][f] = "set"]
    BY <1>4 DEF FSeek, Serve, IInv, TypeOK
  <2>2. \A p \in Procs, g \in Files :
          local_files'[p][g] = IF p = pcb /\ g = f THEN "set" ELSE local_files[p][g]
    BY <2>1, TableEntry DEF IInv, TypeOK, Positions
  <2>3. \A p \in Procs, g \in Files : Has(p, g)' <=> Has(p, g)
    BY <2>1, <2>2 DEF Has
  <2> QED BY <1>0, <2>1, <2>3, SameHolders DEF Locks!vars
<1>5. ASSUME NEW f \in Files, FOpenWait(f) PROVE Locks!Next
  <2>1. pcb \in Procs
    BY <1>5 DEF FOpenWait, Serve, IInv, TypeOK
  <2> QED BY <1>0, <1>5, <2>1, LocksWait DEF Locks!Next
<1>6. ASSUME NEW f \in Files, FClose(f) PROVE Locks!Next
  <2>1. pcb \in Procs /\ Has(pcb, f)
    BY <1>6 DEF FClose, Serve, IInv, TypeOK
  <2> QED BY <1>0, <1>6, <2>1, LocksClose DEF Locks!Next
<1>7. CASE FOpenAnswer \/ FCreateAnswer
  <2>1. main \in {"open", "create"} /\ (Opened \/ UNCHANGED fileVars)
    BY <1>7 DEF FOpenAnswer, FCreateAnswer
  <2>2. pcb \in Procs /\ file \in Files
    BY <2>1 DEF IInv, TypeOK
  <2> QED BY <1>0, <1>1, <2>1, <2>2, LocksOpen DEF Locks!Next
<1>8. CASE Settle
  <2>1. /\ pcb \in Procs /\ UNCHANGED <<open, waiting>>
        /\ \/ UNCHANGED local_files
           \/ local_files' = [local_files EXCEPT ![pcb] = [f \in Files |-> "closed"]]
    BY <1>8 DEF Settle, IInv, TypeOK
  <2> QED BY <1>0, <1>1, <2>1, LocksEnd DEF Locks!Next
<1> QED BY <1>2, <1>3, <1>4, <1>5, <1>6, <1>7, <1>8
        DEF Next, Serving, File, Awaited, HandleFs

LEMMA LocksInit == Init => Locks!Init
  BY DEF Init, Locks!Init, Holder, HolderIn

(* The kernel implements FileLocks, when processes close only the files    *)
(* they have: F_OPEN takes a lock or waits for it in turn, F_CLOSE hands   *)
(* it to the first that waits, and a process that ends takes it along.     *)
THEOREM FilesImplementLocks ==
  ASSUME OwnersClose
  PROVE  Spec => ImplementsLocks
<1>1. IInv /\ IInv' /\ [Next]_vars => [Locks!Next]_Locks!vars
  BY LocksStep
<1> QED BY <1>1, LocksInit, FilesInvariant, PTL DEF Spec, ImplementsLocks, Locks!Spec
=============================================================================
