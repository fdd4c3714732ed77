------------------------------ MODULE FileLocks ------------------------------
(***************************************************************************)
(* What the kernel promises of the files its processes open: a file is a   *)
(* lock.  At most one process has it; the others wait in the order they    *)
(* came, and the first of them gets it when it is closed.  A process that  *)
(* ends with a file takes the file with it.                                *)
(***************************************************************************)
EXTENDS Naturals, Sequences

CONSTANTS Procs, Files, NULL, Gone

VARIABLES
  holder,   \* holder[f]: who has f, NULL if it is closed, Gone if who had it ended
  waiting   \* waiting[f]: the processes that wait for f

vars == <<holder, waiting>>

Init ==
  /\ holder = [f \in Files |-> NULL]
  /\ waiting = [f \in Files |-> <<>>]

Take(p, f) ==
  /\ holder[f] = NULL
  /\ holder' = [holder EXCEPT ![f] = p]
  /\ UNCHANGED waiting

Wait(p, f) ==
  /\ holder[f] # NULL
  /\ waiting' = [waiting EXCEPT ![f] = Append(@, p)]
  /\ UNCHANGED holder

Close(p, f) ==
  /\ holder[f] = p
  /\ IF waiting[f] = <<>>
       THEN holder' = [holder EXCEPT ![f] = NULL] /\ UNCHANGED waiting
       ELSE /\ holder' = [holder EXCEPT ![f] = Head(waiting[f])]
            /\ waiting' = [waiting EXCEPT ![f] = Tail(@)]

End(p) ==
  /\ holder' = [f \in Files |-> IF holder[f] = p THEN Gone ELSE holder[f]]
  /\ UNCHANGED waiting

Next ==
  \/ \E p \in Procs, f \in Files : Take(p, f) \/ Wait(p, f) \/ Close(p, f)
  \/ \E p \in Procs : End(p)

Spec == Init /\ [][Next]_vars
=============================================================================
