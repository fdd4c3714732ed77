---------------------------- MODULE SegmentStore ----------------------------
(***************************************************************************)
(* What memory promises the kernel: each process has a table of segments,  *)
(* and only the bytes that all segments take together limit them.  Holes,  *)
(* placement and compaction do not show, except that a segment that would  *)
(* fit may come later than it was asked for.                               *)
(***************************************************************************)
EXTENDS Naturals, Sequences, SequencesExt, FiniteSetsExt

CONSTANTS Pids, SegmentIds, Sizes, Capacity, None

VARIABLES
  open,      \* the processes that have a table
  table,     \* table[pid]: its segments, [s_id, size], in the order it got them
  deferred,  \* the segment that memory owes, or None
  refused    \* the process that has to end for lack of memory, or None

vars == <<open, table, deferred, refused>>

Init ==
  /\ open = {}
  /\ table = [pid \in Pids |-> <<>>]
  /\ deferred = None /\ refused = None

TableSize(segments) == FoldLeft(LAMBDA n, s : n + s.size, 0, segments)
Used == MapThenSumSet(LAMBDA pid : TableSize(table[pid]), Pids)
Fits(size) == Used + size <= Capacity
Idle == deferred = None /\ refused = None

Begin(pid) ==
  /\ pid \notin open
  /\ open' = open \cup {pid}
  /\ UNCHANGED <<table, deferred, refused>>

Finish(pid) ==
  /\ pid \in open /\ deferred = None /\ refused \in {None, pid}
  /\ open' = open \ {pid}
  /\ table' = [table EXCEPT ![pid] = <<>>]
  /\ refused' = None
  /\ UNCHANGED deferred

Grant(pid, s_id, size) ==
  /\ UNCHANGED <<open, refused>>
  /\ table' = [table EXCEPT ![pid] = Append(@, [s_id |-> s_id, size |-> size])]
  /\ Fits(size)

GrantNow(pid, s_id, size) ==
  pid \in open /\ Idle /\ UNCHANGED deferred /\ Grant(pid, s_id, size)

Defer(pid, s_id, size) ==
  /\ pid \in open /\ Idle
  /\ deferred' = [pid |-> pid, s_id |-> s_id, size |-> size]
  /\ UNCHANGED <<open, table, refused>>
  /\ Fits(size)

GrantDeferred ==
  /\ deferred # None /\ deferred' = None
  /\ Grant(deferred.pid, deferred.s_id, deferred.size)

Refuse(pid, size) ==
  /\ pid \in open /\ Idle
  /\ refused' = pid
  /\ UNCHANGED <<open, table, deferred>>
  /\ ~Fits(size)

Delete(pid, s_id) ==
  /\ pid \in open /\ Idle
  /\ \E k \in DOMAIN table[pid] :
       /\ table[pid][k].s_id = s_id
       /\ \A j \in 1 .. k - 1 : table[pid][j].s_id # s_id
       /\ table' = [table EXCEPT ![pid] = RemoveAt(@, k)]
  /\ UNCHANGED <<open, deferred, refused>>

Next ==
  \/ \E pid \in Pids : Begin(pid) \/ Finish(pid)
  \/ \E pid \in Pids, s_id \in SegmentIds, size \in Sizes :
       GrantNow(pid, s_id, size) \/ Defer(pid, s_id, size) \/ Refuse(pid, size)
  \/ GrantDeferred
  \/ \E pid \in Pids, s_id \in SegmentIds : Delete(pid, s_id)

Spec == Init /\ [][Next]_vars
=============================================================================
