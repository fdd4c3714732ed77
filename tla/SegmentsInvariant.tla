-------------------------- MODULE SegmentsInvariant -------------------------
(***************************************************************************)
(* The inductive invariant behind the theorems of SegmentsProofs, by       *)
(* parts: who has a request on the socket, which processes memory has a    *)
(* table for, and what the table of a PCB is worth at each point of the    *)
(* main loop.                                                              *)
(***************************************************************************)
EXTENDS Segments

HasPcb == main \in {"cpu", "create", "compact", "refresh", "again", "delete"}
Creating == main \in {"create", "compact", "refresh", "again"}
Lives(p) == state[p] \in {"READY", "EXEC", "BLOCK"}

Messages == [op : {"MEM_INIT_PROCESS", "MEM_END_PROCCESS", "MEM_CREATE_SEGMENT",
                   "MEM_COMPACT_ALL", "MEM_DELETE_SEGMENT"},
             pcb : Procs, s_id : SegmentIds \cup {0}, size : Nat]
Types ==
  /\ TypeOK
  /\ manner \in Manners
  /\ asked \in Seq(Messages) /\ answers \in Seq(ToSet(answers))

-----------------------------------------------------------------------------
(* The socket.  The main loop and the planner have one request each at     *)
(* most, asked or answered, and what is there fits where they are.         *)
MainAsks(r) ==
  /\ r.pcb = pcb
  /\ \/ /\ r.op = "MEM_CREATE_SEGMENT" /\ main \in {"create", "again"}
        /\ r.s_id = request.s_id /\ r.size = request.size
     \/ r.op = "MEM_COMPACT_ALL" /\ main = "compact"
     \/ r.op = "MEM_DELETE_SEGMENT" /\ main = "delete"
PlannerAsks(r) ==
  \/ r.op = "MEM_INIT_PROCESS" /\ planning = "init" /\ r.pcb = planner
  \/ r.op = "MEM_END_PROCCESS" /\ planning = "end" /\ r.pcb = ending

(* What an answer with the tables of all says of memory stays true until   *)
(* the main loop has used it.                                              *)
IsSnapshot(tables) ==
  /\ DOMAIN tables \subseteq open
  /\ \A p \in DOMAIN tables : tables[p] = MemoryTable(p)
  /\ \A p \in open \ DOMAIN tables : table[p] = <<>>
MainHears(a) ==
  \/ a.type = "MESSAGE_OK" /\ main \in {"create", "again", "delete"}
  \/ a.type = "COMPACT_REQUEST" /\ main = "create"
  \/ a.type = "OUT_OF_MEMORY" /\ main \in {"create", "again"}
  \/ a.type = "ALL_SEGMENTS_TABLES" /\ main = "compact" /\ IsSnapshot(a.content)
PlannerHears(a) ==
  \/ a.type = "SEGMENTS_TABLE" /\ planning = "init" /\ a.content = <<Zero>>
  \/ a.type = "MESSAGE_OK" /\ planning = "end" /\ ending \notin open

ByPlanner(r) == r.op \in {"MEM_INIT_PROCESS", "MEM_END_PROCCESS"}
ToPlanner(a) == a.type = "SEGMENTS_TABLE" \/ planning = "end"
Socket ==
  /\ \A r \in ToSet(asked) : MainAsks(r) \/ PlannerAsks(r)
  /\ \A a \in ToSet(answers) : MainHears(a) \/ PlannerHears(a)
  /\ IsInjective(asked) /\ IsInjective(answers)
  /\ \A r, s \in ToSet(asked) : (ByPlanner(r) <=> ByPlanner(s)) => r = s
  /\ \A a, b \in ToSet(answers) : (ToPlanner(a) <=> ToPlanner(b)) => a = b
  /\ \A r \in ToSet(asked), a \in ToSet(answers) : ByPlanner(r) <=> ~ToPlanner(a)

-----------------------------------------------------------------------------
(* The threads.  No sweep ends a process while the main loop has one, so   *)
(* no answer to MEM_END_PROCCESS can be taken for one of its own.          *)
Threads ==
  /\ planner = "main" <=> main = "planning"
  /\ planning = "end" => planner # NULL /\ state[ending] = "EXIT_PROCESS"
  /\ planning = "end" => ending \notin active_pcbs
  /\ planning = "init" => planner \in Procs
  /\ planner \in Procs => state[planner] = "NEW"
  /\ \A p \in Procs :
       /\ state[p] = "NEW" => p = planner
       /\ state[p] = "EXEC" => HasPcb /\ p = pcb
       /\ state[p] = "EXIT_PROCESS" =>
            main \in {"plan", "planning"} /\ (p \in active_pcbs \/ p = ending)
       /\ p \in active_pcbs => state[p] \in {"READY", "BLOCK", "EXIT_PROCESS"}
  /\ HasPcb => state[pcb] = "EXEC"

(* Memory has a table for the processes that live, and for a new one when  *)
(* the answer is on its way.                                               *)
Answered(type) == \E a \in ToSet(answers) : a.type = type
Opened ==
  \A p \in Procs :
    /\ Lives(p) => p \in open
    /\ state[p] \in {"none", "freed"} => p \notin open
    /\ state[p] = "NEW" => (p \in open <=> Answered("SEGMENTS_TABLE"))
    /\ p \notin open \/ state[p] = "NEW" => table[p] = <<>>

(* What memory has deferred is the request of the main loop, from the      *)
(* COMPACT_REQUEST until the loop asks again; it is settled before the     *)
(* loop goes on, so that no second COMPACT_REQUEST comes.                  *)
Owing ==
  \/ Answered("COMPACT_REQUEST") \/ main \in {"compact", "refresh"}
  \/ main = "again" /\ \E r \in ToSet(asked) : r.op = "MEM_CREATE_SEGMENT"
Owes ==
  /\ deferred # NULL =>
       Creating /\ deferred = [pid |-> pcb, s_id |-> request.s_id, size |-> request.size]
  /\ Owing => deferred # NULL
  /\ Answered("MESSAGE_OK") \/ Answered("OUT_OF_MEMORY") => deferred = NULL

(* What memory has for a process is in the table of its PCB, or will be    *)
(* when the main loop gets its answer.                                     *)
Expected(p) ==
  IF p = pcb /\ main \in {"create", "again"} /\ Answered("MESSAGE_OK")
    THEN Append(segments_table[p], request)
    ELSE segments_table[p]
Mirrors ==
  /\ HasPcb => segments_table[pcb] # NULL
  /\ \A p \in Procs : Lives(p) =>
       IF segments_table[p] = NULL
         THEN table[p] = <<>>
         ELSE IsSubsequence(MemoryTable(p), Expected(p))
  /\ main = "refresh" => IsSnapshot(snapshot)

(* A careful process has each id once in its table.                        *)
IdsOnce(segments) ==
  \A j, k \in 1 .. Len(segments) : segments[j].s_id = segments[k].s_id => j = k
CarefulIds ==
  Careful =>
    /\ \A p \in Procs : segments_table[p] # NULL => IdsOnce(segments_table[p])
    /\ Creating => ~HasId(segments_table[pcb], request.s_id)

(* A transfer is of a BLOCKed process, one at most.                        *)
Transfers ==
  /\ \A t \in transfers :
       /\ t.pcb \in Procs /\ state[t.pcb] = "BLOCK"
       /\ Careful => MemoryAllows(t.pcb, t.s_id, t.offset, t.size)
  /\ \A t, u \in transfers : t.pcb = u.pcb => t = u

SegmentsInv ==
  Types /\
  (Up => Socket /\ Threads /\ Opened /\ Owes /\ Mirrors /\ CarefulIds /\ Transfers)
=============================================================================
