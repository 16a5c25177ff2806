------------------------------ MODULE JobQueue ------------------------------
(***************************************************************************)
(* What engine/internal/pq promises its users: a closable priority queue,  *)
(* highest priority first and first-come first-served within a priority.   *)
(* No goroutine, lock or condition variable appears here: PriorityQueue.tla *)
(* adds those and is shown to implement this specification, and            *)
(* ExportManager.tla is built from these actions.                          *)
(***************************************************************************)
EXTENDS Integers

CONSTANTS Ids,      \* what an item is queued under
          Prios,    \* the priorities callers use
          MaxSeq    \* bound: how many pushes a behaviour may hold

ASSUME JobQueueAssumption == /\ Prios \subseteq Int
                             /\ MaxSeq \in Nat

VARIABLES queue,    \* the queued entries
          seq,      \* the sequence number of the last push
          closed    \* whether Close was called

queueVars == <<queue, seq, closed>>

Entry == [id : Ids, prio : Prios, seq : 1..MaxSeq]

\* The order in which entries leave the queue.
Less(a, b) == \/ a.prio > b.prio
              \/ a.prio = b.prio /\ a.seq < b.seq

Queued(id) == \E e \in queue : e.id = id

IsFirst(e) == e \in queue /\ \A f \in queue \ {e} : Less(e, f)

QueueInit == queue = {} /\ seq = 0 /\ closed = FALSE

\* Push gives the item the next sequence number.
Push(id, prio) ==
  /\ ~closed
  /\ ~Queued(id)
  /\ seq < MaxSeq
  /\ seq' = seq + 1
  /\ queue' = queue \union {[id |-> id, prio |-> prio, seq |-> seq + 1]}
  /\ UNCHANGED closed

Pop(e) == /\ IsFirst(e)
          /\ queue' = queue \ {e}
          /\ UNCHANGED <<seq, closed>>

\* Update changes the priority and keeps the sequence number.
Update(id, prio) ==
  \E e \in queue : /\ e.id = id
                   /\ queue' = (queue \ {e}) \union {[e EXCEPT !.prio = prio]}
                   /\ UNCHANGED <<seq, closed>>

Remove(id) == \E e \in queue : /\ e.id = id
                               /\ queue' = queue \ {e}
                               /\ UNCHANGED <<seq, closed>>

Close == closed' = TRUE /\ UNCHANGED <<queue, seq>>

PopSome == \E e \in queue : Pop(e)

QueueNext == \/ \E id \in Ids, prio \in Prios : Push(id, prio) \/ Update(id, prio)
             \/ \E id \in Ids : Remove(id)
             \/ PopSome
             \/ Close

\* A consumer is always there to take what is queued.
QueueSpec == QueueInit /\ [][QueueNext]_queueVars /\ WF_queueVars(PopSome)

QueueTypeOK == /\ queue \subseteq Entry
               /\ seq \in 0..MaxSeq
               /\ closed \in BOOLEAN

\* An id is queued at most once, and no two entries tie: the order is total.
EntriesDistinct ==
  \A e, f \in queue : (e.id = f.id \/ e.seq = f.seq) => e = f

\* Sequence numbers come from the counter, so a new push is always last.
SeqBehindCounter == \A e \in queue : e.seq <= seq
=============================================================================
