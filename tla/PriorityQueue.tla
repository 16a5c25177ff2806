--------------------------- MODULE PriorityQueue ---------------------------
(***************************************************************************)
(* engine/internal/pq: the blocking queue itself. Producers call Push,     *)
(* Update, Remove and Close; each consumer calls Pop in a loop, as the     *)
(* export worker does. Every operation holds the mutex for its whole body, *)
(* so each is one step, except that Pop gives the mutex up inside          *)
(* cond.Wait: a consumer is then waiting, and once signalled it is woken   *)
(* but must re-acquire the mutex and test its loop condition again, by     *)
(* which time another consumer may have taken the item.                    *)
(***************************************************************************)
EXTENDS JobQueue, FiniteSets, FiniteSetTheorems, TLAPS

CONSTANT Poppers    \* the goroutines that call Pop in a loop

ASSUME PoppersAssumption == IsFiniteSet(Poppers)

VARIABLE pop        \* where each consumer stands in Pop

vars == <<queue, seq, closed, pop>>

Waiting == {p \in Poppers : pop[p] = "waiting"}
Woken == {p \in Poppers : pop[p] = "woken"}

Init == QueueInit /\ pop = [p \in Poppers |-> "running"]

\* cond.Signal wakes one waiter when there is one; which one is not promised.
Signal == IF Waiting = {} THEN UNCHANGED pop
          ELSE \E p \in Waiting : pop' = [pop EXCEPT ![p] = "woken"]

Broadcast == pop' = [p \in Poppers |-> IF p \in Waiting THEN "woken" ELSE pop[p]]

PushNoSignal(id, prio) == Push(id, prio) /\ UNCHANGED pop       \* mutant
PushItem(id, prio) == Push(id, prio) /\ Signal

UpdateNewSeq(id, prio) ==                                        \* mutant
  \E e \in queue : /\ e.id = id /\ seq < MaxSeq
                   /\ queue' = (queue \ {e}) \union
                                 {[e EXCEPT !.prio = prio, !.seq = seq + 1]}
                   /\ seq' = seq + 1
                   /\ UNCHANGED <<closed, pop>>
UpdateItem(id, prio) == Update(id, prio) /\ UNCHANGED pop

RemoveItem(id) == Remove(id) /\ UNCHANGED pop

CloseSignal == ~closed /\ Close /\ Signal                        \* mutant
CloseQueue == ~closed /\ Close /\ Broadcast

\* A consumer holding the mutex inside Pop: entering, or back from cond.Wait.
AtLoopTest(p) == pop[p] \in {"running", "woken"}

TakeItem(p) == /\ AtLoopTest(p)
               /\ \E e \in queue : Pop(e)
               /\ pop' = [pop EXCEPT ![p] = "running"]

Wait(p) == /\ AtLoopTest(p)
           /\ queue = {} /\ ~closed
           /\ pop' = [pop EXCEPT ![p] = "waiting"]
           /\ UNCHANGED queueVars

\* Pop returns false: the consumer's loop ends.
Drained(p) == /\ AtLoopTest(p)
              /\ queue = {} /\ closed
              /\ pop' = [pop EXCEPT ![p] = "gone"]
              /\ UNCHANGED queueVars

PopStep(p) == TakeItem(p) \/ Wait(p) \/ Drained(p)

Next == \/ \E id \in Ids, prio \in Prios : PushItem(id, prio) \/ UpdateItem(id, prio)
        \/ \E id \in Ids : RemoveItem(id)
        \/ CloseQueue
        \/ \E p \in Poppers : PopStep(p)

\* The Go scheduler runs every consumer that is not blocked; nothing obliges
\* a producer to act.
Fairness == \A p \in Poppers : WF_vars(PopStep(p))

Spec == Init /\ [][Next]_vars /\ Fairness

PopState == {"running", "waiting", "woken", "gone"}

TypeOK == QueueTypeOK /\ pop \in [Poppers -> PopState]

\* While a consumer sleeps, at least as many consumers are on their way to
\* the queue as there are items in it: a Push never leaves an item behind a
\* consumer that nobody wakes (Push signals once per item, pq.go:95, and a
\* woken consumer tests the queue again before it sleeps, pq.go:104-106).
NoLostWakeup == Waiting # {} => Cardinality(queue) <= Cardinality(Woken)

\* Close leaves nobody asleep, and nobody falls asleep after it (pq.go:163-168):
\* Stop in the export manager waits for the consumer to leave.
CloseWakesAll == closed => Waiting = {}

\* A consumer leaves only when the queue is closed and empty, so no item is
\* stranded in a closed queue: Close lets Pop drain what is still queued.
LeavesNothing == \A p \in Poppers : pop[p] = "gone" => closed /\ queue = {}

\* What is always true of the queue and its consumers: no Signal is lost while
\* consumers race for the mutex, and none sleeps through Close (pq.go:95-114, 163).
QueueIsSafe == TypeOK /\ NoLostWakeup /\ CloseWakesAll /\ LeavesNothing

\* After Close every consumer's Pop eventually reports false.
CloseEndsConsumers == closed ~> \A p \in Poppers : pop[p] = "gone"

\* The blocking queue implements the abstract one, fairness included: the
\* priority order, first-come first-served after any Update, and an item that
\* stays queued is eventually taken although consumers sleep and race.
ImplementsJobQueue == QueueSpec

-----------------------------------------------------------------------------
(***************************************************************************)
(* Proofs, for any finite set of consumers and any sets of items and       *)
(* priorities. NoLostWakeup needs no strengthening to be inductive, only   *)
(* the finiteness that counting needs: a Push that adds an entry adds an   *)
(* awake consumer, and a consumer that stops being awake either takes an   *)
(* entry along or found the queue empty.                                   *)
(***************************************************************************)
Inv == /\ TypeOK
       /\ IsFiniteSet(queue)
       /\ EntriesDistinct
       /\ SeqBehindCounter
       /\ NoLostWakeup
       /\ CloseWakesAll
       /\ LeavesNothing

-----------------------------------------------------------------------------
(* The queue alone. *)

QueueInv == QueueTypeOK /\ IsFiniteSet(queue) /\ EntriesDistinct /\ SeqBehindCounter

\* Push adds exactly one entry, which is not like any other (pq.go:88-94).
LEMMA PushFact ==
  ASSUME QueueInv, NEW id \in Ids, NEW prio \in Prios, Push(id, prio)
  PROVE  QueueInv' /\ Cardinality(queue') = Cardinality(queue) + 1
<1> DEFINE e == [id |-> id, prio |-> prio, seq |-> seq + 1]
<1>1. queue' = queue \union {e} /\ seq' = seq + 1 /\ UNCHANGED closed
  BY DEF Push
<1>2. e \in Entry /\ seq' \in 0..MaxSeq
  BY <1>1, JobQueueAssumption DEF Push, QueueInv, QueueTypeOK, Entry
<1>3. QueueTypeOK'
  BY <1>1, <1>2 DEF QueueInv, QueueTypeOK
<1>4. e \notin queue
  BY DEF Push, Queued
<1>5. IsFiniteSet(queue') /\ Cardinality(queue') = Cardinality(queue) + 1
  BY <1>1, <1>4, FS_AddElement DEF QueueInv
<1>6. \A f \in queue : f.seq \in Int /\ f.seq <= seq /\ f.id # id
  BY DEF QueueInv, QueueTypeOK, SeqBehindCounter, Entry, Push, Queued
<1>7. seq \in Int
  BY DEF QueueInv, QueueTypeOK
<1>8. EntriesDistinct'
  <2>1. SUFFICES ASSUME NEW f \in queue', NEW g \in queue', f.id = g.id \/ f.seq = g.seq
                 PROVE  f = g
    BY DEF EntriesDistinct
  <2>2. CASE f \in queue /\ g \in queue
    BY <2>1, <2>2 DEF QueueInv, EntriesDistinct
  <2>3. CASE f = e \/ g = e
    BY <2>1, <2>3, <1>1, <1>6, <1>7
  <2> QED BY <2>2, <2>3, <1>1
<1>9. SeqBehindCounter'
  BY <1>1, <1>6, <1>7 DEF SeqBehindCounter
<1> QED BY <1>3, <1>5, <1>8, <1>9 DEF QueueInv

\* Whatever removes one entry keeps the rest as it is (pq.go:111, 142).
LEMMA TakeOutFact ==
  ASSUME QueueInv, NEW e \in queue, queue' = queue \ {e}, UNCHANGED <<seq, closed>>
  PROVE  QueueInv' /\ Cardinality(queue') = Cardinality(queue) - 1
<1>1. IsFiniteSet(queue') /\ Cardinality(queue') = Cardinality(queue) - 1
  BY FS_RemoveElement DEF QueueInv
<1>2. QueueTypeOK' /\ EntriesDistinct' /\ SeqBehindCounter'
  BY DEF QueueInv, QueueTypeOK, EntriesDistinct, SeqBehindCounter
<1> QED BY <1>1, <1>2 DEF QueueInv

\* Update replaces one entry by another with its id and number (pq.go:126-127).
LEMMA UpdateFact ==
  ASSUME QueueInv, NEW id \in Ids, NEW prio \in Prios, Update(id, prio)
  PROVE  /\ QueueInv'
         /\ Cardinality(queue') <= Cardinality(queue)
         /\ queue # {}
<1>1. PICK e \in queue : /\ e.id = id
                         /\ queue' = (queue \ {e}) \union {[e EXCEPT !.prio = prio]}
                         /\ UNCHANGED <<seq, closed>>
  BY DEF Update
<1> DEFINE g == [e EXCEPT !.prio = prio]
           rest == queue \ {e}
<1>2. e \in Entry /\ g \in Entry /\ g.id = e.id /\ g.seq = e.seq
  BY DEF QueueInv, QueueTypeOK, Entry
<1>3. QueueTypeOK'
  BY <1>1, <1>2 DEF QueueInv, QueueTypeOK
<1>4. IsFiniteSet(rest) /\ Cardinality(rest) = Cardinality(queue) - 1
  BY FS_RemoveElement DEF QueueInv
<1>5. IsFiniteSet(queue') /\ Cardinality(queue') \in {Cardinality(rest), Cardinality(rest) + 1}
  BY <1>1, <1>4, FS_AddElement
<1>6. Cardinality(queue) \in Nat /\ Cardinality(queue') <= Cardinality(queue)
  BY <1>4, <1>5, FS_CardinalityType DEF QueueInv
<1>7. EntriesDistinct'
  <2>1. SUFFICES ASSUME NEW f \in queue', NEW h \in queue', f.id = h.id \/ f.seq = h.seq
                 PROVE  f = h
    BY DEF EntriesDistinct
  <2>2. CASE f \in rest /\ h \in rest
    BY <2>1, <2>2 DEF QueueInv, EntriesDistinct
  <2>3. CASE f = g /\ h \in rest
    BY <2>1, <2>3, <1>2 DEF QueueInv, EntriesDistinct
  <2>4. CASE f \in rest /\ h = g
    BY <2>1, <2>4, <1>2 DEF QueueInv, EntriesDistinct
  <2> QED BY <2>2, <2>3, <2>4, <1>1
<1>8. SeqBehindCounter'
  BY <1>1, <1>2 DEF QueueInv, SeqBehindCounter
<1> QED BY <1>3, <1>5, <1>6, <1>7, <1>8 DEF QueueInv
-----------------------------------------------------------------------------
(* The consumers. *)

LEMMA PoppersSubset ==
  ASSUME NEW S \in SUBSET Poppers
  PROVE  IsFiniteSet(S) /\ Cardinality(S) \in Nat
<1>1. IsFiniteSet(S)
  BY PoppersAssumption, FS_Subset
<1> QED BY <1>1, FS_CardinalityType

\* How many consumers are awake can be counted, before and after any step.
LEMMA WokenCount ==
  /\ IsFiniteSet(Woken) /\ Cardinality(Woken) \in Nat
  /\ IsFiniteSet(Woken') /\ Cardinality(Woken') \in Nat
<1>1. Woken \in SUBSET Poppers /\ Woken' \in SUBSET Poppers
  BY DEF Woken
<1> QED BY <1>1, PoppersSubset

\* A signal wakes one more consumer unless nobody sleeps (pq.go:95).
LEMMA SignalFact ==
  ASSUME TypeOK, Signal
  PROVE  /\ pop' \in [Poppers -> PopState]
         /\ Waiting' \subseteq Waiting
         /\ Waiting # {} => Cardinality(Woken') = Cardinality(Woken) + 1
         /\ \A p \in Poppers : pop'[p] = "gone" => pop[p] = "gone"
<1>1. CASE Waiting = {}
  BY <1>1 DEF Signal, TypeOK, Waiting
<1>2. CASE Waiting # {}
  <2>1. PICK p \in Waiting : pop' = [pop EXCEPT ![p] = "woken"]
    BY <1>2 DEF Signal
  <2>2. p \in Poppers /\ p \notin Woken
    BY DEF Waiting, Woken
  <2>3. /\ pop' \in [Poppers -> PopState]
        /\ Waiting' = Waiting \ {p}
        /\ Woken' = Woken \union {p}
        /\ \A q \in Poppers : pop'[q] = "gone" => pop[q] = "gone"
    BY <2>1, <2>2 DEF TypeOK, PopState, Waiting, Woken
  <2>4. Cardinality(Woken') = Cardinality(Woken) + 1
    <3>1. Cardinality(Woken \union {p}) = Cardinality(Woken) + 1
      BY <2>2, WokenCount, FS_AddElement
    <3> QED BY <2>3, <3>1
  <2> QED BY <2>3, <2>4
<1> QED BY <1>1, <1>2

LEMMA BroadcastFact ==
  ASSUME TypeOK, Broadcast
  PROVE  /\ pop' \in [Poppers -> PopState]
         /\ Waiting' = {}
         /\ \A p \in Poppers : pop'[p] = "gone" => pop[p] = "gone"
BY DEF TypeOK, Broadcast, PopState, Waiting

\* A consumer at its loop test that takes an entry uses up one wake-up at most.
LEMMA RunFact ==
  ASSUME TypeOK, NEW p \in Poppers, AtLoopTest(p),
         NEW to \in {"running", "gone"}, pop' = [pop EXCEPT ![p] = to]
  PROVE  /\ pop' \in [Poppers -> PopState]
         /\ Waiting' = Waiting
         /\ Cardinality(Woken') >= Cardinality(Woken) - 1
<1>1. /\ pop' \in [Poppers -> PopState]
      /\ Waiting' = Waiting
      /\ Woken' = Woken \ {p}
  BY DEF TypeOK, PopState, AtLoopTest, Waiting, Woken
<1>2. Cardinality(Woken \ {p}) \in {Cardinality(Woken) - 1, Cardinality(Woken)}
  BY WokenCount, FS_RemoveElement
<1> QED BY <1>1, <1>2, WokenCount
-----------------------------------------------------------------------------
LEMMA InvInit == Init => Inv
<1> SUFFICES ASSUME Init PROVE Inv
  OBVIOUS
<1> USE DEF Init, QueueInit
<1>1. TypeOK
  <2>1. queue \subseteq Entry /\ closed \in BOOLEAN
    OBVIOUS
  <2>2. seq \in 0..MaxSeq
    BY JobQueueAssumption
  <2>3. pop \in [Poppers -> PopState]
    BY DEF PopState
  <2> QED BY <2>1, <2>2, <2>3 DEF TypeOK, QueueTypeOK
<1>2. IsFiniteSet(queue)
  BY FS_EmptySet
<1>3. EntriesDistinct /\ SeqBehindCounter
  BY DEF EntriesDistinct, SeqBehindCounter
<1>4. NoLostWakeup /\ CloseWakesAll /\ LeavesNothing
  BY DEF NoLostWakeup, CloseWakesAll, LeavesNothing, Waiting
<1> QED BY <1>1, <1>2, <1>3, <1>4 DEF Inv

LEMMA InvStep == Inv /\ [Next]_vars => Inv'
<1> SUFFICES ASSUME Inv, [Next]_vars PROVE Inv'
  OBVIOUS
<1>0. QueueInv /\ TypeOK /\ Cardinality(queue) \in Nat
  BY FS_CardinalityType DEF Inv, QueueInv, TypeOK
<1>1. ASSUME NEW id \in Ids, NEW prio \in Prios, PushItem(id, prio) PROVE Inv'
  <2>1. Push(id, prio) /\ Signal
    BY <1>1 DEF PushItem
  <2>2. QueueInv' /\ Cardinality(queue') = Cardinality(queue) + 1
    BY <1>0, <2>1, PushFact
  <2>3. TypeOK'
    BY <1>0, <2>1, <2>2, SignalFact DEF TypeOK, QueueInv
  <2>4. NoLostWakeup'
    BY <1>0, <2>1, <2>2, SignalFact, WokenCount DEF Inv, NoLostWakeup
  <2>5. ~closed /\ ~closed'
    BY <2>1 DEF Push
  <2>6. CloseWakesAll' /\ LeavesNothing'
    BY <1>0, <2>1, <2>5, SignalFact DEF Inv, CloseWakesAll, LeavesNothing
  <2> QED BY <2>2, <2>3, <2>4, <2>6 DEF Inv, QueueInv
<1>2. ASSUME NEW id \in Ids, NEW prio \in Prios, UpdateItem(id, prio) PROVE Inv'
  <2>1. Update(id, prio) /\ UNCHANGED <<closed, pop>>
    BY <1>2 DEF UpdateItem, Update
  <2>2. QueueInv' /\ Cardinality(queue') <= Cardinality(queue) /\ queue # {}
    BY <1>0, <2>1, UpdateFact
  <2>3. TypeOK' /\ CloseWakesAll' /\ LeavesNothing'
    BY <1>0, <2>1, <2>2 DEF Inv, TypeOK, QueueInv, CloseWakesAll, LeavesNothing, Waiting
  <2>4. Cardinality(queue') \in Nat
    BY <2>2, FS_CardinalityType DEF QueueInv
  <2>5. NoLostWakeup'
    BY <1>0, <2>1, <2>2, <2>4, WokenCount DEF Inv, NoLostWakeup, Waiting, Woken
  <2> QED BY <2>2, <2>3, <2>5 DEF Inv, QueueInv
<1>3. ASSUME NEW id \in Ids, RemoveItem(id) PROVE Inv'
  <2>1. PICK e \in queue : queue' = queue \ {e} /\ UNCHANGED <<seq, closed, pop>>
    BY <1>3 DEF RemoveItem, Remove
  <2>2. QueueInv' /\ Cardinality(queue') = Cardinality(queue) - 1
    BY <1>0, <2>1, TakeOutFact
  <2>3. TypeOK' /\ CloseWakesAll' /\ LeavesNothing'
    BY <1>0, <2>1, <2>2 DEF Inv, TypeOK, QueueInv, CloseWakesAll, LeavesNothing, Waiting
  <2>4. NoLostWakeup'
    BY <1>0, <2>1, <2>2, WokenCount DEF Inv, NoLostWakeup, Waiting, Woken
  <2> QED BY <2>2, <2>3, <2>4 DEF Inv, QueueInv
<1>4. ASSUME CloseQueue PROVE Inv'
  <2>1. closed' = TRUE /\ UNCHANGED <<queue, seq>> /\ ~closed /\ Broadcast
    BY <1>4 DEF CloseQueue, Close
  <2>2. QueueInv'
    BY <1>0, <2>1 DEF QueueInv, QueueTypeOK, EntriesDistinct, SeqBehindCounter
  <2>3. TypeOK'
    BY <1>0, <2>1, <2>2, BroadcastFact DEF TypeOK, QueueInv
  <2>4. NoLostWakeup' /\ CloseWakesAll'
    BY <1>0, <2>1, BroadcastFact DEF NoLostWakeup, CloseWakesAll
  <2>5. LeavesNothing'
    BY <1>0, <2>1, BroadcastFact DEF Inv, LeavesNothing
  <2> QED BY <2>2, <2>3, <2>4, <2>5 DEF Inv, QueueInv
<1>5. ASSUME NEW p \in Poppers, TakeItem(p) PROVE Inv'
  <2>1. PICK e \in queue : Pop(e)
    BY <1>5 DEF TakeItem
  <2>2. queue' = queue \ {e} /\ UNCHANGED <<seq, closed>>
    BY <2>1 DEF Pop
  <2>3. QueueInv' /\ Cardinality(queue') = Cardinality(queue) - 1
    BY <1>0, <2>2, TakeOutFact
  <2>4. /\ pop' = [pop EXCEPT ![p] = "running"]
        /\ pop' \in [Poppers -> PopState]
        /\ Waiting' = Waiting
        /\ Cardinality(Woken') >= Cardinality(Woken) - 1
    BY <1>0, <1>5, RunFact DEF TakeItem
  <2>5. TypeOK' /\ CloseWakesAll'
    BY <2>2, <2>3, <2>4 DEF Inv, TypeOK, QueueInv, CloseWakesAll
  <2>6. Cardinality(Woken) \in Nat /\ Cardinality(Woken') \in Nat
    BY WokenCount
  <2>7. NoLostWakeup'
    BY <1>0, <2>3, <2>4, <2>6 DEF Inv, NoLostWakeup
  <2>8. LeavesNothing'
    BY <1>0, <2>1, <2>2, <2>4 DEF Inv, LeavesNothing, TypeOK
  <2> QED BY <2>3, <2>5, <2>7, <2>8 DEF Inv, QueueInv
<1>6. ASSUME NEW p \in Poppers, Wait(p) PROVE Inv'
  <2>1. /\ queue = {} /\ queue' = {} /\ ~closed /\ ~closed' /\ seq' = seq
        /\ pop' = [pop EXCEPT ![p] = "waiting"]
    BY <1>6 DEF Wait, queueVars
  <2>2. QueueInv'
    BY <1>0, <1>6 DEF Wait, queueVars, QueueInv, QueueTypeOK, EntriesDistinct, SeqBehindCounter
  <2>3. TypeOK'
    BY <1>0, <2>1, <2>2 DEF QueueInv, TypeOK, PopState
  <2>4. NoLostWakeup'
    <3>1. Cardinality(queue') = 0
      BY <2>1, FS_EmptySet
    <3> QED BY <3>1, WokenCount DEF NoLostWakeup
  <2>5. CloseWakesAll' /\ LeavesNothing'
    BY <1>0, <2>1 DEF Inv, CloseWakesAll, LeavesNothing, TypeOK
  <2> QED BY <2>2, <2>3, <2>4, <2>5 DEF Inv, QueueInv
<1>7. ASSUME NEW p \in Poppers, Drained(p) PROVE Inv'
  <2>1. /\ queue = {} /\ queue' = {} /\ closed /\ closed' /\ seq' = seq
        /\ pop' = [pop EXCEPT ![p] = "gone"] /\ AtLoopTest(p)
    BY <1>7 DEF Drained, queueVars
  <2>2. QueueInv'
    BY <1>0, <2>1 DEF QueueInv, QueueTypeOK, EntriesDistinct, SeqBehindCounter
  <2>3. pop' \in [Poppers -> PopState] /\ Waiting' = Waiting
    BY <1>0, <2>1, RunFact
  <2>4. Waiting' = {}
    BY <2>1, <2>3 DEF Inv, CloseWakesAll
  <2> QED BY <2>1, <2>2, <2>3, <2>4
       DEF Inv, QueueInv, TypeOK, NoLostWakeup, CloseWakesAll, LeavesNothing
<1>8. CASE UNCHANGED vars
  BY <1>8 DEF vars, Inv, TypeOK, QueueTypeOK, EntriesDistinct, SeqBehindCounter,
              NoLostWakeup, CloseWakesAll, LeavesNothing, Waiting, Woken
<1> QED BY <1>1, <1>2, <1>3, <1>4, <1>5, <1>6, <1>7, <1>8 DEF Next, PopStep

THEOREM InvAlways == Spec => []Inv
BY InvInit, InvStep, PTL DEF Spec
-----------------------------------------------------------------------------
\* The queue's entries, its counter and the consumers' states have their types.
THEOREM TypeCorrect == Spec => []TypeOK
<1>1. Inv => TypeOK
  BY DEF Inv
<1> QED BY InvAlways, <1>1, PTL

\* No wake-up is lost: while a consumer sleeps there are as many woken ones as
\* entries (pq.go:95, 104-106).
THEOREM WakeupsSuffice == Spec => []NoLostWakeup
<1>1. Inv => NoLostWakeup
  BY DEF Inv
<1> QED BY InvAlways, <1>1, PTL

\* Nobody sleeps in a closed queue (pq.go:104, 163-168).
THEOREM CloseWakes == Spec => []CloseWakesAll
<1>1. Inv => CloseWakesAll
  BY DEF Inv
<1> QED BY InvAlways, <1>1, PTL

\* A consumer whose Pop reported false leaves a closed and empty queue, for ever:
\* Push is refused by then (pq.go:85-87, 107-110).
THEOREM NothingLeft == Spec => []LeavesNothing
<1>1. Inv => LeavesNothing
  BY DEF Inv
<1> QED BY InvAlways, <1>1, PTL

\* Wake-ups, Close and the last Pop, together: what the run checks of every state.
THEOREM QueueSafety == Spec => []QueueIsSafe
<1>1. Inv => QueueIsSafe
  BY DEF Inv, QueueIsSafe
<1> QED BY InvAlways, <1>1, PTL

\* No id is queued twice and no two entries tie, so the heap's order is total and
\* a new entry comes after all others of its priority (pq.go:32-47, 88-94).
THEOREM OrderIsTotal == Spec => [](EntriesDistinct /\ SeqBehindCounter)
<1>1. Inv => EntriesDistinct /\ SeqBehindCounter
  BY DEF Inv
<1> QED BY InvAlways, <1>1, PTL

\* The safety part of ImplementsJobQueue: whatever the consumers do, the queue
\* they share takes only steps of the abstract queue.
THEOREM ImplementsQueueSafety == Spec => QueueInit /\ [][QueueNext]_queueVars
<1>1. Init => QueueInit
  BY DEF Init
<1>2. [Next]_vars => [QueueNext]_queueVars
  <2> SUFFICES ASSUME [Next]_vars PROVE [QueueNext]_queueVars
    OBVIOUS
  <2>1. ASSUME NEW id \in Ids, NEW prio \in Prios,
               PushItem(id, prio) \/ UpdateItem(id, prio)
        PROVE  QueueNext
    BY <2>1 DEF PushItem, UpdateItem, QueueNext
  <2>2. ASSUME NEW id \in Ids, RemoveItem(id) PROVE QueueNext
    BY <2>2 DEF RemoveItem, QueueNext
  <2>3. CASE CloseQueue
    BY <2>3 DEF CloseQueue, QueueNext
  <2>4. ASSUME NEW p \in Poppers, TakeItem(p) PROVE QueueNext
    BY <2>4 DEF TakeItem, PopSome, QueueNext
  <2>5. ASSUME NEW p \in Poppers, Wait(p) \/ Drained(p) PROVE UNCHANGED queueVars
    BY <2>5 DEF Wait, Drained
  <2>6. CASE UNCHANGED vars
    BY <2>6 DEF vars, queueVars
  <2> QED BY <2>1, <2>2, <2>3, <2>4, <2>5, <2>6 DEF Next, PopStep
<1> QED BY <1>1, <1>2, PTL DEF Spec
=============================================================================
