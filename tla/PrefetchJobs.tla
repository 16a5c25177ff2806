---------------------------- MODULE PrefetchJobs ----------------------------
(***************************************************************************)
(* The page's side of cache warming (smart-cache.js): every context the user *)
(* looks at (an album, the queue) is sent to the engine, which warms it in a  *)
(* job.  A slot holds the job of its latest context; the one before is        *)
(* cancelled.  Answers, cancellations and events overtake each other.         *)
(***************************************************************************)
EXTENDS Naturals, FiniteSets

CONSTANTS Slots,        \* job slots: each of them has at most one context at work
          Paged,        \* the slots whose tracks are read from the catalogue first
          MaxContexts   \* bound: contexts the user moves to

PrefetchAssumption == MaxContexts \in Nat /\ 0 \notin Slots

Contexts == 1..MaxContexts
None == 0

VARIABLES
  slot,     \* the slot of each context moved to so far; its job has the context's number
  reading,  \* contexts whose catalogue answer is awaited
  puts,     \* contexts sent: the call's number, and whether the engine has answered
  seq, jobs, \* _seq and _jobs, by slot
  running,  \* the engine's jobs
  cancels,  \* DELETE calls on their way
  ended     \* prefetch.done and prefetch.cancelled events on their way

vars == <<slot, reading, puts, seq, jobs, running, cancels, ended>>

Moved == {c \in Contexts : slot[c] # None}

Init ==
  /\ slot = [c \in Contexts |-> None]
  /\ seq = [s \in Slots |-> 0] /\ jobs = [s \in Slots |-> None]
  /\ reading = {} /\ puts = {} /\ running = {} /\ cancels = {} /\ ended = {}

\* sendContext, up to its call: the slot's previous job is cancelled.
Send(c, s) ==
  /\ seq' = [seq EXCEPT ![s] = @ + 1]
  /\ puts' = puts \union {[ctx |-> c, seq |-> seq'[s], answered |-> FALSE]}
  /\ cancels' = cancels \union ({jobs[s]} \ {None})
  /\ jobs' = [jobs EXCEPT ![s] = None]

\* onNavigate and onTrackChange: a page's tracks are read first.
MoveTo(c, s) ==
  /\ slot[c] = None /\ \A d \in Contexts : d < c => slot[d] # None
  /\ slot' = [slot EXCEPT ![c] = s]
  /\ IF s \in Paged THEN reading' = reading \union {c} /\ UNCHANGED <<puts, seq, jobs, cancels>>
     ELSE Send(c, s) /\ UNCHANGED reading
  /\ UNCHANGED <<running, ended>>

\* onAlbumOpen, onPlaylistOpen: the answer; an error or an empty list ends it.
CatalogueAnswers(c) ==
  /\ c \in reading /\ reading' = reading \ {c}
  /\ Send(c, slot[c]) \/ UNCHANGED <<puts, seq, jobs, cancels>>
  /\ UNCHANGED <<slot, running, ended>>

\* The engine takes a context (or refuses it).
EngineTakes(p) ==
  /\ p \in puts /\ ~p.answered
  /\ \/ puts' = (puts \ {p}) \union {[p EXCEPT !.answered = TRUE]} /\ running' = running \union {p.ctx}
     \/ puts' = puts \ {p} /\ UNCHANGED running
  /\ UNCHANGED <<slot, reading, seq, jobs, cancels, ended>>

\* sendContext, its answer: the job of an overtaken call is cancelled.
Answered(p) ==
  /\ p \in puts /\ p.answered /\ puts' = puts \ {p}
  /\ LET s == slot[p.ctx] IN
       IF seq[s] = p.seq THEN jobs' = [jobs EXCEPT ![s] = p.ctx] /\ UNCHANGED cancels
       ELSE cancels' = cancels \union {p.ctx} /\ UNCHANGED jobs
  /\ UNCHANGED <<slot, reading, seq, running, ended>>

EngineCancels(j) ==
  /\ j \in cancels /\ cancels' = cancels \ {j}
  /\ running' = running \ {j} /\ ended' = ended \union ({j} \intersect running)
  /\ UNCHANGED <<slot, reading, puts, seq, jobs>>

EngineIsDone(j) ==
  /\ j \in running /\ running' = running \ {j} /\ ended' = ended \union {j}
  /\ UNCHANGED <<slot, reading, puts, seq, jobs, cancels>>

\* clearSlot; a dropped event stream loses the event.
EndIsRead(j) ==
  /\ j \in ended /\ ended' = ended \ {j}
  /\ jobs' = [s \in Slots |-> IF jobs[s] = j THEN None ELSE jobs[s]] \/ UNCHANGED jobs
  /\ UNCHANGED <<slot, reading, puts, seq, running, cancels>>

Next ==
  \/ \E c \in Contexts : (\E s \in Slots : MoveTo(c, s)) \/ CatalogueAnswers(c)
  \/ \E p \in puts : EngineTakes(p) \/ Answered(p)
  \/ \E j \in Contexts : EngineCancels(j) \/ EngineIsDone(j) \/ EndIsRead(j)

Spec == Init /\ [][Next]_vars

-----------------------------------------------------------------------------
(* Properties. *)

TypeOK ==
  /\ slot \in [Contexts -> Slots \union {None}]
  /\ reading \subseteq Moved /\ running \subseteq Moved /\ cancels \subseteq Moved /\ ended \subseteq Moved
  /\ puts \subseteq [ctx : Moved, seq : Nat, answered : BOOLEAN]
  /\ seq \in [Slots -> Nat] /\ jobs \in [Slots -> Moved \union {None}]

\* A slot warms one context: once its calls are answered, the engine runs no other job for the slot than
\* the one the page knows, and so would cancel (smart-cache.js 98-102, 145-151).  Two contexts in quick
\* succession, answered in either order, leave no job that nobody can cancel.
NoStrayJob ==
  \A s \in Slots :
    (\A p \in puts : slot[p.ctx] # s) => {j \in running \ cancels : slot[j] = s} \subseteq {jobs[s]}

(* The inductive invariant NoStrayJob follows from. *)

\* A context is sent once, and the engine takes it once.
SentOnce ==
  /\ \A p, q \in puts : p.ctx = q.ctx => p = q
  /\ \A p \in puts : p.ctx \notin reading /\ (~p.answered => p.ctx \notin running \union ended)
  /\ reading \intersect (running \union ended) = {} /\ running \intersect ended = {}

\* A slot's calls have numbers of their own, and its latest call finds no job in the slot.
LatestFillsTheSlot ==
  /\ \A p, q \in puts : slot[p.ctx] = slot[q.ctx] /\ p.seq = q.seq => p = q
  /\ \A p \in puts : /\ p.seq <= seq[slot[p.ctx]]
                     /\ p.seq = seq[slot[p.ctx]] => jobs[slot[p.ctx]] = None

\* A job that runs and is not being cancelled is known, or its answer is on its way.
JobsAreKnown ==
  \A j \in running \ cancels :
    j = jobs[slot[j]] \/ \E p \in puts : p.ctx = j /\ p.answered

IInv == TypeOK /\ SentOnce /\ LatestFillsTheSlot /\ JobsAreKnown
=============================================================================
