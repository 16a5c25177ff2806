---------------------------- MODULE ExportManager ----------------------------
(***************************************************************************)
(* engine/core/export/manager.go: one worker goroutine runs export jobs    *)
(* from the priority queue and hands each downloaded track to a            *)
(* post-process goroutine of its own, while HTTP handlers (Clients)        *)
(* enqueue, cancel, retry and reprioritise jobs and the process's shutdown *)
(* calls Stop.                                                             *)
(*                                                                         *)
(* A step is what runs under m.mu or between two blocking calls. The queue *)
(* is the specification JobQueue that PriorityQueue.tla implements. A      *)
(* network, file or tool call returns success or failure; a panic anywhere *)
(* in a job's goroutine is recovered into fail. m.jobs and m.requests are  *)
(* always changed together, so one variable stands for both.               *)
(***************************************************************************)
EXTENDS Integers, FiniteSetTheorems, TLAPS

CONSTANTS Jobs,     \* job ids, each used for one job
          Untidy,   \* the jobs of which a file stays that nobody looks after. A job
                    \* comes once at most to a point where one may (MayLeave)
          Clients,  \* HTTP handlers that may run at the same time
          Prios,    \* priorities callers use
          MaxPanics, \* bound: how many jobs may panic
          NoRequest, NoJob

ASSUME ConstantsAssumption == /\ IsFiniteSet(Jobs)
                              /\ Untidy \subseteq Jobs
                              /\ Prios \subseteq Int
                              /\ MaxPanics \in Nat
                              /\ NoRequest \notin Prios
                              /\ NoJob \notin Jobs

VARIABLES
  phase,      \* job.Phase, "none" before Enqueue
  request,    \* m.jobs and m.requests: the stored priority, NoRequest if absent
  cancelled,  \* the jobs whose context is cancelled
  queue, seq, closed,   \* m.queue
  worker,     \* the worker goroutine: where it is and the job it runs
  post,       \* per job, where its post-process goroutine is
  active,     \* the WaitGroup m.active
  client,     \* per handler, what it has left to do and for which job
  stop,       \* how far Stop has come
  tmp,        \* jobs whose temp file exists, under the name that the job's
              \* goroutine holds in tmpPath
  left,       \* jobs of which there is a file that no goroutine will move or remove
  final,      \* jobs whose file is at its final path
  announced,  \* jobs whose terminal phase was sent to the event sink
  panicked    \* jobs whose goroutine panicked

queueVars == <<queue, seq, closed>>
fileVars == <<tmp, left, final>>
vars == <<phase, request, cancelled, queue, seq, closed, worker, post, active,
          client, stop, tmp, left, final, announced, panicked>>

MaxSeq == Cardinality(Jobs)
Q == INSTANCE JobQueue WITH Ids <- Jobs

\* A job deleted from the maps is forgotten by every later call.
life == [j \in Jobs |-> IF phase[j] # "none" /\ request[j] = NoRequest
                        THEN "forgotten" ELSE phase[j]]
L == INSTANCE JobLifecycle

IsTerminal(p) == L!IsTerminal(p)
Known == {j \in Jobs : request[j] # NoRequest}
Fresh == {j \in Jobs : phase[j] = "none"}

WorkerAt(at) == worker.at = at
WorkerGo(at) == worker' = [worker EXCEPT !.at = at]
WorkerIdle == worker' = [at |-> "pop", job |-> NoJob]
PostGo(j, at) == post' = [post EXCEPT ![j] = at]
ClientFree(c) == client[c].at = "idle"
Idle == [at |-> "idle", job |-> NoJob, prio |-> NoRequest]
ClientGo(c, at, j, prio) ==
  client' = [client EXCEPT ![c] = [at |-> at, job |-> j, prio |-> prio]]
ClientDone(c) == client' = [client EXCEPT ![c] = Idle]

Init ==
  /\ phase = [j \in Jobs |-> "none"]
  /\ request = [j \in Jobs |-> NoRequest]
  /\ cancelled = {}
  /\ Q!QueueInit
  /\ worker = [at |-> "pop", job |-> NoJob]
  /\ post = [j \in Jobs |-> "none"]
  /\ active = 1
  /\ client = [c \in Clients |-> Idle]
  /\ stop = "no"
  /\ tmp = {} /\ left = {} /\ final = {}
  /\ announced = {} /\ panicked = {}
-----------------------------------------------------------------------------
(* The two ways a job's phase changes. *)

\* advance: refused when the transition relation refuses it.
Advance(j, to) ==
  phase' = IF L!CanTransition(phase[j], to) THEN [phase EXCEPT ![j] = to] ELSE phase

\* fail: a finished job keeps its outcome; a cancelled context decides the rest.
FailOverwrites(j) ==                                                 \* mutant
  phase' = [phase EXCEPT ![j] = IF j \in cancelled THEN "cancelled" ELSE "failed"]
Fail(j) ==
  phase' = IF IsTerminal(phase[j]) THEN phase
           ELSE [phase EXCEPT ![j] = IF j \in cancelled THEN "cancelled" ELSE "failed"]

FailSilent(j) == "over"                                              \* mutant
\* The event that fail sends next, unless it found the job finished.
AfterFail(j) == IF IsTerminal(phase[j]) THEN "over" ELSE "emit"
-----------------------------------------------------------------------------
(* HTTP handlers. *)

\* The locked part of Enqueue: queue and maps change together.
Add(j, prio) ==
  /\ Q!Push(j, prio)
  /\ phase' = [phase EXCEPT ![j] = "queued"]
  /\ request' = [request EXCEPT ![j] = prio]

Enqueue(c) ==
  /\ ClientFree(c)
  /\ \E j \in Fresh, prio \in Prios : Add(j, prio)
  /\ UNCHANGED <<cancelled, worker, post, active, client, stop, fileVars,
                 announced, panicked>>

\* Cancel of a finished job: "Clear done".
CancelFinished(c, j) ==
  /\ ClientFree(c) /\ j \in Known /\ IsTerminal(phase[j])
  /\ request' = [request EXCEPT ![j] = NoRequest]
  /\ UNCHANGED <<phase, cancelled, queueVars, worker, post, active, client, stop,
                 fileVars, announced, panicked>>

CancelQueuedByPhase(c, j) ==                                         \* mutant
  /\ ClientFree(c) /\ j \in Known /\ phase[j] = "queued"
  /\ queue' = {e \in queue : e.id # j} /\ UNCHANGED <<seq, closed>>
  /\ phase' = [phase EXCEPT ![j] = "cancelled"]
  /\ ClientGo(c, "cancelQueued", j, NoRequest)
  /\ UNCHANGED <<request, cancelled, worker, post, active, stop, fileVars,
                 announced, panicked>>
\* Cancel of a queued job: the queue decides whether it still is.
CancelQueued(c, j) ==
  /\ ClientFree(c) /\ j \in Known /\ ~IsTerminal(phase[j])
  /\ Q!Remove(j)
  /\ phase' = [phase EXCEPT ![j] = "cancelled"]
  /\ ClientGo(c, "cancelQueued", j, NoRequest)
  /\ UNCHANGED <<request, cancelled, worker, post, active, stop, fileVars,
                 announced, panicked>>

\* Cancel of a running job only cancels its context, after the unlock.
CancelRunning(c, j) ==
  /\ ClientFree(c) /\ j \in Known /\ ~IsTerminal(phase[j]) /\ ~Q!Queued(j)
  /\ ClientGo(c, "cancelRunning", j, NoRequest)
  /\ UNCHANGED <<phase, request, cancelled, queueVars, worker, post, active, stop,
                 fileVars, announced, panicked>>

CancelContext(c) ==
  /\ client[c].at \in {"cancelQueued", "cancelRunning"}
  /\ cancelled' = cancelled \union {client[c].job}
  /\ IF client[c].at = "cancelQueued" THEN ClientGo(c, "emit", client[c].job, NoRequest)
                                      ELSE ClientDone(c)
  /\ UNCHANGED <<phase, request, queueVars, worker, post, active, stop, fileVars,
                 announced, panicked>>

CancelEmit(c) ==
  /\ client[c].at = "emit"
  /\ announced' = announced \union {client[c].job}
  /\ ClientDone(c)
  /\ UNCHANGED <<phase, request, cancelled, queueVars, worker, post, active, stop,
                 fileVars, panicked>>

\* Retry looks the job up under a read lock and enqueues after releasing it;
\* it holds a copy of the request by then, so a deletion does not matter.
RetryRead(c, j) ==
  /\ ClientFree(c) /\ j \in Known /\ phase[j] \in {"failed", "cancelled"}
  /\ ClientGo(c, "retry", j, request[j])
  /\ UNCHANGED <<phase, request, cancelled, queueVars, worker, post, active, stop,
                 fileVars, announced, panicked>>

RetryEnqueue(c) ==
  /\ client[c].at = "retry"
  /\ \/ \E j \in Fresh : Add(j, client[c].prio)
     \/ closed /\ UNCHANGED <<phase, request, queueVars>>
     \/ Fresh = {} /\ UNCHANGED <<phase, request, queueVars>>        \* bound
  /\ ClientDone(c)
  /\ UNCHANGED <<cancelled, worker, post, active, stop, fileVars, announced, panicked>>

Prioritize(c, j) ==
  /\ ClientFree(c) /\ j \in Known
  /\ \E prio \in Prios : Q!Update(j, prio)
  /\ UNCHANGED <<phase, request, cancelled, worker, post, active, client, stop,
                 fileVars, announced, panicked>>
-----------------------------------------------------------------------------
(* The worker: pop, then execute. *)

WorkerPop ==
  /\ WorkerAt("pop")
  /\ \E e \in queue : Q!Pop(e) /\ worker' = [at |-> "start", job |-> e.id]
  /\ UNCHANGED <<phase, request, cancelled, post, active, client, stop, fileVars,
                 announced, panicked>>

WorkerLeave ==
  /\ WorkerAt("pop") /\ closed /\ queue = {}
  /\ worker' = [at |-> "gone", job |-> NoJob]
  /\ active' = active - 1
  /\ UNCHANGED <<phase, request, cancelled, queueVars, post, client, stop, fileVars,
                 announced, panicked>>

\* fail, then either send its event or return to Pop.
WorkerFail ==
  /\ Fail(worker.job)
  /\ IF AfterFail(worker.job) = "emit" THEN WorkerGo("emit") ELSE WorkerIdle
  /\ UNCHANGED <<request, queueVars, post, active>>

WorkerAdvance(to, at) ==
  /\ Advance(worker.job, to)
  /\ WorkerGo(at)
  /\ UNCHANGED <<request, queueVars, post, active>>

\* A context cancelled between Pop and execute ends the job at once.
WorkerStart ==
  /\ WorkerAt("start")
  /\ IF worker.job \in cancelled THEN WorkerFail
                                  ELSE WorkerAdvance("resolving", "resolve")
  /\ UNCHANGED <<cancelled, client, stop, fileVars, announced, panicked>>

\* Catalog lookup: an error, an album or playlist, a file that is already
\* there (policy "skip"), or a track to download.
WorkerResolve ==
  /\ WorkerAt("resolve")
  /\ \/ WorkerFail
     \/ WorkerGo("expand") /\ UNCHANGED <<phase, request, queueVars, post, active>>
     \/ WorkerAdvance("done", "emit")
     \/ WorkerAdvance("downloading", "download")
  /\ UNCHANGED <<cancelled, client, stop, fileVars, announced, panicked>>

\* Expansion enqueues the tracks one by one; a closed queue refuses them and
\* the error is ignored.
ExpandTrack ==
  /\ WorkerAt("expand")
  /\ \E j \in Fresh : Add(j, request[worker.job])
  /\ UNCHANGED <<cancelled, worker, post, active, client, stop, fileVars, announced,
                 panicked>>

ExpandEnd ==
  /\ WorkerAt("expand")
  /\ request' = [request EXCEPT ![worker.job] = NoRequest]
  /\ WorkerIdle
  /\ UNCHANGED <<phase, cancelled, queueVars, post, active, client, stop, fileVars,
                 announced, panicked>>

HandOverUncounted ==                                                 \* mutant
  /\ PostGo(worker.job, "tag")
  /\ WorkerIdle
  /\ UNCHANGED <<phase, request, active, queueVars>>
\* The goroutine that post-processes a downloaded job is counted before it runs.
HandOver ==
  /\ active' = active + 1
  /\ PostGo(worker.job, "tag")
  /\ WorkerIdle
  /\ UNCHANGED <<phase, request, queueVars>>

\* What is left of an untidy job: the lyrics beside the track, what a failed ffmpeg
\* has written of a video or of a FLAC file, the original that KeepOriginal keeps.
MayLeave(j) == left' = left \union ({j} \intersect Untidy)

\* downloadToTemp: an error before any byte, the bytes playback already has,
\* or a network stream. The goroutine that copies playback's bytes removes the
\* temp file when it ends after a cancellation, even if the copy succeeded.
WorkerDownload ==
  /\ WorkerAt("download")
  /\ \/ WorkerFail /\ UNCHANGED tmp
     \/ HandOver /\ tmp' = tmp \union {worker.job}
     \/ HandOver /\ worker.job \in cancelled /\ UNCHANGED tmp
     \/ /\ tmp' = tmp \union {worker.job}
        /\ WorkerGo("stream")
        /\ UNCHANGED <<phase, request, queueVars, post, active>>
  /\ UNCHANGED <<cancelled, client, stop, left, final, announced, panicked>>

\* A stream that fails has its files removed. A video is put together by ffmpeg
\* after its streams: what a failed or killed ffmpeg has written stays.
WorkerStream ==
  /\ WorkerAt("stream")
  /\ \/ WorkerFail /\ tmp' = tmp \ {worker.job} /\ MayLeave(worker.job)
     \/ HandOver /\ UNCHANGED <<tmp, left>>
  /\ UNCHANGED <<cancelled, client, stop, final, announced, panicked>>

WorkerEmit ==
  /\ WorkerAt("emit")
  /\ announced' = announced \union {worker.job}
  /\ WorkerIdle
  /\ UNCHANGED <<phase, request, cancelled, queueVars, post, active, client, stop,
                 fileVars, panicked>>

\* recover in execute: whatever was on disk stays there.
WorkerPanic ==
  /\ worker.at \notin {"pop", "gone"}
  /\ Cardinality(panicked) < MaxPanics
  /\ panicked' = panicked \union {worker.job}
  /\ WorkerFail
  /\ UNCHANGED <<cancelled, client, stop, fileVars, announced>>
-----------------------------------------------------------------------------
(* A job's post-process goroutine. *)

PostUnchanged == UNCHANGED <<request, cancelled, queueVars, worker, client, stop>>

PostEnd(j) == PostGo(j, "none") /\ active' = active - 1

PostFail(j) ==
  /\ Fail(j)
  /\ IF AfterFail(j) = "emit" THEN PostGo(j, "emit") /\ UNCHANGED active ELSE PostEnd(j)

PostTag(j) ==
  /\ post[j] = "tag"
  /\ Advance(j, "tagging")
  /\ PostGo(j, "work")
  /\ PostUnchanged /\ UNCHANGED <<active, fileVars, announced, panicked>>

\* Lyrics, tags, the lyrics file beside the final path, and the optional
\* conversion to FLAC, after which tmpPath names the converted file: each may
\* fail, which is logged, and the job goes on. (A converted file that cannot be
\* renamed leaves tmpPath without a file; the move then fails, as any may.)
PostWork(j) ==
  /\ post[j] = "work"
  /\ PostGo(j, "check")
  /\ MayLeave(j)
  /\ PostUnchanged /\ UNCHANGED <<phase, active, tmp, final, announced, panicked>>

\* Cancelled during post-processing: remove the temp file and fail.
PostCheck(j) ==
  /\ post[j] = "check"
  /\ IF j \in cancelled
     THEN PostFail(j) /\ tmp' = tmp \ {j}
     ELSE Advance(j, "moving") /\ PostGo(j, "move") /\ UNCHANGED <<active, tmp>>
  /\ PostUnchanged /\ UNCHANGED <<left, final, announced, panicked>>

\* moveNoClobber: the file is published, an existing file is kept (policy
\* "skip"), or the move fails. The temp file is gone in each case.
PostMove(j) ==
  /\ post[j] = "move"
  /\ tmp' = tmp \ {j}
  /\ \/ /\ final' = final \union {j}
        /\ Advance(j, "done") /\ PostGo(j, "emit") /\ UNCHANGED active
     \/ /\ UNCHANGED final
        /\ Advance(j, "done") /\ PostGo(j, "emit") /\ UNCHANGED active
     \/ PostFail(j) /\ UNCHANGED final
  /\ PostUnchanged /\ UNCHANGED <<left, announced, panicked>>

PostEmit(j) ==
  /\ post[j] = "emit"
  /\ announced' = announced \union {j}
  /\ PostEnd(j)
  /\ PostUnchanged /\ UNCHANGED <<phase, fileVars, panicked>>

PostPanic(j) ==
  /\ post[j] # "none"
  /\ Cardinality(panicked) < MaxPanics
  /\ panicked' = panicked \union {j}
  /\ PostFail(j)
  /\ PostUnchanged /\ UNCHANGED <<fileVars, announced>>
-----------------------------------------------------------------------------
(* Stop, called once at shutdown. *)

StopCancelFirst ==                                                   \* mutant
  /\ stop = "no"
  /\ cancelled' = cancelled \union Known
  /\ stop' = "closed"
  /\ UNCHANGED <<phase, request, queueVars, worker, post, active, client, fileVars,
                 announced, panicked>>
StopClose ==
  /\ stop = "no"
  /\ Q!Close
  /\ stop' = "closed"
  /\ UNCHANGED <<phase, request, cancelled, worker, post, active, client, fileVars,
                 announced, panicked>>

\* Every job in the map, finished ones included.
StopCancel ==
  /\ stop = "closed"
  /\ cancelled' = cancelled \union Known
  /\ stop' = "waiting"
  /\ UNCHANGED <<phase, request, queueVars, worker, post, active, client, fileVars,
                 announced, panicked>>

StopReturn ==
  /\ stop = "waiting"
  /\ \/ active = 0 /\ stop' = "joined"
     \/ stop' = "timedOut"
  /\ UNCHANGED <<phase, request, cancelled, queueVars, worker, post, active, client,
                 fileVars, announced, panicked>>
-----------------------------------------------------------------------------
WorkerStep == \/ WorkerPop \/ WorkerLeave \/ WorkerStart \/ WorkerResolve
              \/ ExpandTrack \/ ExpandEnd
              \/ WorkerDownload \/ WorkerStream \/ WorkerEmit \/ WorkerPanic

PostStep(j) == PostTag(j) \/ PostWork(j) \/ PostCheck(j) \/ PostMove(j)
               \/ PostEmit(j) \/ PostPanic(j)

ClientCall(c) == \/ Enqueue(c)
                 \/ \E j \in Jobs : \/ CancelFinished(c, j) \/ CancelQueued(c, j)
                                    \/ CancelRunning(c, j) \/ RetryRead(c, j)
                                    \/ Prioritize(c, j)

ClientFinish(c) == CancelContext(c) \/ CancelEmit(c) \/ RetryEnqueue(c)

StopStep == StopCancel \/ StopReturn

Next == \/ WorkerStep
        \/ \E j \in Jobs : PostStep(j)
        \/ \E c \in Clients : ClientCall(c) \/ ClientFinish(c)
        \/ StopClose \/ StopStep

\* Goroutines that can run do; the network, file and tool calls return. Nobody
\* is obliged to call the manager, but a call that started finishes.
Fairness == /\ WF_vars(WorkerStep)
            /\ \A j \in Jobs : WF_vars(PostStep(j))
            /\ \A c \in Clients : WF_vars(ClientFinish(c))
            /\ WF_vars(StopStep)

Spec == Init /\ [][Next]_vars /\ Fairness
-----------------------------------------------------------------------------
WorkerAts == {"pop", "gone", "start", "resolve", "expand", "download", "stream", "emit"}
PostAts == {"none", "tag", "work", "check", "move", "emit"}
ClientAts == {"idle", "cancelQueued", "cancelRunning", "emit", "retry"}
StopAts == {"no", "closed", "waiting", "joined", "timedOut"}

TypeOK ==
  /\ phase \in [Jobs -> L!Phase \union {"none"}]
  /\ request \in [Jobs -> Prios \union {NoRequest}]
  /\ cancelled \subseteq Jobs
  /\ Q!QueueTypeOK
  /\ worker \in [at : WorkerAts, job : Jobs \union {NoJob}]
  /\ post \in [Jobs -> PostAts]
  /\ active \in Int
  /\ client \in [Clients -> [at : ClientAts, job : Jobs \union {NoJob},
                            prio : Prios \union {NoRequest}]]
  /\ stop \in StopAts
  /\ tmp \subseteq Jobs /\ left \subseteq Jobs /\ final \subseteq Jobs
  /\ announced \subseteq Jobs /\ panicked \subseteq Jobs

InQueue(j) == Q!Queued(j)
AtWorker(j) == worker.job = j
AtPost(j) == post[j] # "none"

\* A job is in one place only: the queue, the worker or its post-process
\* goroutine. No job is ever exported by two goroutines, however Cancel,
\* Prioritize and Retry race with Pop (manager.go:333-343, pq.go:101-144).
OneOwner == \A j \in Jobs : /\ ~(InQueue(j) /\ AtWorker(j))
                           /\ ~(InQueue(j) /\ AtPost(j))
                           /\ ~(AtWorker(j) /\ AtPost(j))

\* A listed job that has not ended is owned by somebody who will end it: a
\* lost job would show in the list as running for ever and could be neither
\* cancelled nor retried (manager.go:333-343, 350-372).
NobodyStranded ==
  \A j \in Known : ~IsTerminal(phase[j]) => InQueue(j) \/ AtWorker(j) \/ AtPost(j)

\* The queue only holds jobs the client can see and that have not begun:
\* a cancelled or forgotten job never runs (manager.go:326-340).
QueueHoldsQueued ==
  \A j \in Jobs : InQueue(j) => j \in Known /\ phase[j] = "queued"

\* Once Stop has walked the map, no unfinished job has a live context, whatever
\* Enqueue, Retry or an expansion pushed while Stop ran: Close comes first and
\* Enqueue holds m.mu from its push to its map entry (manager.go:193-201, 217-223).
StopCancelsAll ==
  stop \in {"waiting", "joined", "timedOut"} =>
    \A j \in Known : ~IsTerminal(phase[j]) => j \in cancelled

\* When Stop reports that the work ended, nothing is left that could still
\* write a file: no worker, no post-process goroutine, no queued job, and every
\* listed job has ended (manager.go:217-234, the Add at 675 precedes the Done).
StopJoinsAll ==
  stop = "joined" =>
    /\ worker.at = "gone" /\ queue = {}
    /\ \A j \in Jobs : ~AtPost(j) /\ (j \in Known => IsTerminal(phase[j]))

\* A job reported cancelled has put no track at its destination: cancellation is
\* tested before the move and never after it (manager.go:907-923, 1225-1239). Its
\* lyrics may be there: CancelledLeavesNothing.
CancelledUnpublished == \A j \in Jobs : phase[j] = "cancelled" => j \notin final

\* A temp file has a goroutine that will move or remove it, however the job is
\* cancelled, fails, or is retried; only a panic may strand one (manager.go:738-755,
\* 907-920). It does not speak of the files in "left", which the code leaves: a
\* failed ffmpeg's (803-808, 1020-1024), lyrics (892-899) and kept originals (1013).
TempHasOwner ==
  \A j \in tmp : AtWorker(j) \/ AtPost(j) \/ j \in panicked

\* However Cancel, Retry, Prioritize, the worker and post-processing interleave,
\* every job has one owner until it ends, publishes nothing once it is cancelled,
\* and strands no temp file but those of "left" (manager.go:326-372, 651-755, 907-923).
JobsAreSafe == /\ TypeOK /\ OneOwner /\ NobodyStranded /\ QueueHoldsQueued
               /\ CancelledUnpublished /\ TempHasOwner

\* "cancelled during post-processing: leave nothing behind" (manager.go:907).
\* Expected to fail: the lyrics beside the track are written before (892-899), and a
\* conversion that was killed leaves its partial file (1020-1023).
CancelledLeavesNothing ==
  [][\A j \in Jobs : post[j] = "check" /\ phase'[j] = "cancelled"
                       => j \notin tmp' \union left' \union final']_vars

\* Stop reaches every job, also those that slip in while it runs, and what it
\* reports as ended has ended (manager.go:217-234).
StopIsSafe == StopCancelsAll /\ StopJoinsAll

\* "A job that reaches it never leaves it" (job.go:36): no late step of any
\* goroutine changes a finished job's phase.
TerminalAbsorbing ==
  [][\A j \in Jobs : IsTerminal(phase[j]) => phase'[j] = phase[j]]_vars

\* Stop's work does end: the closed queue drains, its jobs find their context
\* cancelled, and the wait group reaches zero (manager.go:217-249, 541-545).
StopEndsWork == stop = "waiting" ~> active = 0

\* The client is told how every job ended, unless its goroutine panicked.
OutcomeAnnounced ==
  \A j \in Jobs : IsTerminal(phase[j]) ~> j \in announced \union panicked

\* Every job follows the life the client was promised and ends or is replaced
\* by its tracks.
ImplementsJobLifecycle == L!LifeSpec
-----------------------------------------------------------------------------
(***************************************************************************)
(* Proofs, for any finite set of jobs, any handlers, any priorities and    *)
(* any number of panics.                                                   *)
(*                                                                         *)
(* The inductive invariant IInv adds to the checked invariants what links  *)
(* a job's phase to the goroutine that owns it: a queued job is listed and *)
(* has phase "queued"; the job at the worker or in post-processing has not *)
(* ended, unless its last event is all that is left to send; a job that    *)
(* never was enqueued is nowhere; a published job is done; a temp file's   *)
(* owner has yet to move it; and the wait group is the number of running   *)
(* goroutines. Without the last, "active = 0" would say nothing of them.   *)
(***************************************************************************)

Run(j) == phase[j] \in L!RunPhase
Ended(j) == phase[j] \in L!TerminalPhase

QueueInv == /\ Q!QueueTypeOK
            /\ \A e, f \in queue : e.id = f.id => e = f

\* The queue, seen as the set of jobs that are in it.
Waiters == {j \in Jobs : InQueue(j)}

\* A job that was never enqueued is nowhere.
FreshNowhere ==
  \A j \in Jobs : phase[j] = "none" =>
    /\ request[j] = NoRequest /\ j \notin tmp \union final
    /\ j \notin Waiters /\ ~AtWorker(j) /\ ~AtPost(j)

\* OneOwner, QueueHoldsQueued and NobodyStranded, said of the set Waiters.
Apart ==
  \A j \in Jobs : ~(AtWorker(j) /\ AtPost(j)) /\ (j \in Waiters => ~AtWorker(j) /\ ~AtPost(j))
HeldQueued == \A j \in Waiters : request[j] # NoRequest /\ phase[j] = "queued"
Owned == \A j \in Jobs : request[j] # NoRequest =>
           Ended(j) \/ j \in Waiters \/ AtWorker(j) \/ AtPost(j)

\* What the phase of a job says of the goroutine that owns it.
WorkerPhase ==
  /\ worker.job = NoJob <=> worker.at \in {"pop", "gone"}
  /\ \A j \in Jobs : AtWorker(j) => IF worker.at = "emit" THEN Ended(j)
                                    ELSE Run(j) /\ request[j] # NoRequest
  /\ worker.at = "start" => phase[worker.job] = "queued"
  /\ worker.at \in {"resolve", "expand"} => phase[worker.job] = "resolving"
PostPhase ==
  \A j \in Jobs : AtPost(j) => IF post[j] = "emit" THEN Ended(j)
                                ELSE Run(j) /\ request[j] # NoRequest

FinalDone == \A j \in final : phase[j] = "done"

TempOwned ==
  \A j \in tmp : \/ j \in panicked
                 \/ AtWorker(j) /\ worker.at = "stream"
                 \/ post[j] \in {"tag", "work", "check", "move"}

ClientHolds ==
  \A c \in Clients : /\ client[c].at # "idle" => client[c].job \in Jobs
                     /\ client[c].at = "retry" => client[c].prio \in Prios

\* The parts that speak of jobs one by one.
JobInv == /\ FreshNowhere /\ Apart /\ HeldQueued /\ Owned
          /\ WorkerPhase /\ PostPhase /\ FinalDone /\ TempOwned
          /\ ClientHolds

StopInv == /\ stop # "no" => closed
           /\ StopCancelsAll
           /\ worker.at = "gone" => closed /\ queue = {}
           /\ stop = "joined" => active = 0

Posts == {j \in Jobs : AtPost(j)}

\* The wait group counts the worker and the post-process goroutines.
Counted == active = Cardinality(Posts) + IF worker.at = "gone" THEN 0 ELSE 1

IInv == TypeOK /\ QueueInv /\ JobInv /\ StopInv /\ Counted
-----------------------------------------------------------------------------
(* What the queue's operations do to the set of jobs that are in it. *)

LEMMA MaxSeqType == MaxSeq \in Nat
BY ConstantsAssumption, FS_CardinalityType DEF MaxSeq

LEMMA PushFact ==
  ASSUME QueueInv, NEW j \in Jobs, NEW prio \in Prios, Q!Push(j, prio)
  PROVE  /\ QueueInv' /\ ~closed /\ closed' = closed /\ queue' # {}
         /\ j \notin Waiters /\ Waiters' = Waiters \union {j}
<1> DEFINE e == [id |-> j, prio |-> prio, seq |-> seq + 1]
<1>1. queue' = queue \union {e} /\ seq' = seq + 1 /\ ~closed /\ closed' = closed /\ ~InQueue(j)
  BY DEF Q!Push, InQueue, QueueInv, Q!QueueTypeOK
<1>2. e \in Q!Entry /\ seq' \in 0..MaxSeq
  BY <1>1, MaxSeqType DEF Q!Push, Q!Entry, QueueInv, Q!QueueTypeOK
<1>3. Q!QueueTypeOK'
  BY <1>1, <1>2 DEF QueueInv, Q!QueueTypeOK
<1>4. \A f \in queue : f.id # e.id
  BY <1>1 DEF InQueue, Q!Queued
<1>5. QueueInv'
  BY <1>1, <1>3, <1>4 DEF QueueInv
<1>6. ASSUME NEW k \in Jobs PROVE InQueue(k)' <=> InQueue(k) \/ k = j
  <2>1. e.id = j
    OBVIOUS
  <2> HIDE DEF e
  <2> QED BY <1>1, <2>1 DEF InQueue, Q!Queued
<1> QED BY <1>1, <1>5, <1>6 DEF Waiters

LEMMA TakeOutFact ==
  ASSUME QueueInv, NEW e \in queue, queue' = queue \ {e}, UNCHANGED <<seq, closed>>
  PROVE  /\ QueueInv' /\ closed' = closed
         /\ e.id \in Waiters /\ Waiters' = Waiters \ {e.id}
<1>1. e.id \in Jobs /\ InQueue(e.id)
  BY DEF QueueInv, Q!QueueTypeOK, Q!Entry, InQueue, Q!Queued
<1>2. QueueInv'
  BY DEF QueueInv, Q!QueueTypeOK
<1> QED BY <1>1, <1>2 DEF QueueInv, Waiters, InQueue, Q!Queued

LEMMA UpdateFact ==
  ASSUME QueueInv, NEW j \in Jobs, NEW prio \in Prios, Q!Update(j, prio)
  PROVE  QueueInv' /\ closed' = closed /\ queue # {} /\ Waiters' = Waiters
<1>1. PICK e \in queue : /\ e.id = j
                         /\ queue' = (queue \ {e}) \union {[e EXCEPT !.prio = prio]}
                         /\ UNCHANGED <<seq, closed>>
  BY DEF Q!Update
<1> DEFINE g == [e EXCEPT !.prio = prio]
<1>2. e \in Q!Entry /\ g \in Q!Entry /\ g.id = e.id
  BY DEF QueueInv, Q!QueueTypeOK, Q!Entry
<1>3. QueueInv'
  BY <1>1, <1>2 DEF QueueInv, Q!QueueTypeOK
<1>4. ASSUME NEW k \in Jobs PROVE InQueue(k)' <=> InQueue(k)
  BY <1>1, <1>2 DEF InQueue, Q!Queued
<1> QED BY <1>1, <1>3, <1>4 DEF Waiters

LEMMA SameQueueFact ==
  ASSUME QueueInv, UNCHANGED queueVars
  PROVE  /\ QueueInv' /\ queue' = queue /\ closed' = closed /\ Waiters' = Waiters
BY DEF QueueInv, Q!QueueTypeOK, queueVars, Waiters, InQueue, Q!Queued

LEMMA CloseFact ==
  ASSUME QueueInv, Q!Close
  PROVE  /\ QueueInv' /\ queue' = queue /\ closed' /\ Waiters' = Waiters
BY DEF QueueInv, Q!QueueTypeOK, Q!Close, Waiters, InQueue, Q!Queued
-----------------------------------------------------------------------------
(* The two ways a phase changes. *)

LEMMA PhaseSets ==
  /\ L!RunPhase \intersect L!TerminalPhase = {}
  /\ "none" \notin L!RunPhase \union L!TerminalPhase
  /\ L!Phase = L!RunPhase \union L!TerminalPhase
  /\ \A p : IsTerminal(p) <=> p \in L!TerminalPhase
BY DEF L!RunPhase, L!TerminalPhase, L!Phase, IsTerminal, L!IsTerminal

LEMMA AdvanceFact ==
  ASSUME TypeOK, NEW j \in Jobs, Run(j), NEW to \in L!Phase, Advance(j, to)
  PROVE  /\ phase' \in [Jobs -> L!Phase \union {"none"}]
         /\ phase'[j] = to \/ (Run(j)' /\ to \in L!RunPhase)
         /\ phase[j] = "queued" => phase'[j] = to
         /\ \A k \in Jobs \ {j} : phase'[k] = phase[k]
<1>1. to \in L!TerminalPhase => phase' = [phase EXCEPT ![j] = to]
  BY DEF Advance, L!CanTransition, Run, L!IsTerminal
<1>2. phase[j] = "queued" => phase' = [phase EXCEPT ![j] = to]
  BY PhaseSets DEF Advance, L!CanTransition, L!rank, L!RunPhase, L!IsTerminal
<1> QED BY <1>1, <1>2, PhaseSets DEF Advance, TypeOK, Run

LEMMA FailFact ==
  ASSUME TypeOK, NEW j \in Jobs, Fail(j)
  PROVE  /\ phase' \in [Jobs -> L!Phase \union {"none"}]
         /\ Ended(j)'
         /\ Ended(j) => phase' = phase
         /\ Run(j) => AfterFail(j) = "emit" /\ phase'[j] \in {"failed", "cancelled"}
         /\ \A k \in Jobs \ {j} : phase'[k] = phase[k]
<1>1. CASE Ended(j)
  BY <1>1, PhaseSets DEF Fail, Ended, Run, TypeOK
<1>2. CASE ~Ended(j)
  <2>1. phase' = [phase EXCEPT ![j] = IF j \in cancelled THEN "cancelled" ELSE "failed"]
    BY <1>2, PhaseSets DEF Fail, Ended
  <2>2. {"failed", "cancelled"} \subseteq L!TerminalPhase
    BY DEF L!TerminalPhase
  <2> QED BY <1>2, <2>1, <2>2, PhaseSets DEF AfterFail, Ended, TypeOK
<1> QED BY <1>1, <1>2
-----------------------------------------------------------------------------
LEMMA WorkerJob ==
  ASSUME TypeOK, WorkerPhase, worker.at \notin {"pop", "gone"}
  PROVE  worker.job \in Jobs /\ AtWorker(worker.job)
BY ConstantsAssumption DEF TypeOK, WorkerPhase, AtWorker

LEMMA AddStep ==
  ASSUME IInv, NEW j \in Fresh, NEW prio \in Prios, Add(j, prio),
         UNCHANGED <<cancelled, worker, post, active, stop, fileVars, announced, panicked>>,
         client' = client \/ \E c \in Clients : ClientDone(c)
  PROVE  IInv'
<1>1. /\ QueueInv' /\ ~closed /\ closed' = closed
      /\ Waiters' = Waiters \union {j} /\ j \notin Waiters
      /\ phase' = [phase EXCEPT ![j] = "queued"]
      /\ request' = [request EXCEPT ![j] = prio]
      /\ j \in Jobs /\ phase[j] = "none" /\ prio # NoRequest
  BY PushFact, ConstantsAssumption DEF IInv, Add, Fresh
<1>2. /\ client' \in [Clients -> [at : ClientAts, job : Jobs \union {NoJob},
                                 prio : Prios \union {NoRequest}]]
      /\ ClientHolds'
  BY DEF IInv, TypeOK, JobInv, ClientHolds, ClientDone, Idle, ClientAts
<1>3. TypeOK'
  BY <1>1, <1>2 DEF IInv, TypeOK, QueueInv, fileVars, L!Phase, L!RunPhase
<1>4. JobInv'
  BY <1>1, <1>2, PhaseSets
  DEF IInv, TypeOK, fileVars, JobInv, FreshNowhere, Apart, HeldQueued, Owned, WorkerPhase,
      PostPhase, FinalDone, TempOwned, AtWorker, AtPost, Run, Ended, L!RunPhase
<1>5. StopInv'
  BY <1>1 DEF IInv, StopInv, StopCancelsAll
<1>6. Counted'
  BY DEF IInv, Counted, Posts, AtPost
<1> QED BY <1>1, <1>3, <1>4, <1>5, <1>6 DEF IInv

LEMMA ClientStep ==
  ASSUME IInv, NEW c \in Clients, ClientCall(c) \/ ClientFinish(c)
  PROVE  IInv'
<1> USE DEF IInv, fileVars
<1>1. CASE Enqueue(c)
  BY <1>1, AddStep DEF Enqueue
<1>2. ASSUME NEW j \in Jobs, CancelFinished(c, j) PROVE IInv'
  <2>1. /\ QueueInv' /\ queue' = queue /\ closed' = closed /\ Waiters' = Waiters
        /\ Ended(j) /\ request' = [request EXCEPT ![j] = NoRequest]
        /\ UNCHANGED <<phase, cancelled, worker, post, active, client, stop, tmp, left, final,
                       announced, panicked>>
    BY <1>2, SameQueueFact, PhaseSets DEF CancelFinished, Ended
  <2>2. TypeOK'
    BY <2>1 DEF TypeOK, QueueInv
  <2>3. JobInv'
    BY <2>1, PhaseSets
    DEF TypeOK, JobInv, FreshNowhere, Apart, HeldQueued, Owned, WorkerPhase, PostPhase,
        FinalDone, TempOwned, ClientHolds, AtWorker, AtPost, Run, Ended, L!RunPhase
  <2>4. StopInv'
    BY <2>1 DEF TypeOK, StopInv, StopCancelsAll, Known
  <2>5. Counted'
    BY <2>1 DEF Counted, Posts, AtPost
  <2> QED BY <2>1, <2>2, <2>3, <2>4, <2>5
<1>3. ASSUME NEW j \in Jobs, CancelQueued(c, j) PROVE IInv'
  <2>1. PICK e \in queue : e.id = j /\ queue' = queue \ {e} /\ UNCHANGED <<seq, closed>>
    BY <1>3 DEF CancelQueued, Q!Remove
  <2>2. /\ QueueInv' /\ closed' = closed /\ j \in Waiters /\ Waiters' = Waiters \ {j}
        /\ (queue = {} => queue' = {})
        /\ phase' = [phase EXCEPT ![j] = "cancelled"]
        /\ UNCHANGED <<request, cancelled, worker, post, active, stop, tmp, left, final,
                       announced, panicked>>
    BY <1>3, <2>1, TakeOutFact DEF CancelQueued
  <2>3. /\ client' \in [Clients -> [at : ClientAts, job : Jobs \union {NoJob},
                                   prio : Prios \union {NoRequest}]]
        /\ ClientHolds'
    BY <1>3 DEF CancelQueued, ClientGo, TypeOK, ClientAts, JobInv, ClientHolds
  <2>4. TypeOK'
    BY <2>2, <2>3 DEF TypeOK, QueueInv, L!Phase, L!TerminalPhase
  <2>5. JobInv'
    BY <2>2, <2>3, PhaseSets
    DEF TypeOK, JobInv, FreshNowhere, Apart, HeldQueued, Owned, WorkerPhase, PostPhase,
        FinalDone, TempOwned, AtWorker, AtPost, Run, Ended, L!RunPhase, L!TerminalPhase
  <2>6. StopInv'
    BY <2>2, PhaseSets DEF TypeOK, StopInv, StopCancelsAll, Known, L!TerminalPhase
  <2>7. Counted'
    BY <2>2 DEF Counted, Posts, AtPost
  <2> QED BY <2>2, <2>4, <2>5, <2>6, <2>7
<1>4. ASSUME NEW j \in Jobs, CancelRunning(c, j) \/ RetryRead(c, j) PROVE IInv'
  <2>1. /\ QueueInv' /\ queue' = queue /\ closed' = closed /\ Waiters' = Waiters
        /\ UNCHANGED <<phase, request, cancelled, worker, post, active, stop, tmp, left, final,
                       announced, panicked>>
    BY <1>4, SameQueueFact DEF CancelRunning, RetryRead
  <2>2. /\ client' \in [Clients -> [at : ClientAts, job : Jobs \union {NoJob},
                                   prio : Prios \union {NoRequest}]]
        /\ ClientHolds'
    BY <1>4 DEF CancelRunning, RetryRead, ClientGo, TypeOK, ClientAts, JobInv, ClientHolds, Known
  <2>3. TypeOK'
    BY <2>1, <2>2 DEF TypeOK, QueueInv
  <2>4. JobInv'
    BY <2>1, <2>2
    DEF JobInv, FreshNowhere, Apart, HeldQueued, Owned, WorkerPhase, PostPhase, FinalDone,
        TempOwned, AtWorker, AtPost, Run, Ended
  <2>5. StopInv' /\ Counted'
    BY <2>1 DEF StopInv, StopCancelsAll, Known, Counted, Posts, AtPost
  <2> QED BY <2>1, <2>3, <2>4, <2>5
<1>5. CASE CancelContext(c) \/ CancelEmit(c)
  <2>1. /\ QueueInv' /\ queue' = queue /\ closed' = closed /\ Waiters' = Waiters
        /\ cancelled \subseteq cancelled'
        /\ UNCHANGED <<phase, request, worker, post, active, stop, tmp, left, final, panicked>>
    BY <1>5, SameQueueFact DEF CancelContext, CancelEmit
  <2>2. /\ client' \in [Clients -> [at : ClientAts, job : Jobs \union {NoJob},
                                   prio : Prios \union {NoRequest}]]
        /\ ClientHolds'
    BY <1>5 DEF CancelContext, CancelEmit, ClientGo, ClientDone, Idle, TypeOK, ClientAts, JobInv,
                ClientHolds
  <2>3. cancelled' \subseteq Jobs /\ announced' \subseteq Jobs
    BY <1>5 DEF CancelContext, CancelEmit, TypeOK, JobInv, ClientHolds
  <2>4. TypeOK'
    BY <2>1, <2>2, <2>3 DEF TypeOK, QueueInv
  <2>5. JobInv'
    BY <2>1, <2>2
    DEF JobInv, FreshNowhere, Apart, HeldQueued, Owned, WorkerPhase, PostPhase, FinalDone,
        TempOwned, AtWorker, AtPost, Run, Ended
  <2>6. StopInv' /\ Counted'
    BY <2>1 DEF StopInv, StopCancelsAll, Known, Counted, Posts, AtPost
  <2> QED BY <2>1, <2>4, <2>5, <2>6
<1>6. CASE RetryEnqueue(c)
  <2>1. CASE \E j \in Fresh : Add(j, client[c].prio)
    BY <1>6, <2>1, AddStep DEF RetryEnqueue, JobInv, ClientHolds
  <2>2. CASE UNCHANGED <<phase, request, queueVars>>
    <3>1. /\ QueueInv' /\ queue' = queue /\ closed' = closed /\ Waiters' = Waiters
          /\ UNCHANGED <<phase, request, cancelled, worker, post, active, stop, tmp, left, final,
                         announced, panicked>>
      BY <1>6, <2>2, SameQueueFact DEF RetryEnqueue
    <3>2. /\ client' \in [Clients -> [at : ClientAts, job : Jobs \union {NoJob},
                                     prio : Prios \union {NoRequest}]]
          /\ ClientHolds'
      BY <1>6 DEF RetryEnqueue, ClientDone, Idle, TypeOK, ClientAts, JobInv, ClientHolds
    <3>3. TypeOK'
      BY <3>1, <3>2 DEF TypeOK, QueueInv
    <3>4. JobInv'
      BY <3>1, <3>2
      DEF JobInv, FreshNowhere, Apart, HeldQueued, Owned, WorkerPhase, PostPhase, FinalDone,
          TempOwned, AtWorker, AtPost, Run, Ended
    <3>5. StopInv' /\ Counted'
      BY <3>1 DEF StopInv, StopCancelsAll, Known, Counted, Posts, AtPost
    <3> QED BY <3>1, <3>3, <3>4, <3>5
  <2> QED BY <1>6, <2>1, <2>2 DEF RetryEnqueue
<1>7. ASSUME NEW j \in Jobs, Prioritize(c, j) PROVE IInv'
  <2>1. PICK prio \in Prios : Q!Update(j, prio)
    BY <1>7 DEF Prioritize
  <2>2. /\ QueueInv' /\ closed' = closed /\ queue # {} /\ Waiters' = Waiters
        /\ UNCHANGED <<phase, request, cancelled, worker, post, active, client, stop, tmp,
                       left, final, announced, panicked>>
    BY <1>7, <2>1, UpdateFact DEF Prioritize
  <2>3. TypeOK'
    BY <2>2 DEF TypeOK, QueueInv
  <2>4. JobInv'
    BY <2>2
    DEF JobInv, FreshNowhere, Apart, HeldQueued, Owned, WorkerPhase, PostPhase, FinalDone,
        TempOwned, ClientHolds, AtWorker, AtPost, Run, Ended
  <2>5. StopInv' /\ Counted'
    BY <2>2 DEF StopInv, StopCancelsAll, Known, Counted, Posts, AtPost
  <2> QED BY <2>2, <2>3, <2>4, <2>5
<1> QED BY <1>1, <1>2, <1>3, <1>4, <1>5, <1>6, <1>7 DEF ClientCall, ClientFinish
-----------------------------------------------------------------------------
(* The worker. Its actions fall into a few kinds of step. *)

LEMMA PostsCount ==
  /\ IsFiniteSet(Posts) /\ Cardinality(Posts) \in Nat
  /\ IsFiniteSet(Posts') /\ Cardinality(Posts') \in Nat
<1>1. IsFiniteSet(Posts) /\ IsFiniteSet(Posts')
  BY ConstantsAssumption, FS_Subset DEF Posts
<1> QED BY <1>1, FS_CardinalityType

\* The worker goes on with its job, or is about to report that it ended.
LEMMA WorkerGoStep ==
  ASSUME IInv, worker.at \notin {"pop", "gone", "emit"},
         NEW at \in WorkerAts \ {"pop", "gone"}, WorkerGo(at),
         phase' \in [Jobs -> L!Phase \union {"none"}],
         \A k \in Jobs \ {worker.job} : phase'[k] = phase[k],
         IF at = "emit" THEN Ended(worker.job)' ELSE Run(worker.job)',
         at # "start", at \in {"resolve", "expand"} => phase'[worker.job] = "resolving",
         tmp' \subseteq tmp \union {worker.job}, left' \subseteq Jobs,
         worker.job \in tmp' => at = "stream" \/ worker.job \in panicked',
         panicked \subseteq panicked', panicked' \subseteq Jobs,
         UNCHANGED <<request, cancelled, queueVars, post, active, client, stop, final,
                     announced>>
  PROVE  IInv'
<1> USE DEF IInv
<1> DEFINE w == worker.job
<1>1. w \in Jobs /\ AtWorker(w) /\ worker'.at = at /\ worker'.job = w
      /\ worker' \in [at : WorkerAts, job : Jobs \union {NoJob}]
  BY WorkerJob DEF WorkerGo, TypeOK, JobInv
<1>2. /\ QueueInv' /\ queue' = queue /\ closed' = closed /\ Waiters' = Waiters
      /\ Waiters \subseteq Jobs
  BY SameQueueFact DEF Waiters
<1> HIDE DEF w
<1>3. TypeOK'
  BY <1>1, <1>2 DEF TypeOK, QueueInv, w
<1>4. JobInv'
  <2> USE <1>1, <1>2, PhaseSets DEF w, JobInv, AtWorker, AtPost, Run, Ended
  <2>1. FreshNowhere'
    <3>1. phase'[worker.job] # "none"
      OBVIOUS
    <3> QED BY <3>1 DEF FreshNowhere
  <2>7. Apart' /\ HeldQueued'
    BY DEF Apart, HeldQueued
  <2>8. Owned'
    BY DEF Owned
  <2>2. WorkerPhase'
    BY ConstantsAssumption DEF WorkerPhase
  <2>3. PostPhase'
    BY DEF PostPhase, Apart
  <2>4. FinalDone'
    BY DEF FinalDone, WorkerPhase, TypeOK, L!RunPhase
  <2>5. TempOwned'
    BY DEF TempOwned, TypeOK
  <2>6. ClientHolds'
    BY DEF ClientHolds
  <2> QED BY <2>1, <2>2, <2>3, <2>4, <2>5, <2>6, <2>7, <2>8
<1>5. StopInv'
  BY <1>1, <1>2, PhaseSets DEF StopInv, StopCancelsAll, Known, JobInv, WorkerPhase, Run, TypeOK, w
<1>6. Counted'
  BY <1>1 DEF Counted, Posts, AtPost
<1> QED BY <1>2, <1>3, <1>4, <1>5, <1>6

\* The worker is rid of its job, which has ended or is no longer listed.
LEMMA WorkerIdleStep ==
  ASSUME IInv, worker.at \in {"emit", "expand"}, WorkerIdle,
         \/ worker.at = "emit" /\ UNCHANGED request
         \/ request' = [request EXCEPT ![worker.job] = NoRequest],
         announced' \subseteq Jobs, panicked \subseteq panicked', panicked' \subseteq Jobs,
         UNCHANGED <<phase, cancelled, queueVars, post, active, client, stop, fileVars>>
  PROVE  IInv'
<1> USE DEF IInv, fileVars
<1>1. /\ worker.job \in Jobs /\ AtWorker(worker.job)
      /\ worker'.at = "pop" /\ worker'.job = NoJob
      /\ worker' \in [at : WorkerAts, job : Jobs \union {NoJob}]
      /\ request' \in [Jobs -> Prios \union {NoRequest}]
  BY WorkerJob DEF WorkerIdle, TypeOK, JobInv, WorkerAts
<1>2. /\ QueueInv' /\ queue' = queue /\ closed' = closed /\ Waiters' = Waiters
      /\ Waiters \subseteq Jobs
  BY SameQueueFact DEF Waiters
<1>3. TypeOK'
  BY <1>1, <1>2 DEF TypeOK, QueueInv
<1>4. JobInv'
  <2> USE <1>1, <1>2 DEF JobInv, AtWorker, AtPost, Run, Ended
  <2>1. FreshNowhere' /\ Apart' /\ HeldQueued' /\ PostPhase' /\ FinalDone' /\ ClientHolds'
    BY ConstantsAssumption
    DEF FreshNowhere, Apart, HeldQueued, PostPhase, FinalDone, ClientHolds, TypeOK
  <2>2. Owned'
    BY DEF Owned, WorkerPhase, TypeOK
  <2>3. WorkerPhase'
    BY ConstantsAssumption DEF WorkerPhase
  <2>4. TempOwned'
    BY DEF TempOwned
  <2> QED BY <2>1, <2>2, <2>3, <2>4
<1>5. StopInv'
  BY <1>1, <1>2 DEF StopInv, StopCancelsAll, Known, TypeOK
<1>6. Counted'
  BY <1>1 DEF Counted, Posts, AtPost
<1> QED BY <1>2, <1>3, <1>4, <1>5, <1>6

\* The job passes to a post-process goroutine, which is counted.
LEMMA HandOverStep ==
  ASSUME IInv, worker.at \in {"download", "stream"}, HandOver,
         tmp' \in {tmp, tmp \union {worker.job}},
         UNCHANGED <<cancelled, client, stop, left, final, announced, panicked>>
  PROVE  IInv'
<1> USE DEF IInv
<1>1. /\ worker.job \in Jobs /\ AtWorker(worker.job) /\ ~AtPost(worker.job)
      /\ worker'.at = "pop" /\ worker'.job = NoJob
      /\ worker' \in [at : WorkerAts, job : Jobs \union {NoJob}]
      /\ post' = [post EXCEPT ![worker.job] = "tag"] /\ active' = active + 1
      /\ UNCHANGED <<phase, request, queueVars>>
  BY WorkerJob DEF HandOver, WorkerIdle, PostGo, TypeOK, JobInv, WorkerAts, Apart
<1>2. QueueInv' /\ queue' = queue /\ closed' = closed /\ Waiters' = Waiters
  BY <1>1, SameQueueFact
<1>3. TypeOK'
  BY <1>1, <1>2 DEF TypeOK, QueueInv, PostAts
<1>4. JobInv'
  BY <1>1, <1>2, PhaseSets, ConstantsAssumption
  DEF TypeOK, JobInv, FreshNowhere, Apart, HeldQueued, Owned, WorkerPhase, PostPhase, FinalDone,
      TempOwned, ClientHolds, AtWorker, AtPost, Run, Ended
<1>5. Counted'
  <2>1. Posts' = Posts \union {worker.job} /\ worker.job \notin Posts
    BY <1>1 DEF Posts, AtPost, TypeOK
  <2>2. Cardinality(Posts') = Cardinality(Posts) + 1
    BY <2>1, PostsCount, FS_AddElement
  <2> QED BY <1>1, <2>2, PostsCount DEF Counted
<1>6. StopInv'
  <2>1. active >= 1
    BY PostsCount DEF Counted
  <2> QED BY <1>1, <1>2, <2>1 DEF StopInv, StopCancelsAll, Known
<1> QED BY <1>2, <1>3, <1>4, <1>5, <1>6

\* fail, wherever the worker is: the job has ended after it.
LEMMA WorkerFailStep ==
  ASSUME IInv, worker.at \notin {"pop", "gone"}, WorkerFail,
         tmp' \in {tmp, tmp \ {worker.job}}, left' \subseteq Jobs,
         \/ worker.at # "stream"
         \/ worker.job \notin tmp'
         \/ worker.job \in panicked',
         panicked \subseteq panicked', panicked' \subseteq Jobs,
         worker.at = "emit" => tmp' = tmp /\ left' = left,
         UNCHANGED <<cancelled, client, stop, final, announced>>
  PROVE  IInv'
<1>1. worker.job \in Jobs /\ AtWorker(worker.job) /\ TypeOK /\ Fail(worker.job)
  BY WorkerJob DEF IInv, JobInv, WorkerFail
<1>2. CASE worker.at = "emit"
  <2>1. Ended(worker.job)
    BY <1>1, <1>2 DEF IInv, JobInv, WorkerPhase
  <2>2. phase' = phase /\ AfterFail(worker.job) = "over"
    BY <1>1, <2>1, FailFact, PhaseSets DEF AfterFail, Ended
  <2>3. WorkerIdle /\ UNCHANGED <<phase, request, queueVars, post, active>>
    BY <2>2 DEF WorkerFail
  <2> QED BY <1>1, <1>2, <2>3, WorkerIdleStep DEF TypeOK, fileVars
<1>3. CASE worker.at # "emit"
  <2>1. Run(worker.job)
    BY <1>1, <1>3 DEF IInv, JobInv, WorkerPhase
  <2>2. /\ WorkerGo("emit") /\ Ended(worker.job)'
        /\ phase' \in [Jobs -> L!Phase \union {"none"}]
        /\ \A k \in Jobs \ {worker.job} : phase'[k] = phase[k]
        /\ UNCHANGED <<request, queueVars, post, active>>
    <3>1. PICK w \in Jobs : w = worker.job
      BY <1>1
    <3>2. /\ phase' \in [Jobs -> L!Phase \union {"none"}]
          /\ Ended(w)' /\ AfterFail(w) = "emit"
          /\ \A k \in Jobs \ {w} : phase'[k] = phase[k]
      BY <1>1, <2>1, <3>1, FailFact
    <3>3. WorkerGo("emit") /\ UNCHANGED <<request, queueVars, post, active>>
      BY <3>1, <3>2 DEF WorkerFail
    <3>4. worker'.job = w
      BY <1>1, <3>1, <3>3 DEF WorkerGo, TypeOK
    <3> QED BY <3>1, <3>2, <3>3, <3>4 DEF Ended
  <2>3. worker.job \in tmp' => worker.job \in panicked'
    BY <1>1, <1>3 DEF IInv, JobInv, TempOwned, Apart, AtWorker, AtPost
  <2>4. worker.at \notin {"pop", "gone", "emit"} /\ "emit" \in WorkerAts \ {"pop", "gone"}
    BY <1>3 DEF WorkerAts
  <2> QED BY <2>2, <2>3, <2>4, WorkerGoStep
<1> QED BY <1>2, <1>3

\* A step that does not end the job's run before its last phase.
LEMMA WorkerAdvanceStep ==
  ASSUME IInv, worker.at \in {"start", "resolve"},
         NEW to, NEW at, WorkerAdvance(to, at),
         \/ to \in L!RunPhase /\ at = "download"
         \/ to = "resolving" /\ at = "resolve" /\ worker.at = "start"
         \/ to = "done" /\ at = "emit",
         UNCHANGED <<cancelled, client, stop, fileVars, announced, panicked>>
  PROVE  IInv'
<1>1. worker.job \in Jobs /\ AtWorker(worker.job) /\ TypeOK /\ Advance(worker.job, to)
  BY WorkerJob DEF IInv, JobInv, WorkerAdvance
<1>2. Run(worker.job) /\ (worker.job \in tmp => worker.job \in panicked)
  BY <1>1 DEF IInv, JobInv, WorkerPhase, TempOwned, Apart, AtPost
<1>3. to \in L!Phase /\ "done" \in L!TerminalPhase /\ "resolving" \in L!RunPhase
  BY PhaseSets DEF L!TerminalPhase, L!RunPhase
<1>4. /\ phase' \in [Jobs -> L!Phase \union {"none"}]
      /\ phase'[worker.job] = to \/ (Run(worker.job)' /\ to \in L!RunPhase)
      /\ worker.at = "start" => phase'[worker.job] = to
      /\ \A k \in Jobs \ {worker.job} : phase'[k] = phase[k]
  <2>1. PICK w \in Jobs : w = worker.job
    BY <1>1
  <2>2. /\ phase' \in [Jobs -> L!Phase \union {"none"}]
        /\ phase'[w] = to \/ (Run(w)' /\ to \in L!RunPhase)
        /\ phase[w] = "queued" => phase'[w] = to
        /\ \A k \in Jobs \ {w} : phase'[k] = phase[k]
    BY <1>1, <1>2, <1>3, <2>1, AdvanceFact
  <2>3. worker'.job = w
    BY <1>1, <2>1 DEF WorkerAdvance, WorkerGo, TypeOK
  <2>4. worker.at = "start" => phase[w] = "queued"
    BY <2>1 DEF IInv, JobInv, WorkerPhase
  <2> QED BY <2>1, <2>2, <2>3, <2>4 DEF Run
<1>5. IF at = "emit" THEN Ended(worker.job)' ELSE Run(worker.job)'
  <2>1. CASE to = "done" /\ at = "emit"
    BY <1>3, <1>4, <2>1, PhaseSets, <1>1 DEF Ended, WorkerAdvance, WorkerGo, TypeOK
  <2>2. CASE to \in L!RunPhase /\ at # "emit"
    BY <1>1, <1>4, <2>2 DEF Run, WorkerAdvance, WorkerGo, TypeOK
  <2> QED BY <1>3, <2>1, <2>2
<1>6. WorkerGo(at) /\ UNCHANGED <<request, queueVars, post, active>>
  BY DEF WorkerAdvance
<1>7. at \in WorkerAts \ {"pop", "gone"} /\ panicked \subseteq Jobs
  BY <1>1 DEF WorkerAts, TypeOK
<1> QED BY <1>1, <1>2, <1>4, <1>5, <1>6, <1>7, WorkerGoStep DEF fileVars, TypeOK

LEMMA WorkerStepInv ==
  ASSUME IInv, WorkerStep
  PROVE  IInv'
<1>0. /\ TypeOK /\ QueueInv /\ panicked \subseteq Jobs /\ announced \subseteq Jobs
      /\ tmp \subseteq Jobs /\ left \subseteq Jobs
  BY DEF IInv, TypeOK
<1>1. CASE WorkerPop
  <2>1. PICK e \in queue : Q!Pop(e) /\ worker' = [at |-> "start", job |-> e.id]
    BY <1>1 DEF WorkerPop
  <2>2. queue' = queue \ {e} /\ UNCHANGED <<seq, closed>>
    BY <2>1 DEF Q!Pop
  <2>3. /\ QueueInv' /\ closed' = closed /\ e.id \in Waiters /\ Waiters' = Waiters \ {e.id}
        /\ e.id \in Jobs /\ Waiters \subseteq Jobs
        /\ worker'.at = "start" /\ worker'.job = e.id
        /\ worker' \in [at : WorkerAts, job : Jobs \union {NoJob}]
        /\ worker.at = "pop" /\ worker.job = NoJob
        /\ UNCHANGED <<phase, request, cancelled, post, active, client, stop, tmp, left, final,
                       announced, panicked>>
    BY <1>0, <1>1, <2>1, <2>2, TakeOutFact
    DEF WorkerPop, WorkerAt, fileVars, Waiters, WorkerAts, IInv, JobInv, WorkerPhase
  <2>4. TypeOK'
    BY <1>0, <2>3 DEF TypeOK, QueueInv
  <2>5. JobInv'
    <3> USE <2>3 DEF IInv, JobInv, AtWorker, AtPost, Run, Ended
    <3>1. FreshNowhere' /\ PostPhase' /\ FinalDone' /\ ClientHolds' /\ TempOwned'
      BY DEF FreshNowhere, PostPhase, FinalDone, ClientHolds, TempOwned, HeldQueued
    <3>2. Apart' /\ HeldQueued' /\ Owned'
      BY ConstantsAssumption DEF Apart, HeldQueued, Owned
    <3>3. WorkerPhase'
      BY ConstantsAssumption DEF WorkerPhase, HeldQueued, L!RunPhase
    <3> QED BY <3>1, <3>2, <3>3
  <2>6. StopInv' /\ Counted'
    BY <2>3 DEF IInv, StopInv, StopCancelsAll, Known, Counted, Posts, AtPost
  <2> QED BY <2>3, <2>4, <2>5, <2>6 DEF IInv
<1>2. CASE WorkerLeave
  <2>1. /\ worker.at = "pop" /\ worker'.at = "gone" /\ worker'.job = NoJob /\ worker.job = NoJob
        /\ worker' \in [at : WorkerAts, job : Jobs \union {NoJob}]
        /\ closed /\ queue = {} /\ active' = active - 1
        /\ UNCHANGED <<phase, request, cancelled, queueVars, post, client, stop, tmp, left, final,
                       announced, panicked>>
    BY <1>2 DEF WorkerLeave, WorkerAt, fileVars, WorkerAts, IInv, JobInv, WorkerPhase
  <2>2. QueueInv' /\ queue' = queue /\ closed' = closed /\ Waiters' = Waiters
    BY <1>0, <2>1, SameQueueFact
  <2>3. TypeOK'
    BY <1>0, <2>1, <2>2 DEF TypeOK, QueueInv
  <2>4. JobInv'
    BY <2>1, <2>2
    DEF IInv, JobInv, FreshNowhere, Apart, HeldQueued, Owned, WorkerPhase, PostPhase, FinalDone,
        TempOwned, ClientHolds, AtWorker, AtPost, Run, Ended
  <2>5. Counted'
    BY <2>1, PostsCount DEF IInv, Counted, Posts, AtPost, TypeOK
  <2>6. StopInv'
    <3>1. active >= 1
      BY <2>1, PostsCount DEF IInv, Counted
    <3> QED BY <2>1, <2>2, <3>1 DEF IInv, StopInv, StopCancelsAll, Known
  <2> QED BY <2>2, <2>3, <2>4, <2>5, <2>6 DEF IInv
<1>3. CASE WorkerStart
  <2>1. /\ worker.at = "start"
        /\ UNCHANGED <<cancelled, client, stop, fileVars, announced, panicked>>
    BY <1>3 DEF WorkerStart, WorkerAt
  <2>2. CASE WorkerFail
    BY <1>0, <2>1, <2>2, WorkerFailStep DEF fileVars
  <2>3. CASE WorkerAdvance("resolving", "resolve")
    BY <2>1, <2>3, WorkerAdvanceStep DEF L!RunPhase
  <2> QED BY <1>3, <2>2, <2>3 DEF WorkerStart
<1>4. CASE WorkerResolve
  <2>1. /\ worker.at = "resolve"
        /\ UNCHANGED <<cancelled, client, stop, fileVars, announced, panicked>>
    BY <1>4 DEF WorkerResolve, WorkerAt
  <2>2. CASE WorkerFail
    BY <1>0, <2>1, <2>2, WorkerFailStep DEF fileVars
  <2>3. CASE WorkerGo("expand") /\ UNCHANGED <<phase, request, queueVars, post, active>>
    <3>1. Run(worker.job)' /\ (worker.job \in tmp => worker.job \in panicked)
      BY <2>1, <2>3, WorkerJob
      DEF IInv, JobInv, WorkerPhase, TempOwned, Apart, AtWorker, AtPost, Run, WorkerGo, TypeOK
    <3>3. phase'[worker.job] = "resolving"
      BY <2>1, <2>3 DEF IInv, JobInv, WorkerPhase
    <3>2. "expand" \in WorkerAts \ {"pop", "gone"}
      BY DEF WorkerAts
    <3> QED BY <1>0, <2>1, <2>3, <3>1, <3>2, <3>3, WorkerGoStep DEF fileVars, TypeOK
  <2>4. CASE WorkerAdvance("done", "emit")
    BY <2>1, <2>4, WorkerAdvanceStep
  <2>5. CASE WorkerAdvance("downloading", "download")
    BY <2>1, <2>5, WorkerAdvanceStep DEF L!RunPhase
  <2> QED BY <1>4, <2>2, <2>3, <2>4, <2>5 DEF WorkerResolve
<1>5. CASE ExpandTrack
  <2>1. worker.job \in Jobs /\ request[worker.job] \in Prios
    BY <1>5, WorkerJob DEF ExpandTrack, WorkerAt, IInv, JobInv, WorkerPhase, TypeOK
  <2>2. PICK j \in Fresh : Add(j, request[worker.job])
    BY <1>5 DEF ExpandTrack
  <2> QED BY <1>5, <2>1, <2>2, AddStep DEF ExpandTrack
<1>6. CASE ExpandEnd
  BY <1>0, <1>6, WorkerIdleStep DEF ExpandEnd, WorkerAt
<1>7. CASE WorkerDownload
  <2>1. /\ worker.at = "download"
        /\ UNCHANGED <<cancelled, client, stop, left, final, announced, panicked>>
    BY <1>7 DEF WorkerDownload, WorkerAt
  <2>2. CASE WorkerFail /\ UNCHANGED tmp
    BY <1>0, <2>1, <2>2, WorkerFailStep
  <2>3. CASE HandOver /\ tmp' \in {tmp, tmp \union {worker.job}}
    BY <2>1, <2>3, HandOverStep
  <2>4. CASE /\ tmp' = tmp \union {worker.job} /\ WorkerGo("stream")
             /\ UNCHANGED <<phase, request, queueVars, post, active>>
    <3>1. Run(worker.job)'
      BY <2>1, <2>4, WorkerJob
      DEF IInv, JobInv, WorkerPhase, AtWorker, Run, WorkerGo, TypeOK
    <3>2. "stream" \in WorkerAts \ {"pop", "gone"}
      BY DEF WorkerAts
    <3> QED BY <1>0, <2>1, <2>4, <3>1, <3>2, WorkerGoStep DEF TypeOK
  <2> QED BY <1>7, <2>2, <2>3, <2>4 DEF WorkerDownload
<1>8. CASE WorkerStream
  <2>1. /\ worker.at = "stream"
        /\ UNCHANGED <<cancelled, client, stop, final, announced, panicked>>
    BY <1>8 DEF WorkerStream, WorkerAt
  <2>2. CASE WorkerFail /\ tmp' = tmp \ {worker.job} /\ MayLeave(worker.job)
    <3>1. left' \subseteq Jobs
      BY <1>0, <2>2, ConstantsAssumption DEF MayLeave
    <3> QED BY <1>0, <2>1, <2>2, <3>1, WorkerFailStep
  <2>3. CASE HandOver /\ UNCHANGED <<tmp, left>>
    BY <2>1, <2>3, HandOverStep
  <2> QED BY <1>8, <2>2, <2>3 DEF WorkerStream
<1>9. CASE WorkerEmit
  <2>1. worker.at = "emit" /\ announced' \subseteq Jobs
    BY <1>0, <1>9, WorkerJob DEF WorkerEmit, WorkerAt, IInv, JobInv
  <2> QED BY <1>0, <1>9, <2>1, WorkerIdleStep DEF WorkerEmit
<1>10. CASE WorkerPanic
  <2>1. worker.at \notin {"pop", "gone"} /\ panicked' = panicked \union {worker.job} /\ WorkerFail
    BY <1>10 DEF WorkerPanic
  <2>2. worker.job \in Jobs
    BY <1>0, <2>1, WorkerJob DEF IInv, JobInv
  <2> QED BY <1>0, <1>10, <2>1, <2>2, WorkerFailStep DEF WorkerPanic, fileVars
<1> QED BY <1>1, <1>2, <1>3, <1>4, <1>5, <1>6, <1>7, <1>8, <1>9, <1>10 DEF WorkerStep
-----------------------------------------------------------------------------
(* A post-process goroutine. *)

LEMMA PostGoStep ==
  ASSUME IInv, NEW j \in Jobs, post[j] \notin {"none", "emit"},
         NEW at \in PostAts \ {"none"}, PostGo(j, at), PostUnchanged,
         phase' \in [Jobs -> L!Phase \union {"none"}],
         \A k \in Jobs \ {j} : phase'[k] = phase[k],
         IF at = "emit" THEN Ended(j)' ELSE Run(j)',
         tmp' \in {tmp, tmp \ {j}}, left' \subseteq Jobs,
         j \in tmp' => at # "emit" \/ j \in panicked',
         final' \in {final, final \union {j}},
         j \in final' => phase'[j] = "done",
         panicked \subseteq panicked', panicked' \subseteq Jobs,
         UNCHANGED <<active, announced>>
  PROVE  IInv'
<1> USE DEF IInv, PostUnchanged
<1>1. /\ QueueInv' /\ queue' = queue /\ closed' = closed /\ Waiters' = Waiters
      /\ Waiters \subseteq Jobs
  BY SameQueueFact DEF Waiters
<1>2. /\ post' \in [Jobs -> PostAts] /\ post'[j] = at
      /\ \A k \in Jobs \ {j} : post'[k] = post[k]
      /\ AtPost(j) /\ AtPost(j)' /\ ~AtWorker(j) /\ j \notin Waiters /\ Run(j)
  BY DEF PostGo, TypeOK, AtPost, JobInv, Apart, PostPhase
<1>3. TypeOK'
  BY <1>1, <1>2 DEF TypeOK, QueueInv
<1>4. JobInv'
  <2> USE <1>1, <1>2 DEF JobInv, AtWorker, AtPost, Run, Ended
  <2>1. FreshNowhere'
    <3>1. phase'[j] # "none"
      BY PhaseSets
    <3> QED BY <3>1 DEF FreshNowhere
  <2>2. Apart' /\ HeldQueued' /\ ClientHolds'
    BY DEF Apart, HeldQueued, ClientHolds
  <2>3. Owned'
    BY DEF Owned
  <2>4. PostPhase'
    BY DEF PostPhase
  <2>7. WorkerPhase'
    <3>1. worker.at \in {"start", "resolve", "expand"} => phase'[worker.job] = phase[worker.job]
      BY WorkerJob
    <3> QED BY <3>1 DEF WorkerPhase
  <2>5. FinalDone'
    BY DEF FinalDone, TypeOK
  <2>6. TempOwned'
    BY DEF TempOwned, TypeOK, PostAts
  <2> QED BY <2>1, <2>2, <2>3, <2>4, <2>5, <2>6, <2>7
<1>5. StopInv'
  BY <1>1, <1>2, PhaseSets DEF StopInv, StopCancelsAll, Known, Run, TypeOK
<1>6. Counted'
  BY <1>2 DEF Counted, Posts, AtPost
<1> QED BY <1>1, <1>3, <1>4, <1>5, <1>6

\* The goroutine of a finished job ends.
LEMMA PostEndStep ==
  ASSUME IInv, NEW j \in Jobs, post[j] = "emit", PostEnd(j), PostUnchanged,
         announced' \subseteq Jobs, panicked \subseteq panicked', panicked' \subseteq Jobs,
         UNCHANGED <<phase, fileVars>>
  PROVE  IInv'
<1> USE DEF IInv, PostUnchanged, fileVars
<1>1. /\ QueueInv' /\ queue' = queue /\ closed' = closed /\ Waiters' = Waiters
      /\ Waiters \subseteq Jobs
  BY SameQueueFact DEF Waiters
<1>2. /\ post' \in [Jobs -> PostAts] /\ post'[j] = "none" /\ active' = active - 1
      /\ \A k \in Jobs \ {j} : post'[k] = post[k]
      /\ Ended(j) /\ AtPost(j) /\ ~AtWorker(j)
  BY DEF PostEnd, PostGo, TypeOK, PostAts, AtPost, JobInv, Apart, PostPhase
<1>3. TypeOK'
  BY <1>1, <1>2 DEF TypeOK, QueueInv
<1>4. JobInv'
  BY <1>1, <1>2
  DEF JobInv, FreshNowhere, Apart, HeldQueued, Owned, WorkerPhase, PostPhase, FinalDone,
      TempOwned, ClientHolds, AtWorker, AtPost, Run, Ended, TypeOK
<1>5. Cardinality(Posts') = Cardinality(Posts) - 1 /\ j \in Posts
  <2>1. Posts' = Posts \ {j} /\ j \in Posts
    BY <1>2 DEF Posts, AtPost
  <2> QED BY <2>1, PostsCount, FS_RemoveElement
<1>6. Counted'
  BY <1>2, <1>5, PostsCount DEF Counted
<1>7. active >= 1
  BY <1>5, PostsCount DEF Counted
<1>8. StopInv'
  BY <1>1, <1>2, <1>7 DEF StopInv, StopCancelsAll, Known, TypeOK
<1> QED BY <1>1, <1>3, <1>4, <1>6, <1>8

LEMMA PostFailStep ==
  ASSUME IInv, NEW j \in Jobs, post[j] # "none", PostFail(j), PostUnchanged,
         tmp' \in {tmp, tmp \ {j}}, j \notin tmp' \/ j \in panicked',
         post[j] = "emit" => tmp' = tmp,
         panicked \subseteq panicked', panicked' \subseteq Jobs,
         UNCHANGED <<left, final, announced>>
  PROVE  IInv'
<1>1. TypeOK /\ Fail(j) /\ ~AtWorker(j) /\ AtPost(j)
  BY DEF IInv, PostFail, JobInv, Apart, AtPost
<1>2. CASE post[j] = "emit"
  <2>1. Ended(j)
    BY <1>1, <1>2 DEF IInv, JobInv, PostPhase
  <2>2. phase' = phase /\ AfterFail(j) = "over"
    BY <1>1, <2>1, FailFact, PhaseSets DEF AfterFail, Ended
  <2>3. PostEnd(j)
    BY <2>2 DEF PostFail
  <2> QED BY <1>1, <1>2, <2>2, <2>3, PostEndStep DEF TypeOK, fileVars
<1>3. CASE post[j] # "emit"
  <2>1. Run(j)
    BY <1>1, <1>3 DEF IInv, JobInv, PostPhase
  <2>2. /\ phase' \in [Jobs -> L!Phase \union {"none"}]
        /\ Ended(j)' /\ AfterFail(j) = "emit"
        /\ \A k \in Jobs \ {j} : phase'[k] = phase[k]
    BY <1>1, <2>1, FailFact
  <2>3. PostGo(j, "emit") /\ UNCHANGED active
    BY <2>2 DEF PostFail
  <2>4. j \notin final
    BY <2>1, PhaseSets DEF IInv, JobInv, FinalDone, Run, L!RunPhase
  <2>5. "emit" \in PostAts \ {"none"} /\ final' = final /\ left' \subseteq Jobs
    BY <1>1 DEF PostAts, TypeOK
  <2> QED BY <1>3, <2>2, <2>3, <2>4, <2>5, PostGoStep
<1> QED BY <1>2, <1>3

LEMMA PostStepInv ==
  ASSUME IInv, NEW j \in Jobs, PostStep(j)
  PROVE  IInv'
<1>0. TypeOK /\ panicked \subseteq Jobs /\ announced \subseteq Jobs /\ left \subseteq Jobs
  BY DEF IInv, TypeOK
<1>1. PostAts = {"none", "tag", "work", "check", "move", "emit"}
  BY DEF PostAts
<1>2. post[j] \notin {"none", "emit"} => Run(j) /\ j \notin final
  BY PhaseSets DEF IInv, JobInv, PostPhase, AtPost, FinalDone, Run, L!RunPhase
<1>3. CASE PostTag(j)
  <2>1. /\ post[j] = "tag" /\ Advance(j, "tagging") /\ PostGo(j, "work") /\ PostUnchanged
        /\ UNCHANGED <<active, tmp, left, final, announced, panicked>>
    BY <1>3 DEF PostTag, fileVars
  <2>2. "tagging" \in L!RunPhase /\ "tagging" \in L!Phase
    BY DEF L!RunPhase, L!Phase
  <2>3. /\ phase' \in [Jobs -> L!Phase \union {"none"}] /\ Run(j)'
        /\ \A k \in Jobs \ {j} : phase'[k] = phase[k]
    BY <1>0, <1>2, <2>1, <2>2, AdvanceFact DEF Run
  <2> QED BY <1>0, <1>1, <1>2, <2>1, <2>3, PostGoStep
<1>4. CASE PostWork(j)
  <2>1. /\ post[j] = "work" /\ PostGo(j, "check") /\ PostUnchanged
        /\ UNCHANGED <<phase, active, tmp, final, announced, panicked>> /\ MayLeave(j)
    BY <1>4 DEF PostWork
  <2>2. phase' \in [Jobs -> L!Phase \union {"none"}] /\ Run(j)' /\ left' \subseteq Jobs
    BY <1>0, <1>2, <2>1, ConstantsAssumption DEF Run, TypeOK, MayLeave
  <2> QED BY <1>0, <1>1, <1>2, <2>1, <2>2, PostGoStep
<1>5. CASE PostCheck(j)
  <2>1. /\ post[j] = "check" /\ PostUnchanged
        /\ UNCHANGED <<left, final, announced, panicked>>
    BY <1>5 DEF PostCheck
  <2>2. CASE PostFail(j) /\ tmp' = tmp \ {j}
    BY <1>0, <2>1, <2>2, PostFailStep
  <2>3. CASE Advance(j, "moving") /\ PostGo(j, "move") /\ UNCHANGED <<active, tmp>>
    <3>1. "moving" \in L!RunPhase /\ "moving" \in L!Phase
      BY DEF L!RunPhase, L!Phase
    <3>2. /\ phase' \in [Jobs -> L!Phase \union {"none"}] /\ Run(j)'
          /\ \A k \in Jobs \ {j} : phase'[k] = phase[k]
      BY <1>0, <1>2, <2>1, <2>3, <3>1, AdvanceFact DEF Run
    <3> QED BY <1>0, <1>1, <1>2, <2>1, <2>3, <3>2, PostGoStep
  <2> QED BY <1>5, <2>2, <2>3 DEF PostCheck
<1>6. CASE PostMove(j)
  <2>1. /\ post[j] = "move" /\ PostUnchanged /\ tmp' = tmp \ {j}
        /\ UNCHANGED <<left, announced, panicked>>
    BY <1>6 DEF PostMove
  <2>2. CASE PostFail(j) /\ UNCHANGED final
    BY <1>0, <2>1, <2>2, PostFailStep
  <2>3. CASE /\ final' \in {final, final \union {j}}
             /\ Advance(j, "done") /\ PostGo(j, "emit") /\ UNCHANGED active
    <3>1. "done" \in L!TerminalPhase /\ "done" \in L!Phase
      BY DEF L!TerminalPhase, L!Phase
    <3>2. /\ phase' \in [Jobs -> L!Phase \union {"none"}] /\ phase'[j] = "done" /\ Ended(j)'
          /\ \A k \in Jobs \ {j} : phase'[k] = phase[k]
      BY <1>0, <1>2, <2>1, <2>3, <3>1, AdvanceFact, PhaseSets DEF Ended
    <3> QED BY <1>0, <1>1, <2>1, <2>3, <3>2, PostGoStep
  <2> QED BY <1>6, <2>2, <2>3 DEF PostMove
<1>7. CASE PostEmit(j)
  <2>1. announced' \subseteq Jobs
    BY <1>0, <1>7 DEF PostEmit
  <2> QED BY <1>0, <1>7, <2>1, PostEndStep DEF PostEmit
<1>8. CASE PostPanic(j)
  <2>1. /\ post[j] # "none" /\ panicked' = panicked \union {j} /\ PostFail(j) /\ PostUnchanged
        /\ UNCHANGED <<tmp, left, final, announced>>
    BY <1>8 DEF PostPanic, fileVars
  <2> QED BY <1>0, <2>1, PostFailStep
<1> QED BY <1>3, <1>4, <1>5, <1>6, <1>7, <1>8 DEF PostStep
-----------------------------------------------------------------------------
(* Stop. *)

LEMMA StopStepInv ==
  ASSUME IInv, StopClose \/ StopStep
  PROVE  IInv'
<1> USE DEF IInv, fileVars
<1>1. /\ QueueInv' /\ queue' = queue /\ Waiters' = Waiters
      /\ IF stop = "no" THEN closed' ELSE closed' = closed
      /\ cancelled \subseteq cancelled' /\ cancelled' \subseteq Jobs /\ stop' \in StopAts
      /\ UNCHANGED <<phase, request, worker, post, active, client, tmp, left, final, announced,
                     panicked>>
  BY SameQueueFact, CloseFact
  DEF StopClose, StopStep, StopCancel, StopReturn, TypeOK, StopAts, Known
<1>2. TypeOK'
  BY <1>1 DEF TypeOK, QueueInv
<1>3. JobInv'
  BY <1>1
  DEF JobInv, FreshNowhere, Apart, HeldQueued, Owned, WorkerPhase, PostPhase, FinalDone,
      TempOwned, ClientHolds, AtWorker, AtPost, Run, Ended
<1>4. StopInv'
  <2>1. CASE StopClose
    BY <1>1, <2>1, CloseFact DEF StopClose, StopInv, StopCancelsAll, Known
  <2>2. CASE StopCancel
    BY <1>1, <2>2 DEF StopCancel, StopInv, StopCancelsAll, Known
  <2>3. CASE StopReturn
    BY <1>1, <2>3 DEF StopReturn, StopInv, StopCancelsAll, Known
  <2> QED BY <2>1, <2>2, <2>3 DEF StopStep
<1>5. Counted'
  BY <1>1 DEF Counted, Posts, AtPost
<1> QED BY <1>1, <1>2, <1>3, <1>4, <1>5
-----------------------------------------------------------------------------
LEMMA IInvInit == Init => IInv
<1> SUFFICES ASSUME Init PROVE IInv
  OBVIOUS
<1> USE DEF Init, Q!QueueInit
<1>1. QueueInv /\ Waiters = {}
  <2>1. seq \in 0..MaxSeq
    <3>1. seq = 0
      OBVIOUS
    <3> HIDE DEF Init
    <3> QED BY <3>1, MaxSeqType
  <2>2. closed \in BOOLEAN
    BY Zenon
  <2>3. queue = {}
    OBVIOUS
  <2>4. QueueInv
    BY <2>1, <2>2, <2>3 DEF QueueInv, Q!QueueTypeOK
  <2> QED BY <2>3, <2>4 DEF Waiters, InQueue, Q!Queued
<1>2. TypeOK
  BY <1>1, ConstantsAssumption
  DEF TypeOK, QueueInv, WorkerAts, PostAts, ClientAts, StopAts, Idle
<1>3. JobInv
  BY <1>1, ConstantsAssumption, PhaseSets
  DEF JobInv, FreshNowhere, Apart, HeldQueued, Owned, WorkerPhase, PostPhase, FinalDone,
      TempOwned, ClientHolds, AtWorker, AtPost, Idle
<1>4. StopInv
  BY DEF StopInv, StopCancelsAll
<1>5. Counted
  <2>1. Posts = {}
    BY DEF Posts, AtPost
  <2> QED BY <2>1, FS_EmptySet DEF Counted
<1> QED BY <1>1, <1>2, <1>3, <1>4, <1>5 DEF IInv

LEMMA IInvStep == IInv /\ [Next]_vars => IInv'
<1> SUFFICES ASSUME IInv, [Next]_vars PROVE IInv'
  OBVIOUS
<1>1. CASE WorkerStep
  BY <1>1, WorkerStepInv
<1>2. ASSUME NEW j \in Jobs, PostStep(j) PROVE IInv'
  BY <1>2, PostStepInv
<1>3. ASSUME NEW c \in Clients, ClientCall(c) \/ ClientFinish(c) PROVE IInv'
  BY <1>3, ClientStep
<1>4. CASE StopClose \/ StopStep
  BY <1>4, StopStepInv
<1>5. CASE UNCHANGED vars
  <2> USE <1>5 DEF vars, IInv, fileVars
  <2>1. /\ QueueInv' /\ queue' = queue /\ closed' = closed /\ Waiters' = Waiters
    BY SameQueueFact DEF queueVars
  <2>2. TypeOK'
    BY <2>1 DEF TypeOK, QueueInv
  <2>3. JobInv'
    BY <2>1
    DEF JobInv, FreshNowhere, Apart, HeldQueued, Owned, WorkerPhase, PostPhase, FinalDone,
        TempOwned, ClientHolds, AtWorker, AtPost, Run, Ended
  <2>4. StopInv' /\ Counted'
    BY <2>1 DEF StopInv, StopCancelsAll, Known, Counted, Posts, AtPost
  <2> QED BY <2>1, <2>2, <2>3, <2>4
<1> QED BY <1>1, <1>2, <1>3, <1>4, <1>5 DEF Next

THEOREM Invariance == Spec => []IInv
BY IInvInit, IInvStep, PTL DEF Spec
-----------------------------------------------------------------------------
(* The properties that the runs check, for every value of the constants. *)

\* Every variable keeps its type; Retry never enqueues a forgotten request.
THEOREM TypeCorrect == Spec => []TypeOK
<1>1. IInv => TypeOK
  BY DEF IInv
<1> QED BY Invariance, <1>1, PTL

\* No job is in two places: queue, worker, post-processing.
THEOREM OwnerIsUnique == Spec => []OneOwner
<1>1. IInv => OneOwner
  BY DEF IInv, JobInv, Apart, OneOwner, Waiters
<1> QED BY Invariance, <1>1, PTL

\* What is queued is listed and has phase "queued".
THEOREM QueueHoldsOnlyQueued == Spec => []QueueHoldsQueued
<1>1. IInv => QueueHoldsQueued
  BY DEF IInv, JobInv, HeldQueued, QueueHoldsQueued, Waiters, Known
<1> QED BY Invariance, <1>1, PTL

\* A listed job that has not ended has an owner.
THEOREM NobodyIsStranded == Spec => []NobodyStranded
<1>1. IInv => NobodyStranded
  BY PhaseSets DEF IInv, JobInv, Owned, NobodyStranded, Waiters, Known, Ended
<1> QED BY Invariance, <1>1, PTL

\* After Stop has walked the map no unfinished job has a live context.
THEOREM StopReachesAll == Spec => []StopCancelsAll
<1>1. IInv => StopCancelsAll
  BY DEF IInv, StopInv
<1> QED BY Invariance, <1>1, PTL

\* A Stop that joined leaves nothing behind: the wait group counts exactly the
\* worker and the post-process goroutines.
THEOREM StopJoins == Spec => []StopJoinsAll
<1>1. IInv => StopJoinsAll
  <2> SUFFICES ASSUME IInv, stop = "joined"
               PROVE  /\ worker.at = "gone" /\ queue = {}
                      /\ \A j \in Jobs : ~AtPost(j) /\ (j \in Known => IsTerminal(phase[j]))
    BY DEF StopJoinsAll
  <2>1. active = 0
    BY DEF IInv, StopInv
  <2>2. worker.at = "gone" /\ Cardinality(Posts) = 0
    BY <2>1, PostsCount DEF IInv, Counted
  <2>3. Posts = {}
    BY <2>2, PostsCount, FS_EmptySet
  <2>4. queue = {}
    BY <2>2 DEF IInv, StopInv
  <2>5. Waiters = {} /\ worker.job = NoJob
    BY <2>2, <2>4 DEF Waiters, InQueue, Q!Queued, IInv, JobInv, WorkerPhase
  <2>6. ASSUME NEW j \in Jobs PROVE ~AtPost(j) /\ (j \in Known => IsTerminal(phase[j]))
    BY <2>3, <2>5, PhaseSets, ConstantsAssumption
    DEF Posts, IInv, JobInv, Owned, Known, Ended, AtWorker
  <2> QED BY <2>2, <2>4, <2>6
<1> QED BY Invariance, <1>1, PTL

\* A job that is reported cancelled has published no file.
THEOREM CancelledNotPublished == Spec => []CancelledUnpublished
<1>1. IInv => CancelledUnpublished
  BY DEF IInv, JobInv, FinalDone, CancelledUnpublished
<1> QED BY Invariance, <1>1, PTL

\* A temp file is owned by a goroutine unless a panic stranded it.
THEOREM TempIsOwned == Spec => []TempHasOwner
<1>1. IInv => TempHasOwner
  BY DEF IInv, JobInv, TempOwned, TempHasOwner, AtPost, TypeOK
<1> QED BY Invariance, <1>1, PTL

\* What the run checks of every job, for any number of jobs and handlers.
THEOREM JobSafety == Spec => []JobsAreSafe
BY TypeCorrect, OwnerIsUnique, NobodyIsStranded, QueueHoldsOnlyQueued,
   CancelledNotPublished, TempIsOwned, PTL DEF JobsAreSafe

\* What the run checks of Stop, for any number of jobs and handlers.
THEOREM StopSafety == Spec => []StopIsSafe
BY StopReachesAll, StopJoins, PTL DEF StopIsSafe
-----------------------------------------------------------------------------
(* ExportManager implements the safety part of JobLifecycle: every step of *)
(* the manager is at most one step of one job's life.                      *)

LEMMA LifeChange ==
  ASSUME NEW j \in Jobs,
         \A k \in Jobs \ {j} : phase'[k] = phase[k] /\ request'[k] = request[k]
  PROVE  life' = [life EXCEPT ![j] = life'[j]]
BY DEF life

LEMMA LifeSame ==
  ASSUME UNCHANGED <<phase, request>>
  PROVE  life' = life
BY DEF life

\* Nobody owns a job that was forgotten before it ended.
OwnedJob(j) == phase[j] # "none" /\ (Ended(j) \/ request[j] # NoRequest)

LEMMA FailLife ==
  ASSUME TypeOK, NEW j \in Jobs, OwnedJob(j), Fail(j), UNCHANGED request
  PROVE  [L!LifeNext]_life
<1>1. CASE Ended(j)
  BY <1>1, FailFact, LifeSame
<1>2. CASE ~Ended(j)
  <2>1. Run(j) /\ request[j] # NoRequest
    BY <1>2, PhaseSets DEF OwnedJob, TypeOK, Run, Ended
  <2>2. /\ phase'[j] \in {"failed", "cancelled"}
        /\ \A k \in Jobs \ {j} : phase'[k] = phase[k]
    BY <2>1, FailFact
  <2>3. life[j] = phase[j] /\ life'[j] = phase'[j]
    BY <2>1, <2>2, PhaseSets DEF life, Run
  <2>4. life' = [life EXCEPT ![j] = life'[j]]
    BY <2>2, LifeChange
  <2>5. L!CanTransition(life[j], life'[j]) /\ life'[j] \in L!TerminalPhase
    BY <2>1, <2>2, <2>3 DEF L!CanTransition, L!IsTerminal, L!TerminalPhase, Run
  <2>6. L!End(j)
    BY <2>4, <2>5 DEF L!End
  <2> QED BY <2>6 DEF L!LifeNext
<1> QED BY <1>1, <1>2

LEMMA AdvanceLife ==
  ASSUME TypeOK, NEW j \in Jobs, Run(j), request[j] # NoRequest,
         NEW to \in L!Phase, Advance(j, to), UNCHANGED request
  PROVE  [L!LifeNext]_life
<1>1. CASE phase' = phase
  BY <1>1, LifeSame
<1>2. CASE L!CanTransition(phase[j], to) /\ phase' = [phase EXCEPT ![j] = to]
  <2>1. life[j] = phase[j] /\ life'[j] = to
    BY <1>2, PhaseSets DEF life, Run, TypeOK
  <2>2. life' = [life EXCEPT ![j] = to]
    BY <1>2, <2>1, LifeChange DEF TypeOK
  <2>3. to \in L!RunPhase \/ to \in L!TerminalPhase
    BY PhaseSets
  <2>4. L!Progress(j) \/ L!End(j)
    BY <1>2, <2>1, <2>2, <2>3 DEF L!Progress, L!End
  <2> QED BY <2>4 DEF L!LifeNext
<1> QED BY <1>1, <1>2 DEF Advance

LEMMA AddLife ==
  ASSUME NEW j \in Fresh, NEW prio \in Prios, TypeOK, Add(j, prio)
  PROVE  L!LifeNext
<1>1. /\ j \in Jobs /\ phase[j] = "none"
      /\ phase'[j] = "queued" /\ request'[j] = prio /\ prio # NoRequest
      /\ \A k \in Jobs \ {j} : phase'[k] = phase[k] /\ request'[k] = request[k]
  BY ConstantsAssumption DEF Fresh, Add, TypeOK
<1>2. life[j] = "none" /\ life'[j] = "queued"
  BY <1>1 DEF life
<1>3. life' = [life EXCEPT ![j] = "queued"]
  BY <1>1, <1>2, LifeChange
<1> QED BY <1>1, <1>2, <1>3 DEF L!Create, L!LifeNext

\* The request of job j is deleted.
LEMMA ForgetLife ==
  ASSUME TypeOK, NEW j \in Jobs, Ended(j) \/ phase[j] = "resolving",
         request' = [request EXCEPT ![j] = NoRequest], UNCHANGED phase
  PROVE  [L!LifeNext]_life
<1>1. phase[j] \in L!TerminalPhase \union {"resolving"} /\ phase[j] # "none"
  BY PhaseSets DEF Ended, L!RunPhase
<1>2. life'[j] = "forgotten" /\ life' = [life EXCEPT ![j] = "forgotten"]
  <2>1. life'[j] = "forgotten"
    BY <1>1 DEF life, TypeOK
  <2> QED BY <2>1, LifeChange DEF TypeOK
<1>3. CASE request[j] = NoRequest
  BY <1>3, LifeSame DEF TypeOK
<1>4. CASE request[j] # NoRequest
  <2>1. life[j] = phase[j]
    BY <1>4 DEF life
  <2> QED BY <1>1, <1>2, <2>1 DEF L!Forget, L!LifeNext
<1> QED BY <1>3, <1>4

LEMMA LifeStep == IInv /\ [Next]_vars => [L!LifeNext]_life
<1> SUFFICES ASSUME IInv, [Next]_vars PROVE [L!LifeNext]_life
  OBVIOUS
<1>0. TypeOK
  BY DEF IInv
<1>1. ASSUME NEW c \in Clients, ClientCall(c) \/ ClientFinish(c) PROVE [L!LifeNext]_life
  <2>1. CASE Enqueue(c)
    BY <1>0, <2>1, AddLife DEF Enqueue
  <2>2. ASSUME NEW j \in Jobs, CancelFinished(c, j) PROVE [L!LifeNext]_life
    BY <1>0, <2>2, ForgetLife, PhaseSets DEF CancelFinished, Ended
  <2>3. ASSUME NEW j \in Jobs, CancelQueued(c, j) PROVE [L!LifeNext]_life
    <3>1. j \in Waiters
      BY <2>3 DEF CancelQueued, Q!Remove, Waiters, InQueue, Q!Queued
    <3>2. phase[j] = "queued" /\ request[j] # NoRequest
      BY <3>1 DEF IInv, JobInv, HeldQueued
    <3>3. phase' = [phase EXCEPT ![j] = "cancelled"] /\ UNCHANGED request
      BY <2>3 DEF CancelQueued
    <3>4. life[j] = "queued" /\ life'[j] = "cancelled"
      BY <1>0, <3>2, <3>3 DEF life, TypeOK
    <3>5. life' = [life EXCEPT ![j] = "cancelled"]
      BY <1>0, <3>3, <3>4, LifeChange DEF TypeOK
    <3>6. L!CanTransition("queued", "cancelled") /\ "cancelled" \in L!TerminalPhase
      BY DEF L!CanTransition, L!IsTerminal, L!TerminalPhase, L!RunPhase
    <3> QED BY <3>4, <3>5, <3>6 DEF L!End, L!LifeNext
  <2>4. ASSUME NEW j \in Jobs, CancelRunning(c, j) \/ RetryRead(c, j) \/ Prioritize(c, j)
        PROVE  [L!LifeNext]_life
    BY <2>4, LifeSame DEF CancelRunning, RetryRead, Prioritize
  <2>5. CASE CancelContext(c) \/ CancelEmit(c)
    BY <2>5, LifeSame DEF CancelContext, CancelEmit
  <2>6. CASE RetryEnqueue(c)
    <3>1. CASE \E j \in Fresh : Add(j, client[c].prio)
      BY <1>0, <2>6, <3>1, AddLife DEF RetryEnqueue, IInv, JobInv, ClientHolds
    <3> QED BY <2>6, <3>1, LifeSame DEF RetryEnqueue
  <2> QED BY <1>1, <2>1, <2>2, <2>3, <2>4, <2>5, <2>6 DEF ClientCall, ClientFinish
<1>2. CASE WorkerStep
  <2>1. CASE WorkerPop \/ WorkerLeave \/ WorkerEmit
    BY <2>1, LifeSame DEF WorkerPop, WorkerLeave, WorkerEmit
  <2>2. CASE ExpandTrack
    <3>1. worker.job \in Jobs /\ request[worker.job] \in Prios
      BY <1>0, <2>2, WorkerJob DEF ExpandTrack, WorkerAt, IInv, JobInv, WorkerPhase, TypeOK
    <3> QED BY <1>0, <2>2, <3>1, AddLife DEF ExpandTrack
  <2>3. ASSUME worker.at \notin {"pop", "gone"} PROVE \E w \in Jobs : worker.job = w /\ OwnedJob(w)
    BY <1>0, <2>3, WorkerJob, PhaseSets DEF IInv, JobInv, WorkerPhase, OwnedJob, Run, Ended
  <2>4. CASE ExpandEnd
    <3>1. PICK w \in Jobs : worker.job = w
      BY <2>3, <2>4 DEF ExpandEnd, WorkerAt
    <3>2. phase[w] = "resolving" /\ UNCHANGED phase /\ request' = [request EXCEPT ![w] = NoRequest]
      BY <2>4, <3>1 DEF ExpandEnd, WorkerAt, IInv, JobInv, WorkerPhase
    <3> QED BY <1>0, <3>2, ForgetLife
  <2>5. ASSUME WorkerFail, worker.at \notin {"pop", "gone"} PROVE [L!LifeNext]_life
    <3>1. PICK w \in Jobs : worker.job = w /\ OwnedJob(w)
      BY <2>3, <2>5
    <3> QED BY <1>0, <2>5, <3>1, FailLife DEF WorkerFail
  <2>6. ASSUME NEW to \in L!Phase, NEW at, WorkerAdvance(to, at),
               worker.at \in {"start", "resolve"}
        PROVE  [L!LifeNext]_life
    <3>1. PICK w \in Jobs : worker.job = w
      BY <2>3, <2>6
    <3>2. Run(w) /\ request[w] # NoRequest
      BY <2>6, <3>1 DEF IInv, JobInv, WorkerPhase, AtWorker
    <3> QED BY <1>0, <2>6, <3>1, <3>2, AdvanceLife DEF WorkerAdvance
  <2>7. {"resolving", "downloading", "done"} \subseteq L!Phase
    BY DEF L!Phase, L!RunPhase, L!TerminalPhase
  <2>8. CASE WorkerStart
    BY <2>5, <2>6, <2>7, <2>8 DEF WorkerStart, WorkerAt
  <2>9. CASE WorkerResolve
    BY <2>5, <2>6, <2>7, <2>9, LifeSame DEF WorkerResolve, WorkerAt
  <2>10. CASE WorkerDownload \/ WorkerStream
    BY <2>5, <2>10, LifeSame DEF WorkerDownload, WorkerStream, WorkerAt, HandOver
  <2>11. CASE WorkerPanic
    BY <2>5, <2>11 DEF WorkerPanic
  <2> QED BY <1>2, <2>1, <2>2, <2>4, <2>8, <2>9, <2>10, <2>11 DEF WorkerStep
<1>3. ASSUME NEW j \in Jobs, PostStep(j) PROVE [L!LifeNext]_life
  <2>1. post[j] # "none" => OwnedJob(j)
    BY PhaseSets DEF IInv, JobInv, PostPhase, AtPost, OwnedJob, Run, Ended
  <2>2. post[j] \in {"tag", "check", "move"} => Run(j) /\ request[j] # NoRequest
    BY DEF IInv, JobInv, PostPhase, AtPost
  <2>3. UNCHANGED request
    BY <1>3 DEF PostStep, PostTag, PostWork, PostCheck, PostMove, PostEmit, PostPanic,
                PostUnchanged
  <2>4. CASE PostWork(j) \/ PostEmit(j)
    BY <2>3, <2>4, LifeSame DEF PostWork, PostEmit
  <2>5. ASSUME PostFail(j), post[j] # "none" PROVE [L!LifeNext]_life
    BY <1>0, <2>1, <2>3, <2>5, FailLife DEF PostFail
  <2>6. ASSUME NEW to \in {"tagging", "moving", "done"}, Advance(j, to),
               post[j] \in {"tag", "check", "move"}
        PROVE  [L!LifeNext]_life
    <3>1. to \in L!Phase
      BY <2>6 DEF L!Phase, L!RunPhase, L!TerminalPhase
    <3> QED BY <1>0, <2>2, <2>3, <2>6, <3>1, AdvanceLife
  <2> QED BY <1>3, <2>4, <2>5, <2>6 DEF PostStep, PostTag, PostCheck, PostMove, PostPanic
<1>4. CASE StopClose \/ StopStep
  BY <1>4, LifeSame DEF StopClose, StopStep, StopCancel, StopReturn
<1>5. CASE UNCHANGED vars
  BY <1>5, LifeSame DEF vars
<1> QED BY <1>1, <1>2, <1>3, <1>4, <1>5 DEF Next

\* Whatever the goroutines do, each job's life is one that the client was
\* promised: forward through the phases, one end, then at most forgotten.
THEOREM ImplementsLifeSafety == Spec => L!LifeInit /\ [][L!LifeNext]_life
<1>1. Init => L!LifeInit
  BY DEF Init, L!LifeInit, life
<1> QED BY <1>1, LifeStep, Invariance, PTL DEF Spec

\* Neither way of changing a phase touches a job that has ended.
LEMMA KeepsOutcome ==
  ASSUME TypeOK, NEW k \in Jobs, IsTerminal(phase[k]),
         NEW j, Fail(j) \/ (\E to \in L!Phase : Advance(j, to))
  PROVE  phase'[k] = phase[k]
<1>1. CASE Fail(j)
  BY <1>1 DEF Fail, TypeOK
<1>2. ASSUME NEW to \in L!Phase, Advance(j, to) PROVE phase'[k] = phase[k]
  BY <1>2, PhaseSets DEF Advance, L!CanTransition, TypeOK
<1> QED BY <1>1, <1>2

\* "A job that reaches it never leaves it": no step changes a finished job's
\* phase (job.go:36).
THEOREM TerminalIsAbsorbing == Spec => TerminalAbsorbing
<1> DEFINE Keeps == \A j \in Jobs : IsTerminal(phase[j]) => phase'[j] = phase[j]
<1>1. IInv /\ [Next]_vars => [Keeps]_vars
  <2> SUFFICES ASSUME IInv, Next, NEW k \in Jobs, IsTerminal(phase[k])
               PROVE  phase'[k] = phase[k]
    OBVIOUS
  <2>0. TypeOK
    BY DEF IInv
  <2>1. ASSUME NEW j \in Fresh, NEW prio, Add(j, prio) PROVE phase'[k] = phase[k]
    <3>1. k # j
      BY PhaseSets DEF Fresh
    <3> QED BY <2>0, <2>1, <3>1 DEF Add, TypeOK
  <2>2. ASSUME NEW c \in Clients, ClientCall(c) \/ ClientFinish(c)
        PROVE  phase'[k] = phase[k]
    <3>1. CASE Enqueue(c)
      BY <2>1, <3>1 DEF Enqueue
    <3>2. ASSUME NEW j \in Jobs, CancelQueued(c, j) PROVE phase'[k] = phase[k]
      <4>1. phase' = [phase EXCEPT ![j] = "cancelled"] /\ ~IsTerminal(phase[j])
        BY <3>2 DEF CancelQueued
      <4> QED BY <2>0, <4>1 DEF TypeOK
    <3>3. ASSUME NEW j \in Jobs,
                 CancelFinished(c, j) \/ CancelRunning(c, j) \/ RetryRead(c, j)
                   \/ Prioritize(c, j)
          PROVE  phase'[k] = phase[k]
      BY <3>3 DEF CancelFinished, CancelRunning, RetryRead, Prioritize
    <3>4. CASE CancelContext(c) \/ CancelEmit(c)
      BY <3>4 DEF CancelContext, CancelEmit
    <3>5. CASE RetryEnqueue(c)
      BY <2>1, <3>5 DEF RetryEnqueue
    <3> QED BY <2>2, <3>1, <3>2, <3>3, <3>4, <3>5 DEF ClientCall, ClientFinish
  <2>3. CASE WorkerStep
    <3>1. PICK w : w = worker.job
      OBVIOUS
    <3>2. CASE Fail(w) \/ \E to \in L!Phase : Advance(w, to)
      BY <2>0, <3>2, KeepsOutcome
    <3>3. CASE UNCHANGED phase
      BY <3>3
    <3>4. CASE ExpandTrack
      BY <2>1, <3>4 DEF ExpandTrack
    <3>5. {"resolving", "downloading", "done"} \subseteq L!Phase
      BY DEF L!Phase, L!RunPhase, L!TerminalPhase
    <3>6. CASE ~ExpandTrack
      <4>1. Fail(w) \/ (\E to \in L!Phase : Advance(w, to)) \/ UNCHANGED phase
        BY <2>3, <3>1, <3>5, <3>6
        DEF WorkerStep, WorkerPop, WorkerLeave, WorkerStart, WorkerResolve, ExpandEnd,
            WorkerDownload, WorkerStream, WorkerEmit, WorkerPanic, WorkerFail,
            WorkerAdvance, HandOver
      <4> QED BY <3>2, <3>3, <4>1
    <3> QED BY <3>4, <3>6
  <2>4. ASSUME NEW j \in Jobs, PostStep(j) PROVE phase'[k] = phase[k]
    <3>1. {"tagging", "moving", "done"} \subseteq L!Phase
      BY DEF L!Phase, L!RunPhase, L!TerminalPhase
    <3>2. Fail(j) \/ (\E to \in L!Phase : Advance(j, to)) \/ UNCHANGED phase
      BY <2>4, <3>1
      DEF PostStep, PostTag, PostWork, PostCheck, PostMove, PostEmit, PostPanic, PostFail
    <3> QED BY <2>0, <3>2, KeepsOutcome
  <2>5. CASE StopClose \/ StopStep
    BY <2>5 DEF StopClose, StopStep, StopCancel, StopReturn
  <2> QED BY <2>2, <2>3, <2>4, <2>5 DEF Next
<1> QED BY <1>1, Invariance, PTL DEF Spec, TerminalAbsorbing
=============================================================================
