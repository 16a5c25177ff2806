---------------------------------- MODULE MCRenderer ------------------------
(***************************************************************************)
(* The page's players, for the runs of the AAC pipe (MsePipe) and of the   *)
(* change of tracks (TrackChange), and for the proofs about the three.     *)
(* Spec and the names without a prefix are those of ALAC playback          *)
(* (VlcPlayback), whose run is of that module. A behaviour of PagesSpec is *)
(* of one of the other two, its part, chosen at the start: the variables   *)
(* keep the names that they have in their modules, and those of the other  *)
(* modules stay 0.                                                         *)
(***************************************************************************)
EXTENDS VlcPlayback, FiniteSetTheorems, WellFoundedInduction, TLAPS

CONSTANTS
  Parts,                                                         \* the parts to consider
  Last, Forward, Backward, CacheCap, MaxOps,                     \* of MsePipe
  Aac, Alac, Mv, MaxGen, MaxSessions, MaxWarm, HoverCap          \* of TrackChange

VARIABLES
  part,   \* the part this behaviour is of
  ops, used, pipeCtrl, seekCtrl, buffered, window, ended, current, cache, streamComplete,
  left,                                                          \* of MsePipe
  opened, live, deletes, vlcPlays, attempts, ctrl, sessionId, assetId, playState, vlcLive,
  lossless, gate, directGen, slots, tried, warming, warmed, hover,
  streamOf                                                       \* of TrackChange

\* The variables of one module only: MsePipe shares seekTarget with VlcPlayback, and
\* TrackChange generation, vlcMode and direct.
mseOnly   == <<ops, used, pipeCtrl, seekCtrl, buffered, window, ended, current, cache,
               streamComplete, left>>
trackOnly == <<opened, live, deletes, vlcPlays, attempts, ctrl, sessionId, assetId, playState,
               vlcLive, lossless, gate, directGen, slots, tried, warming, warmed, hover,
               streamOf>>
vlcOnly   == <<player, gone, track, started, paused, loading, prevState, frozen, postSeek,
               wasPlaying, posMs, burst, mk, note, desired, revision, epoch, cmds,
               pendingIntent, seekRevision, timer, rewound, requests, polling, fetching, polls,
               retryTimers, retries, sessionLost, resumes, advancing, yielded, deaf, user, faults>>
pageVars == <<part, mseOnly, trackOnly, vlcOnly, seekTarget, generation, vlcMode, direct>>

Mse   == INSTANCE MsePipe
Track == INSTANCE TrackChange

ASSUME PagesAssumption == Mse!PipeAssumption /\ Track!TrackAssumption
-----------------------------------------------------------------------------
NoMse ==
  /\ ops = 0 /\ used = 0 /\ pipeCtrl = 0 /\ seekCtrl = 0 /\ buffered = 0 /\ window = 0
  /\ ended = 0 /\ current = 0 /\ cache = 0 /\ streamComplete = 0 /\ left = 0
NoTrack ==
  /\ opened = 0 /\ live = 0 /\ deletes = 0 /\ vlcPlays = 0 /\ attempts = 0 /\ ctrl = 0
  /\ sessionId = 0 /\ assetId = 0 /\ playState = 0 /\ vlcLive = 0 /\ lossless = 0 /\ gate = 0
  /\ directGen = 0 /\ slots = 0 /\ tried = 0 /\ warming = 0 /\ warmed = 0 /\ hover = 0
  /\ streamOf = 0
NoVlc ==
  /\ player = 0 /\ gone = 0 /\ track = 0 /\ started = 0 /\ paused = 0 /\ loading = 0
  /\ prevState = 0 /\ frozen = 0 /\ postSeek = 0 /\ wasPlaying = 0 /\ posMs = 0 /\ burst = 0
  /\ mk = 0 /\ note = 0 /\ desired = 0 /\ revision = 0 /\ epoch = 0 /\ cmds = 0
  /\ pendingIntent = 0 /\ seekRevision = 0 /\ timer = 0 /\ rewound = 0 /\ requests = 0
  /\ polling = 0 /\ fetching = 0 /\ polls = 0 /\ retryTimers = 0 /\ retries = 0
  /\ sessionLost = 0 /\ resumes = 0 /\ advancing = 0 /\ yielded = 0 /\ deaf = 0 /\ user = 0
  /\ faults = 0

PagesInit ==
  /\ part \in Parts
  /\ \/ /\ part = "mse" /\ Mse!Init /\ NoTrack /\ NoVlc
        /\ generation = 0 /\ vlcMode = 0 /\ direct = 0
     \/ part = "track" /\ Track!Init /\ NoMse /\ NoVlc /\ seekTarget = 0

MseNext   == /\ part = "mse" /\ Mse!Next
             /\ UNCHANGED <<part, trackOnly, vlcOnly, generation, vlcMode, direct>>
TrackNext == /\ part = "track" /\ Track!Next
             /\ UNCHANGED <<part, mseOnly, vlcOnly, seekTarget>>

PagesNext == MseNext \/ TrackNext

(* Each part's fairness is that of its module. *)
PagesSpec ==
  /\ PagesInit /\ [][PagesNext]_pageVars
  /\ \A o \in Mse!Ops : WF_(Mse!vars)(part = "mse" /\ Mse!OpStep(o))
  /\ WF_(Mse!vars)(part = "mse" /\ Mse!CanPlay)
  /\ WF_(Mse!vars)(part = "mse" /\ Mse!Play)
  /\ \A g \in Track!Gens : WF_(Track!vars)(part = "track" /\ Track!AttemptStep(g))
-----------------------------------------------------------------------------
(* The buffer and the cache behind it are of one track, fed by one operation (MsePipe). *)
FeedIsSafe == part = "mse" => Mse!FeedIsSafe

(* A track is declared complete by the operation that owns the pipe, or by a seek that was
   replaced before its successor fed the buffer (MsePipe). *)
CompleteByItsOwner == [][part = "mse" => Mse!CompletesAsOwner]_pageVars

(* At most one attempt streams, the newest, with the session and the track the page shows
   (TrackChange). *)
LastChangeStreams == part = "track" => Track!LastChangeStreams

(* Whoever starts to play outside libvlc is not heard over it (TrackChange). *)
HandoffIsSafe == part = "track" => Track!HandoffIsSafe

(* Every pipe and every seek ends, or waits only for the playhead to move on (MsePipe). *)
EveryOperationEnds ==
  \A n \in Mse!Ops : part = "mse" /\ Mse!Begun(n) ~> (part = "mse" => Mse!Rests(n))

(* Every change of tracks ends or plays (TrackChange). *)
EveryChangeSettles ==
  \A n \in Track!Gens : part = "track" /\ Track!Begun(n) ~> (part = "track" => Track!Settled(n))

-----------------------------------------------------------------------------
(* What is proved of the players for every value of their constants. *)

(***************************************************************************)
(* MsePipe.  The invariant follows the two owners of the player.  An       *)
(* operation that may append is the one _pipeCtrl belongs to; a seek that  *)
(* was answered and still owns the fetch finds no owner of the pipe until  *)
(* it claims it.  A network seek that claims the player after a later one  *)
(* began breaks this, and so does every operation after it: the invariant  *)
(* is stated as long as none is "overtaken", which never becomes false.    *)
(***************************************************************************)

\* May append, or will without another look at the owners.
MseLive(o) == /\ ~ops[o].aborted
              /\ \/ ops[o].pc \in {"read", "append", "clear", "inject", "finish", "resume"}
                 \/ ops[o].pc = "fetch" /\ ops[o].kind = "first"

\* Operations are numbered as they begin.
MseBegun == /\ \A o \in Mse!Ops : o > used => /\ ops[o].kind = "first" /\ ops[o].pc = "none"
                                            /\ ~ops[o].overtaken
            /\ pipeCtrl <= used /\ seekCtrl <= used

\* Where an operation may stand.
MseKinds ==
  \A o \in Mse!Ops :
    /\ ops[o].pc \in {"clear", "inject", "finish", "resume"} => ops[o].kind = "cache"
    /\ ops[o].pc \in {"idle", "remove"} => ops[o].kind = "net"
    /\ ops[o].pc = "append" => ops[o].pos <= Last
    /\ ops[o].overtaken => ops[o].kind = "net" /\ ops[o].pc \in {"read", "append", "end"}

MseOwners ==
  (\A o \in Mse!Ops : ~ops[o].overtaken) =>
    /\ \A o \in Mse!Ops : MseLive(o) => o = pipeCtrl
    /\ \A o \in Mse!Ops : ops[o].pc \in {"idle", "remove"} /\ seekCtrl = o => pipeCtrl = 0
    /\ left => pipeCtrl = 0 /\ seekCtrl = 0

\* While a seek waits for its last append, others may replace it, but no network seek, and
\* none of them has begun to feed the buffer.
MseFinish ==
  /\ \A o \in Mse!Ops : ops[o].kind = "cache" => left \/ cache # {}
  /\ (\A o \in Mse!Ops : ~ops[o].overtaken) =>
       \A o \in Mse!Ops : ops[o].pc = "finish" =>
         /\ seekCtrl # 0 => ops[seekCtrl].kind # "net"
         /\ \A p \in Mse!Ops : MseLive(p) => p = o \/ ops[p].pc = "clear"

MseInv == Mse!TypeOK /\ MseBegun /\ MseKinds /\ MseOwners /\ MseFinish

\* A set of numbers up to n has a greatest and a least element, which Max and Min choose.
LEMMA LeastExists ==
  ASSUME NEW n \in Nat, NEW S \in SUBSET (1 .. n), S # {}
  PROVE  \E x \in S : \A y \in S : x =< y
<1>1. S \in SUBSET Nat /\ \A x \in S : x \in Nat
  OBVIOUS
<1>2. \E x \in S : \A y \in S : ~(<<y, x>> \in OpToRel(<, Nat))
  BY <1>1, NatLessThanWellFounded, WFMin
<1>3. PICK x \in S : \A y \in S : ~(y < x)
  BY <1>1, <1>2 DEF OpToRel
<1> QED BY <1>1, <1>3

LEMMA LeastChosen ==
  ASSUME NEW n \in Nat, NEW S \in SUBSET (1 .. n), S # {}
  PROVE  Mse!Min(S) \in S
<1>1. \E x \in S : \A y \in S : x =< y
  BY LeastExists
<1> QED BY <1>1 DEF Mse!Min

LEMMA GreatestChosen ==
  ASSUME NEW n \in Nat, NEW S \in SUBSET (1 .. n), S # {}
  PROVE  Mse!Max(S) \in S
<1> DEFINE T == {n - x : x \in S}
<1>1. \A x \in S : x \in Nat /\ n - x \in Nat
  OBVIOUS
<1>2. T \in SUBSET Nat /\ T # {}
  BY <1>1
<1>3. \E x \in T : \A y \in T : ~(<<y, x>> \in OpToRel(<, Nat))
  BY <1>2, NatLessThanWellFounded, WFMin
<1>4. PICK m \in T : \A y \in T : ~(y < m)
  BY <1>2, <1>3 DEF OpToRel
<1>5. PICK x \in S : m = n - x
  BY <1>4
<1>6. \A y \in S : ~(n - y < n - x)
  BY <1>4, <1>5
<1>7. \A y \in S : x >= y
  BY <1>1, <1>6
<1> QED BY <1>7 DEF Mse!Max

\* The module's finite sets are those of the library's theorems.
LEMMA SameCardinality ==
  ASSUME NEW S
  PROVE  /\ Mse!IsFiniteSet(S) <=> IsFiniteSet(S)
         /\ Mse!Cardinality(S) = Cardinality(S)
<1>1. Mse!IsFiniteSet(S) <=> IsFiniteSet(S)
  BY DEF Mse!IsFiniteSet, IsFiniteSet
<1> QED BY <1>1 DEF Mse!Cardinality, Cardinality

LEMMA MseInitEstablishes ==
  ASSUME Mse!PipeAssumption
  PROVE  Mse!Init => MseInv
<1> SUFFICES ASSUME Mse!Init PROVE MseInv
  OBVIOUS
<1>1. Mse!NoOp \in Mse!Op /\ 1 \in Mse!Ops /\ Mse!NoOp.pc = "none"
  BY DEF Mse!PipeAssumption, Mse!NoOp, Mse!Op, Mse!Pcs, Mse!Chunks, Mse!Ops
<1>2. Mse!TypeOK
  <2>1. ops \in [Mse!Ops -> Mse!Op]
    BY <1>1 DEF Mse!Init, Mse!Op, Mse!Pcs
  <2>2. Mse!Cardinality(cache) <= CacheCap
    BY FS_EmptySet, SameCardinality DEF Mse!Init, Mse!PipeAssumption
  <2>3. {ended, streamComplete, left} \subseteq BOOLEAN
    BY DEF Mse!Init
  <2>4. used \in Mse!Ops /\ pipeCtrl \in 0 .. MaxOps /\ seekCtrl \in 0 .. MaxOps
    BY <1>1 DEF Mse!Init, Mse!Ops, Mse!PipeAssumption
  <2>5. window \in 0 .. Last /\ current \in Mse!Chunks
    BY DEF Mse!Init, Mse!Chunks, Mse!PipeAssumption
  <2> QED BY <2>1, <2>2, <2>3, <2>4, <2>5 DEF Mse!Init, Mse!TypeOK
<1>3. MseBegun
  BY <1>1 DEF Mse!Init, MseBegun, Mse!Ops, Mse!NoOp, Mse!PipeAssumption
<1>4. MseKinds
  BY <1>1 DEF Mse!Init, MseKinds, Mse!Ops, Mse!NoOp
<1>5. MseOwners
  BY <1>1 DEF Mse!Init, MseOwners, MseLive, Mse!Ops, Mse!NoOp
<1>6. MseFinish
  BY <1>1 DEF Mse!Init, MseFinish, Mse!Ops, Mse!NoOp
<1> QED BY <1>2, <1>3, <1>4, <1>5, <1>6 DEF MseInv

LEMMA MseStepTypes ==
  ASSUME Mse!PipeAssumption, MseInv, Mse!Next
  PROVE  Mse!TypeOK'
<1> USE DEF Mse!Ops, Mse!Chunks
<1> DEFINE Typed == ops' \in [Mse!Ops -> Mse!Op]
<1>1. /\ Last \in Nat \ {0} /\ MaxOps \in Nat \ {0} /\ 1 \in Mse!Chunks /\ Mse!TypeOK
      /\ \A o \in Mse!Ops : ops[o] \in Mse!Op
      /\ used \in Mse!Ops /\ pipeCtrl \in 0 .. MaxOps /\ seekCtrl \in 0 .. MaxOps
      /\ buffered \subseteq Mse!Chunks /\ window \in 0 .. Last
      /\ current \in Mse!Chunks /\ seekTarget \in Mse!Chunks \union {None}
  BY DEF Mse!PipeAssumption, MseInv, Mse!TypeOK
<1>2. \A o \in Mse!Ops : \A r \in Mse!Op : [ops EXCEPT ![o] = r] \in [Mse!Ops -> Mse!Op]
  BY <1>1 DEF Mse!TypeOK
<1>3. ASSUME NEW o \in Mse!Ops, NEW pc \in Mse!Pcs, Mse!Go(o, pc)
      PROVE  Typed
  <2>1. [ops[o] EXCEPT !.pc = pc] \in Mse!Op
    BY <1>1 DEF Mse!Op
  <2> QED BY <1>2, <1>3, <2>1 DEF Mse!Go
<1>4. ASSUME NEW o \in Mse!Ops, Mse!Stop(o)
      PROVE  Typed
  <2>1. [ops[o] EXCEPT !.pc = "end", !.todo = {}, !.target = 1] \in Mse!Op
    BY <1>1 DEF Mse!Op, Mse!Pcs
  <2> QED BY <1>2, <1>4, <2>1 DEF Mse!Stop
<1>5. /\ Mse!NoOp \in Mse!Op
      /\ Mse!AbortPipe \in [Mse!Ops -> Mse!Op]
      /\ \A o \in Mse!Ops : \A r \in Mse!Op : [Mse!AbortPipe EXCEPT ![o] = r] \in [Mse!Ops -> Mse!Op]
  <2>1. \A o \in Mse!Ops : [ops[o] EXCEPT !.aborted = TRUE] \in Mse!Op
    BY <1>1 DEF Mse!Op
  <2>2. Mse!AbortPipe \in [Mse!Ops -> Mse!Op]
    BY <1>1, <2>1 DEF Mse!AbortPipe
  <2>3. Mse!NoOp \in Mse!Op
    BY <1>1 DEF Mse!NoOp, Mse!Op, Mse!Pcs
  <2> QED BY <2>2, <2>3
<1>6. \A t \in Mse!Chunks : Mse!BufferEnd(t) \in 1 .. Last + 1
  <2>1. buffered # {} => Mse!Max(buffered) \in 1 .. Last
    BY <1>1, GreatestChosen DEF Mse!TypeOK
  <2> QED BY <1>1, <2>1 DEF Mse!BufferEnd
<1>7. ASSUME NEW o \in Mse!Ops, Mse!OpStep(o) \/ Mse!ReadFails(o) \/ Mse!InjectFull(o)
      PROVE  Typed
  <2>1. CASE Mse!Fetched(o)
    BY <1>3, <1>4, <2>1 DEF Mse!Fetched, Mse!Pcs
  <2>2. CASE Mse!ReadFails(o)
    <3> DEFINE pos == IF Mse!BufferEnd(1) > 2 THEN Mse!BufferEnd(1) ELSE 1
    <3>1. pos \in 1 .. Last + 1
      BY <1>1, <1>6
    <3>2. [ops[o] EXCEPT !.complete = TRUE, !.pos = pos] \in Mse!Op
      BY <1>1, <3>1 DEF Mse!Op
    <3> QED BY <1>2, <2>2, <3>2 DEF Mse!ReadFails
  <2>3. CASE Mse!Read(o)
    BY <1>3, <1>4, <2>3 DEF Mse!Read, Mse!Pcs
  <2>4. CASE Mse!Append(o)
    <3>1. CASE ops[o].aborted
      BY <1>4, <2>4, <3>1 DEF Mse!Append
    <3>2. CASE ~ops[o].aborted
      <4>1. ops[o].pos + 1 \in 1 .. Last + 1
        BY <1>1, <2>4 DEF MseInv, MseKinds, Mse!Append, Mse!Op
      <4>2. [ops[o] EXCEPT !.pc = "read", !.pos = ops[o].pos + 1] \in Mse!Op
        BY <1>1, <4>1 DEF Mse!Op, Mse!Pcs
      <4> QED BY <1>2, <2>4, <3>2, <4>2 DEF Mse!Append
    <3> QED BY <3>1, <3>2
  <2>5. CASE Mse!StreamEnd(o)
    BY <1>4, <2>5 DEF Mse!StreamEnd
  <2>6. CASE Mse!SeekFetched(o)
    <3>1. \A r \in Mse!Op : [r EXCEPT !.pc = "idle"] \in Mse!Op
      BY DEF Mse!Op, Mse!Pcs
    <3>2. [Mse!AbortPipe[o] EXCEPT !.pc = "idle"] \in Mse!Op
      BY <1>5, <3>1
    <3> QED BY <1>4, <1>5, <2>6, <3>2 DEF Mse!SeekFetched
  <2>7. CASE Mse!SeekRemove(o)
    BY <1>3, <2>7 DEF Mse!SeekRemove, Mse!Pcs
  <2>8. CASE Mse!SeekClaims(o)
    <3> DEFINE late == seekCtrl # o \/ left
    <3> DEFINE claimed(b) == [ops[o] EXCEPT !.pc = "read", !.pos = ops[o].target, !.canplay = TRUE,
                                            !.overtaken = b]
    <3>1. claimed(TRUE) \in Mse!Op /\ claimed(FALSE) \in Mse!Op
      <4>. ops[o].target \in 1 .. Last + 1
        BY <1>1 DEF Mse!Op
      <4>1. [ops[o] EXCEPT !.pc = "read", !.pos = ops[o].target] \in Mse!Op
        BY <1>1 DEF Mse!Op, Mse!Pcs
      <4>2. \A r \in Mse!Op : [r EXCEPT !.canplay = TRUE] \in Mse!Op
        BY DEF Mse!Op
      <4>3. \A r \in Mse!Op : /\ [r EXCEPT !.overtaken = TRUE] \in Mse!Op
                             /\ [r EXCEPT !.overtaken = FALSE] \in Mse!Op
        BY DEF Mse!Op
      <4> QED BY <4>1, <4>2, <4>3
    <3>2. late = TRUE \/ late = FALSE
      OBVIOUS
    <3>3. claimed(late) \in Mse!Op
      BY <3>1, <3>2
    <3> QED BY <1>2, <2>8, <3>3 DEF Mse!SeekClaims
  <2>9. CASE Mse!ReadAborted(o)
    BY <1>4, <2>9 DEF Mse!ReadAborted
  <2>10. CASE Mse!CacheClear(o)
    BY <1>3, <1>4, <2>10 DEF Mse!CacheClear, Mse!Pcs
  <2>11. CASE Mse!CacheInject(o)
    <3> DEFINE rest == ops[o].todo \ {Mse!Min(ops[o].todo)}
    <3>1. [ops[o] EXCEPT !.todo = rest] \in Mse!Op
      BY <1>1 DEF Mse!Op
    <3> QED BY <1>2, <1>4, <2>11, <3>1 DEF Mse!CacheInject
  <2>12. CASE Mse!InjectFull(o)
    BY <1>4, <2>12 DEF Mse!InjectFull
  <2>13. CASE Mse!CacheFinalize(o)
    BY <1>3, <1>4, <2>13 DEF Mse!CacheFinalize, Mse!Pcs
  <2>15. CASE Mse!CacheFinish(o)
    <3>1. [ops[o] EXCEPT !.pc = "resume", !.pos = Mse!BufferEnd(ops[o].target)] \in Mse!Op
      BY <1>1, <1>6 DEF Mse!Op, Mse!Pcs
    <3> QED BY <1>2, <1>4, <2>15, <3>1 DEF Mse!CacheFinish
  <2>14. CASE Mse!CacheResume(o)
    BY <1>3, <1>4, <2>14 DEF Mse!CacheResume, Mse!Pcs
  <2> QED BY <1>7, <2>1, <2>2, <2>3, <2>4, <2>5, <2>6, <2>7, <2>8, <2>9, <2>10, <2>11, <2>12,
             <2>13, <2>14, <2>15 DEF Mse!OpStep
<1>8. ASSUME NEW t \in Mse!Chunks, Mse!Seek(t)
      PROVE  Typed
  <2>1. CASE Mse!CacheSeek(t)
    <3>1. [Mse!NoOp EXCEPT !.kind = "cache", !.pc = "clear", !.target = t, !.complete = streamComplete,
                           !.todo = cache, !.canplay = TRUE] \in Mse!Op
      BY <1>1, <1>5 DEF Mse!Op, Mse!Pcs, Mse!TypeOK
    <3>2. used + 1 \in Mse!Ops
      BY <1>1, <2>1 DEF Mse!CacheSeek, Mse!TypeOK
    <3> QED BY <1>5, <2>1, <3>1, <3>2 DEF Mse!CacheSeek
  <2>2. CASE Mse!NetworkSeek(t)
    <3>1. [Mse!NoOp EXCEPT !.kind = "net", !.pc = "fetch", !.target = t] \in Mse!Op
      BY <1>1, <1>5 DEF Mse!Op, Mse!Pcs
    <3>2. used + 1 \in Mse!Ops
      BY <1>1, <2>2 DEF Mse!NetworkSeek, Mse!TypeOK
    <3> QED BY <1>2, <2>2, <3>1, <3>2 DEF Mse!NetworkSeek
  <2> QED BY <1>1, <1>8, <2>1, <2>2 DEF Mse!Seek, Mse!SeekBuffered, Mse!Guarded, Mse!TypeOK
<1>9. Mse!CanPlay => Typed
  <2>1. \A o \in Mse!Ops : [ops[o] EXCEPT !.canplay = FALSE] \in Mse!Op
    BY <1>1 DEF Mse!Op
  <2> QED BY <2>1 DEF Mse!CanPlay
<1>10. Typed
  BY <1>1, <1>5, <1>7, <1>8, <1>9 DEF Mse!Next, Mse!Play, Mse!Leave, Mse!TypeOK
<1> DEFINE Rest == /\ used' \in Mse!Ops /\ pipeCtrl' \in 0 .. MaxOps /\ seekCtrl' \in 0 .. MaxOps
                   /\ buffered' \subseteq Mse!Chunks /\ window' \in 0 .. Last
                   /\ current' \in Mse!Chunks /\ seekTarget' \in Mse!Chunks \union {None}
<1>11. ASSUME NEW o \in Mse!Ops, Mse!OpStep(o) \/ Mse!ReadFails(o) \/ Mse!InjectFull(o)
       PROVE  Rest
  <2>1. ops[o].pos <= Last => ops[o].pos \in Mse!Chunks
    BY <1>1 DEF Mse!Op
  <2>2. ops[o].target \in Mse!Chunks /\ ops[o].todo \subseteq Mse!Chunks
    BY <1>1 DEF Mse!Op
  <2>3. ops[o].todo # {} => Mse!Min(ops[o].todo) \in Mse!Chunks
    BY <1>1, <2>2, LeastChosen
  <2>4. ops[o].pc = "append" => ops[o].pos <= Last
    BY DEF MseInv, MseKinds
  <2>5. Mse!SeekFetched(o) \/ Mse!SeekClaims(o) \/ UNCHANGED <<used, Mse!owners>>
    BY <1>11 DEF Mse!OpStep, Mse!Fetched, Mse!ReadFails, Mse!Read, Mse!Append, Mse!StreamEnd,
       Mse!SeekRemove, Mse!ReadAborted, Mse!CacheClear, Mse!CacheInject, Mse!InjectFull,
       Mse!CacheFinalize, Mse!CacheFinish, Mse!CacheResume
  <2>6. used' \in Mse!Ops /\ pipeCtrl' \in 0 .. MaxOps /\ seekCtrl' \in 0 .. MaxOps
    BY <1>1, <2>5 DEF Mse!SeekFetched, Mse!SeekClaims, Mse!owners
  <2>7. seekTarget' = seekTarget
    BY <1>11 DEF Mse!OpStep, Mse!Fetched, Mse!ReadFails, Mse!Read, Mse!Append, Mse!StreamEnd,
       Mse!SeekFetched, Mse!SeekClaims, Mse!SeekRemove, Mse!ReadAborted, Mse!CacheClear,
       Mse!CacheInject, Mse!InjectFull, Mse!CacheFinalize, Mse!CacheFinish, Mse!CacheResume
  <2>8. /\ window' = window \/ window' = ops[o].target
        /\ current' = current \/ current' = ops[o].target
    BY <1>11 DEF Mse!OpStep, Mse!Fetched, Mse!ReadFails, Mse!Read, Mse!Append, Mse!StreamEnd,
       Mse!SeekFetched, Mse!SeekClaims, Mse!SeekRemove, Mse!ReadAborted, Mse!CacheClear,
       Mse!CacheInject, Mse!InjectFull, Mse!CacheFinalize, Mse!CacheFinish, Mse!CacheResume, Mse!media
  <2>9. \/ buffered' \subseteq buffered
        \/ ops[o].pc = "append" /\ buffered' = buffered \union {ops[o].pos}
        \/ ops[o].todo # {} /\ buffered' = buffered \union {Mse!Min(ops[o].todo)}
    BY <1>11 DEF Mse!OpStep, Mse!Fetched, Mse!ReadFails, Mse!Read, Mse!Append, Mse!StreamEnd,
       Mse!SeekFetched, Mse!SeekClaims, Mse!SeekRemove, Mse!ReadAborted, Mse!CacheClear,
       Mse!CacheInject, Mse!InjectFull, Mse!CacheFinalize, Mse!CacheFinish, Mse!CacheResume, Mse!media,
       Mse!AppendChunk
  <2>10. buffered' \subseteq Mse!Chunks
    BY <1>1, <2>1, <2>3, <2>4, <2>9
  <2>11. window' \in 0 .. Last /\ current' \in Mse!Chunks
    BY <1>1, <2>2, <2>8
  <2> QED BY <1>1, <2>6, <2>7, <2>10, <2>11
<1>12. ASSUME NEW t \in Mse!Chunks, Mse!Seek(t)
       PROVE  Rest
  <2>1. used < MaxOps => used + 1 \in Mse!Ops /\ used + 1 \in 0 .. MaxOps
    BY <1>1
  <2>2. buffered' = buffered /\ window' = window /\ current' = t /\ seekTarget' \in {t, None, seekTarget}
    BY <1>12 DEF Mse!Seek, Mse!SeekBuffered, Mse!Guarded, Mse!CacheSeek, Mse!NetworkSeek
  <2>3. \/ UNCHANGED <<used, pipeCtrl, seekCtrl>>
        \/ /\ used < MaxOps /\ used' = used + 1 /\ seekCtrl' = used + 1
           /\ pipeCtrl' \in {pipeCtrl, used + 1}
    BY <1>12 DEF Mse!Seek, Mse!SeekBuffered, Mse!Guarded, Mse!CacheSeek, Mse!NetworkSeek, Mse!owners
  <2> QED BY <1>1, <2>1, <2>2, <2>3
<1>13. ASSUME Mse!Play \/ Mse!CanPlay \/ Mse!Leave
       PROVE  Rest
  BY <1>1, <1>13 DEF Mse!Play, Mse!CanPlay, Mse!Leave, Mse!owners, Mse!media
<1>14. Rest
  BY <1>11, <1>12, <1>13 DEF Mse!Next
<1>15. cache' \subseteq Mse!Chunks /\ Mse!Cardinality(cache') <= CacheCap
  <2>1. /\ IsFiniteSet(cache) /\ Cardinality(cache) \in Nat /\ CacheCap \in Nat
        /\ cache \subseteq Mse!Chunks /\ Cardinality(cache) <= CacheCap
    <3>1. IsFiniteSet(1 .. Last)
      BY <1>1, FS_Interval
    <3>2. cache \subseteq 1 .. Last /\ Cardinality(cache) <= CacheCap
      BY <1>1, SameCardinality DEF Mse!TypeOK
    <3> QED BY <3>1, <3>2, FS_Subset, FS_CardinalityType DEF Mse!PipeAssumption
  <2>2. \/ cache' = cache
        \/ cache' = {}
        \/ \E c \in Mse!Chunks : ~(Mse!Cardinality(cache) >= CacheCap) /\ cache' = cache \union {c}
    <3>1. ASSUME NEW o \in Mse!Ops, Mse!Read(o)
          PROVE  \/ cache' = cache
                 \/ \E c \in Mse!Chunks : ~(Mse!Cardinality(cache) >= CacheCap)
                                         /\ cache' = cache \union {c}
      <4>1. ops[o].pos \in Mse!Chunks
        BY <1>1, <3>1 DEF Mse!Read, Mse!Op
      <4> QED BY <3>1, <4>1 DEF Mse!Read, Mse!CacheChunk
    <3>2. ASSUME NEW o \in Mse!Ops, Mse!OpStep(o) \/ Mse!ReadFails(o) \/ Mse!InjectFull(o), ~Mse!Read(o)
          PROVE  cache' = cache
      BY <3>2 DEF Mse!OpStep, Mse!Fetched, Mse!ReadFails, Mse!Append, Mse!StreamEnd,
       Mse!SeekFetched, Mse!SeekClaims, Mse!SeekRemove, Mse!ReadAborted, Mse!CacheClear,
       Mse!CacheInject, Mse!InjectFull, Mse!CacheFinalize, Mse!CacheFinish, Mse!CacheResume
    <3>3. ASSUME NEW t \in Mse!Chunks, Mse!Seek(t)
          PROVE  cache' = cache
      BY <3>3 DEF Mse!Seek, Mse!SeekBuffered, Mse!Guarded, Mse!CacheSeek, Mse!NetworkSeek
    <3> QED BY <3>1, <3>2, <3>3 DEF Mse!Next, Mse!Play, Mse!CanPlay, Mse!Leave
  <2>3. ASSUME NEW c \in Mse!Chunks
        PROVE  Cardinality(cache \union {c}) <= Cardinality(cache) + 1
    <3>1. Cardinality(cache) \in Nat
      BY <2>1, FS_CardinalityType
    <3>2. Cardinality(cache \union {c}) \in {Cardinality(cache), Cardinality(cache) + 1}
      BY <2>1, FS_AddElement
    <3> QED BY <3>1, <3>2
  <2>4. Cardinality({}) = 0
    BY FS_EmptySet
  <2>5. cache' \subseteq Mse!Chunks /\ Cardinality(cache') <= CacheCap
    <3>1. CASE cache' = cache
      BY <2>1, <3>1
    <3>2. CASE cache' = {}
      BY <2>1, <2>4, <3>2
    <3>3. ASSUME NEW c \in Mse!Chunks, ~(Cardinality(cache) >= CacheCap), cache' = cache \union {c}
          PROVE  cache' \subseteq Mse!Chunks /\ Cardinality(cache') <= CacheCap
      <4>1. Cardinality(cache') \in Nat
        BY <2>1, <3>3, FS_AddElement, FS_CardinalityType
      <4> QED BY <2>1, <2>3, <3>3, <4>1
    <3> QED BY <2>2, <3>1, <3>2, <3>3, SameCardinality
  <2> QED BY <2>5, SameCardinality
<1>16. {ended', streamComplete', left'} \subseteq BOOLEAN
  BY <1>1 DEF Mse!Next, Mse!OpStep, Mse!Fetched, Mse!ReadFails, Mse!Read, Mse!Append, Mse!StreamEnd,
       Mse!SeekFetched, Mse!SeekRemove, Mse!SeekClaims, Mse!ReadAborted, Mse!CacheClear,
       Mse!CacheInject, Mse!InjectFull, Mse!CacheFinalize, Mse!CacheFinish, Mse!CacheResume, Mse!Seek,
       Mse!SeekBuffered, Mse!Guarded, Mse!CacheSeek, Mse!NetworkSeek, Mse!Play, Mse!CanPlay,
       Mse!Leave, Mse!media, Mse!TypeOK, Mse!AppendChunk
<1> QED BY <1>10, <1>14, <1>15, <1>16 DEF Mse!TypeOK

\* What the steps of an operation do to it, but for the answer and the claim of a network
\* seek: it gets no nearer to the player than it was, and no other one changes.
LEMMA MseMoves ==
  ASSUME Mse!PipeAssumption, MseInv, NEW o \in Mse!Ops,
         Mse!OpStep(o) \/ Mse!ReadFails(o) \/ Mse!InjectFull(o),
         ~Mse!SeekFetched(o), ~Mse!SeekClaims(o)
  PROVE  /\ UNCHANGED <<used, pipeCtrl, seekCtrl, left>>
         /\ \A p \in Mse!Ops \ {o} : ops'[p] = ops[p]
         /\ ops'[o].kind = ops[o].kind /\ ops'[o].aborted = ops[o].aborted
         /\ ops'[o].overtaken = ops[o].overtaken
         /\ \/ ops'[o].pc = "end"
            \/ ops[o].pc = "fetch" /\ ops[o].kind = "first" /\ ops'[o].pc = "read"
            \/ ops[o].pc \in {"read", "append"} /\ ops'[o].pc = "read"
            \/ ops[o].pc = "read" /\ ops'[o].pc = "append" /\ ops'[o].pos <= Last
            \/ ops[o].pc = "idle" /\ ops'[o].pc = "remove"
            \/ ops[o].pc = "clear" /\ ops'[o].pc = "inject" /\ Mse!NobodyFinishes
            \/ ops[o].pc = "inject" /\ ops'[o].pc = "inject"
            \/ /\ ops[o].pc = "inject" /\ ops'[o].pc = "finish"
               /\ ~ops[o].aborted /\ seekCtrl = o
            \/ ops[o].pc = "finish" /\ ops'[o].pc = "resume"
            \/ ops[o].pc = "resume" /\ ops'[o].pc = "read"
<1> USE DEF Mse!Ops
<1>1. ops \in [Mse!Ops -> Mse!Op] /\ ops[o] \in Mse!Op
  BY DEF MseInv, Mse!TypeOK
<1>2. UNCHANGED <<used, pipeCtrl, seekCtrl, left>>
  BY DEF Mse!OpStep, Mse!Fetched, Mse!ReadFails, Mse!Read, Mse!Append, Mse!StreamEnd,
     Mse!SeekRemove, Mse!ReadAborted, Mse!CacheClear, Mse!CacheInject, Mse!InjectFull,
     Mse!CacheFinalize, Mse!CacheFinish, Mse!CacheResume, Mse!owners
<1>3. \E r : ops' = [ops EXCEPT ![o] = r]
  BY DEF Mse!OpStep, Mse!Fetched, Mse!ReadFails, Mse!Read, Mse!Append, Mse!StreamEnd,
     Mse!SeekRemove, Mse!ReadAborted, Mse!CacheClear, Mse!CacheInject, Mse!InjectFull,
     Mse!CacheFinalize, Mse!CacheFinish, Mse!CacheResume, Mse!Go, Mse!Stop
<1>4. \A p \in Mse!Ops \ {o} : ops'[p] = ops[p]
  BY <1>1, <1>3
<1> DEFINE Keeps == /\ ops'[o].kind = ops[o].kind /\ ops'[o].aborted = ops[o].aborted
                    /\ ops'[o].overtaken = ops[o].overtaken
<1>5. \A pc : Mse!Go(o, pc) => Keeps /\ ops'[o].pc = pc /\ ops'[o].pos = ops[o].pos
  BY <1>1 DEF Mse!Go, Mse!Op
<1>6. Mse!Stop(o) => Keeps /\ ops'[o].pc = "end"
  BY <1>1 DEF Mse!Stop, Mse!Op
<1>7. CASE Mse!ReadFails(o)
  BY <1>1, <1>2, <1>4, <1>7 DEF Mse!ReadFails, Mse!Op
<1>8. CASE Mse!Append(o)
  <2>1. \/ Mse!Stop(o)
        \/ ops' = [ops EXCEPT ![o] = [ops[o] EXCEPT !.pc = "read", !.pos = ops[o].pos + 1]]
    BY <1>8 DEF Mse!Append
  <2>2. Mse!Stop(o) \/ (Keeps /\ ops'[o].pc = "read")
    BY <1>1, <2>1 DEF Mse!Op
  <2> QED BY <1>2, <1>4, <1>6, <1>8, <2>2 DEF Mse!Append
<1>9. CASE Mse!CacheInject(o)
  BY <1>1, <1>2, <1>4, <1>6, <1>9 DEF Mse!CacheInject, Mse!Op
<1>10. CASE Mse!CacheFinish(o)
  <2> DEFINE pos == Mse!BufferEnd(ops[o].target)
  <2>1. Mse!Stop(o) \/ ops' = [ops EXCEPT ![o] = [ops[o] EXCEPT !.pc = "resume", !.pos = pos]]
    BY <1>10 DEF Mse!CacheFinish
  <2> HIDE DEF pos
  <2>2. Mse!Stop(o) \/ (Keeps /\ ops'[o].pc = "resume")
    BY <1>1, <2>1 DEF Mse!Op
  <2> QED BY <1>2, <1>4, <1>6, <1>10, <2>2 DEF Mse!CacheFinish
<1>15. CASE Mse!CacheFinalize(o)
  BY <1>2, <1>4, <1>5, <1>6, <1>15 DEF Mse!CacheFinalize
<1>11. CASE Mse!StreamEnd(o) \/ Mse!ReadAborted(o) \/ Mse!InjectFull(o)
  BY <1>2, <1>4, <1>6, <1>11 DEF Mse!StreamEnd, Mse!ReadAborted, Mse!InjectFull
<1>12. CASE Mse!Fetched(o) \/ Mse!SeekRemove(o)
  BY <1>2, <1>4, <1>5, <1>6, <1>12 DEF Mse!Fetched, Mse!SeekRemove
<1>13. CASE Mse!Read(o)
  BY <1>2, <1>4, <1>5, <1>6, <1>13 DEF Mse!Read
<1>14. CASE Mse!CacheClear(o) \/ Mse!CacheResume(o)
  BY <1>2, <1>4, <1>5, <1>6, <1>14 DEF Mse!CacheClear, Mse!CacheResume
<1> QED BY <1>7, <1>8, <1>9, <1>10, <1>11, <1>12, <1>13, <1>14, <1>15 DEF Mse!OpStep

\* Of an operation that a step leaves alone, at most its abort and its listener change.
MseSame(p) == /\ ops'[p].kind = ops[p].kind /\ ops'[p].pc = ops[p].pc /\ ops'[p].pos = ops[p].pos
              /\ ops'[p].complete = ops[p].complete /\ ops'[p].overtaken = ops[p].overtaken
              /\ ops[p].aborted => ops'[p].aborted

\* An abort reaches the owner of the pipe and leaves the rest alone.
LEMMA MseAborts ==
  ASSUME MseInv, NEW p \in Mse!Ops
  PROVE  /\ Mse!AbortPipe[p] \in Mse!Op
         /\ Mse!AbortPipe[p].kind = ops[p].kind /\ Mse!AbortPipe[p].pc = ops[p].pc
         /\ Mse!AbortPipe[p].pos = ops[p].pos /\ Mse!AbortPipe[p].complete = ops[p].complete
         /\ Mse!AbortPipe[p].overtaken = ops[p].overtaken
         /\ ops[p].aborted \/ p = pipeCtrl => Mse!AbortPipe[p].aborted
<1>1. ops \in [Mse!Ops -> Mse!Op] /\ ops[p] \in Mse!Op
  BY DEF MseInv, Mse!TypeOK
<1>2. [ops[p] EXCEPT !.aborted = TRUE] \in Mse!Op
  BY <1>1 DEF Mse!Op
<1>3. CASE p = pipeCtrl
  BY <1>1, <1>2, <1>3 DEF Mse!AbortPipe, Mse!Op
<1>4. CASE p # pipeCtrl
  BY <1>1, <1>4 DEF Mse!AbortPipe
<1> QED BY <1>3, <1>4

\* The answer to a network seek: the pipe it replaces is aborted and nobody's.
LEMMA MseAnswer ==
  ASSUME MseInv, NEW o \in Mse!Ops, Mse!SeekFetched(o)
  PROVE  /\ ops[o].kind = "net" /\ ops[o].pc = "fetch"
         /\ UNCHANGED <<used, seekCtrl, left, streamComplete>>
         /\ ops'[o].kind = ops[o].kind /\ ops'[o].overtaken = ops[o].overtaken
         /\ \A p \in Mse!Ops \ {o} : MseSame(p)
         /\ \/ /\ pipeCtrl' = 0 /\ ops'[o].pc = "idle"
               /\ \A p \in Mse!Ops \ {o} : p = pipeCtrl => ops'[p].aborted
            \/ pipeCtrl' = pipeCtrl /\ ops'[o].pc = "end"
<1>1. ops \in [Mse!Ops -> Mse!Op] /\ ops[o] \in Mse!Op
  BY DEF MseInv, Mse!TypeOK
<1>2. /\ ops[o].kind = "net" /\ ops[o].pc = "fetch"
      /\ UNCHANGED <<used, seekCtrl, left, streamComplete>>
  BY DEF Mse!SeekFetched
<1>3. CASE Mse!Stop(o) /\ UNCHANGED pipeCtrl
  <2>1. \A p \in Mse!Ops \ {o} : ops'[p] = ops[p]
    BY <1>1, <1>3 DEF Mse!Stop
  <2>2. ops'[o] = [ops[o] EXCEPT !.pc = "end", !.todo = {}, !.target = 1]
    BY <1>1, <1>3 DEF Mse!Stop
  <2> QED BY <1>1, <1>2, <1>3, <2>1, <2>2 DEF MseSame, Mse!Op
<1>4. CASE ops' = [Mse!AbortPipe EXCEPT ![o].pc = "idle"] /\ pipeCtrl' = 0
  <2>1. \A p \in Mse!Ops \ {o} : ops'[p] = Mse!AbortPipe[p]
    BY <1>4 DEF Mse!AbortPipe
  <2>2. ops'[o] = [Mse!AbortPipe[o] EXCEPT !.pc = "idle"]
    BY <1>4 DEF Mse!AbortPipe
  <2>3. /\ ops'[o].kind = ops[o].kind /\ ops'[o].overtaken = ops[o].overtaken
        /\ ops'[o].pc = "idle"
    BY <2>2, MseAborts DEF Mse!Op
  <2> QED BY <1>2, <1>4, <2>1, <2>3, MseAborts DEF MseSame
<1> QED BY <1>3, <1>4 DEF Mse!SeekFetched

\* The claim of a network seek.
LEMMA MseClaim ==
  ASSUME MseInv, NEW o \in Mse!Ops, Mse!SeekClaims(o)
  PROVE  /\ ops[o].pc = "remove" /\ ops'[o].pc = "read" /\ ops'[o].kind = ops[o].kind
         /\ ops'[o].overtaken = (seekCtrl # o \/ left)
         /\ \A p \in Mse!Ops \ {o} : ops'[p] = ops[p]
         /\ pipeCtrl' = o /\ UNCHANGED <<used, seekCtrl, left, streamComplete>>
<1>1. ops \in [Mse!Ops -> Mse!Op] /\ ops[o] \in Mse!Op
  BY DEF MseInv, Mse!TypeOK
<1> DEFINE late == seekCtrl # o \/ left
<1>2. ops' = [ops EXCEPT ![o] = [ops[o] EXCEPT !.pc = "read", !.pos = ops[o].target, !.canplay = TRUE,
                                               !.overtaken = late]]
  BY DEF Mse!SeekClaims
<1> HIDE DEF late
<1>3. /\ \A p \in Mse!Ops \ {o} : ops'[p] = ops[p]
      /\ ops'[o].pc = "read" /\ ops'[o].kind = ops[o].kind /\ ops'[o].overtaken = late
  BY <1>1, <1>2 DEF Mse!Op
<1> QED BY <1>3 DEF Mse!SeekClaims, late

\* A seek begins: the next operation takes the player, or leaves it until its answer.
LEMMA MseSeeks ==
  ASSUME Mse!PipeAssumption, MseInv, NEW t \in Mse!Chunks,
         Mse!Seek(t), Mse!CacheSeek(t) \/ Mse!NetworkSeek(t)
  PROVE  /\ used < MaxOps /\ used' = used + 1 /\ seekCtrl' = used' /\ ~streamComplete'
         /\ UNCHANGED left
         /\ \A p \in Mse!Ops \ {used'} : MseSame(p)
         /\ ~ops'[used'].overtaken
         /\ \/ /\ pipeCtrl' = used' /\ ops'[used'].kind = "cache" /\ ops'[used'].pc = "clear"
               /\ \A p \in Mse!Ops \ {used'} : p = pipeCtrl => ops'[p].aborted
               /\ cache # {}
            \/ /\ pipeCtrl' = pipeCtrl /\ ops'[used'].kind = "net" /\ ops'[used'].pc = "fetch"
               /\ cache = {}
<1> USE DEF Mse!Ops
<1>1. /\ ops \in [Mse!Ops -> Mse!Op] /\ used \in Mse!Ops /\ MaxOps \in Nat
      /\ \A p \in Mse!Ops : ops[p] \in Mse!Op
  BY DEF Mse!PipeAssumption, MseInv, Mse!TypeOK
<1> DEFINE o == used + 1
<1>2. CASE Mse!CacheSeek(t)
  <2> DEFINE op == [Mse!NoOp EXCEPT !.kind = "cache", !.pc = "clear", !.target = t,
                      !.complete = streamComplete, !.todo = cache, !.canplay = TRUE]
  <2>1. ops' = [Mse!AbortPipe EXCEPT ![o] = op] /\ o \in Mse!Ops
    BY <1>1, <1>2 DEF Mse!CacheSeek
  <2>2. \A p \in Mse!Ops \ {o} : ops'[p] = Mse!AbortPipe[p]
    BY <2>1 DEF Mse!AbortPipe
  <2>3. ops'[o] = op
    BY <2>1 DEF Mse!AbortPipe
  <2>4. op.kind = "cache" /\ op.pc = "clear" /\ ~op.overtaken
    BY DEF Mse!NoOp
  <2>5. /\ used < MaxOps /\ used' = o /\ pipeCtrl' = o /\ seekCtrl' = o /\ ~streamComplete'
        /\ UNCHANGED left /\ cache # {}
    BY <1>2 DEF Mse!CacheSeek, Mse!Seek
  <2> HIDE DEF op
  <2>6. \A p \in Mse!Ops \ {o} : MseSame(p) /\ (p = pipeCtrl => ops'[p].aborted)
    BY <2>2, MseAborts DEF MseSame
  <2> QED BY <2>3, <2>4, <2>5, <2>6
<1>3. CASE Mse!NetworkSeek(t)
  <2> DEFINE op == [Mse!NoOp EXCEPT !.kind = "net", !.pc = "fetch", !.target = t]
  <2>1. ops' = [ops EXCEPT ![o] = op] /\ o \in Mse!Ops
    BY <1>1, <1>3 DEF Mse!NetworkSeek
  <2>2. \A p \in Mse!Ops \ {o} : ops'[p] = ops[p]
    BY <1>1, <2>1
  <2>3. ops'[o] = op
    BY <1>1, <2>1
  <2>4. op.kind = "net" /\ op.pc = "fetch" /\ ~op.overtaken
    BY DEF Mse!NoOp
  <2>5. /\ used < MaxOps /\ used' = o /\ pipeCtrl' = pipeCtrl /\ seekCtrl' = o /\ ~streamComplete'
        /\ UNCHANGED left /\ cache = {}
    BY <1>3 DEF Mse!NetworkSeek, Mse!Seek
  <2> HIDE DEF op
  <2>6. \A p \in Mse!Ops \ {o} : MseSame(p)
    BY <2>2 DEF MseSame
  <2> QED BY <2>3, <2>4, <2>5, <2>6
<1> QED BY <1>2, <1>3

\* The steps of the element, of a seek that finds its target buffered, and of leaving.
LEMMA MseElement ==
  ASSUME MseInv, \/ Mse!Play \/ Mse!CanPlay \/ Mse!Leave
                 \/ \E t \in Mse!Chunks : Mse!Seek(t) /\ ~Mse!CacheSeek(t) /\ ~Mse!NetworkSeek(t)
  PROVE  /\ used' = used /\ \A p \in Mse!Ops : MseSame(p)
         /\ \/ UNCHANGED <<pipeCtrl, seekCtrl, left, streamComplete>>
            \/ /\ pipeCtrl' = 0 /\ seekCtrl' = 0 /\ ~streamComplete'
               /\ \A p \in Mse!Ops : p = pipeCtrl => ops'[p].aborted
<1>1. ops \in [Mse!Ops -> Mse!Op] /\ \A p \in Mse!Ops : ops[p] \in Mse!Op
  BY DEF MseInv, Mse!TypeOK
<1>2. CASE Mse!Leave
  BY <1>2, MseAborts DEF MseSame, Mse!Leave
<1>3. CASE Mse!CanPlay
  <2>1. \A p \in Mse!Ops : ops'[p] = [ops[p] EXCEPT !.canplay = FALSE]
    BY <1>3 DEF Mse!CanPlay
  <2> QED BY <1>1, <1>3, <2>1 DEF MseSame, Mse!CanPlay, Mse!Op, Mse!owners
<1>4. CASE Mse!Play \/ \E t \in Mse!Chunks : Mse!Seek(t) /\ ~Mse!CacheSeek(t) /\ ~Mse!NetworkSeek(t)
  <2>1. UNCHANGED <<ops, used, pipeCtrl, seekCtrl, left, streamComplete>>
    BY <1>4 DEF Mse!Play, Mse!Seek, Mse!SeekBuffered, Mse!Guarded, Mse!owners
  <2> QED BY <2>1 DEF MseSame
<1> QED BY <1>2, <1>3, <1>4

LEMMA MseStepBegun ==
  ASSUME Mse!PipeAssumption, MseInv, Mse!Next
  PROVE  MseBegun' /\ MseKinds'
<1> USE DEF Mse!Ops
<1>1. /\ used \in Mse!Ops /\ pipeCtrl \in 0 .. MaxOps /\ seekCtrl \in 0 .. MaxOps /\ MaxOps \in Nat
      /\ MseBegun /\ MseKinds
  BY DEF Mse!PipeAssumption, MseInv, Mse!TypeOK
<1>2. ASSUME NEW o \in Mse!Ops, Mse!OpStep(o) \/ Mse!ReadFails(o) \/ Mse!InjectFull(o)
      PROVE  MseBegun' /\ MseKinds'
  <2>1. ops[o].pc # "none"
    BY <1>2 DEF Mse!OpStep, Mse!Fetched, Mse!ReadFails, Mse!Read, Mse!Append, Mse!StreamEnd,
       Mse!SeekFetched, Mse!SeekClaims, Mse!SeekRemove, Mse!ReadAborted, Mse!CacheClear,
       Mse!CacheInject, Mse!InjectFull, Mse!CacheFinalize, Mse!CacheFinish, Mse!CacheResume
  <2>2. o <= used
    BY <1>1, <2>1 DEF MseBegun
  <2>3. CASE Mse!SeekFetched(o)
    BY <1>1, <2>2, <2>3, MseAnswer DEF MseBegun, MseKinds, MseSame
  <2>4. CASE Mse!SeekClaims(o)
    BY <1>1, <2>2, <2>4, MseClaim DEF MseBegun, MseKinds
  <2>5. CASE ~Mse!SeekFetched(o) /\ ~Mse!SeekClaims(o)
    BY <1>1, <1>2, <2>2, <2>5, MseMoves DEF MseBegun, MseKinds
  <2> QED BY <2>3, <2>4, <2>5
<1>3. ASSUME NEW t \in Mse!Chunks, Mse!Seek(t), Mse!CacheSeek(t) \/ Mse!NetworkSeek(t)
      PROVE  MseBegun' /\ MseKinds'
  BY <1>1, <1>3, MseSeeks DEF MseBegun, MseKinds, MseSame
<1>4. ASSUME \/ Mse!Play \/ Mse!CanPlay \/ Mse!Leave
             \/ \E t \in Mse!Chunks : Mse!Seek(t) /\ ~Mse!CacheSeek(t) /\ ~Mse!NetworkSeek(t)
      PROVE  MseBegun' /\ MseKinds'
  BY <1>1, <1>4, MseElement DEF MseBegun, MseKinds, MseSame
<1> QED BY <1>2, <1>3, <1>4 DEF Mse!Next

LEMMA MseStepOwners ==
  ASSUME Mse!PipeAssumption, MseInv, Mse!Next
  PROVE  MseOwners'
<1> USE DEF Mse!Ops
<1>1. /\ used \in Mse!Ops /\ pipeCtrl \in 0 .. used /\ seekCtrl \in 0 .. used /\ MaxOps \in Nat
      /\ MseBegun /\ MseKinds /\ MseOwners
  BY DEF Mse!PipeAssumption, MseInv, MseBegun, Mse!TypeOK
<1>2. ASSUME NEW o \in Mse!Ops, Mse!OpStep(o) \/ Mse!ReadFails(o) \/ Mse!InjectFull(o)
      PROVE  MseOwners'
  <2>1. CASE Mse!SeekFetched(o)
    <3>1. \A p \in Mse!Ops : ops'[p].overtaken = ops[p].overtaken
      BY <2>1, MseAnswer DEF MseSame
    <3>2. \A p \in Mse!Ops \ {o} : MseLive(p)' => MseLive(p)
      BY <2>1, MseAnswer DEF MseLive, MseSame
    <3>3. ~MseLive(o)'
      BY <2>1, MseAnswer DEF MseLive
    <3>4. \A p \in Mse!Ops \ {o} : ops'[p].pc = ops[p].pc
      BY <2>1, MseAnswer DEF MseSame
    <3>5. CASE pipeCtrl' = pipeCtrl /\ ops'[o].pc = "end"
      BY <1>1, <2>1, <3>1, <3>2, <3>3, <3>4, <3>5, MseAnswer DEF MseOwners
    <3>6. CASE pipeCtrl' = 0 /\ \A p \in Mse!Ops \ {o} : p = pipeCtrl => ops'[p].aborted
      <4>1. \A p \in Mse!Ops \ {o} : MseLive(p)' => p # pipeCtrl
        BY <3>6 DEF MseLive
      <4> QED BY <1>1, <2>1, <3>1, <3>2, <3>3, <3>4, <3>6, <4>1, MseAnswer DEF MseOwners
    <3> QED BY <2>1, <3>5, <3>6, MseAnswer
  <2>2. CASE Mse!SeekClaims(o)
    <3> SUFFICES ASSUME \A p \in Mse!Ops : ~ops'[p].overtaken
                 PROVE  MseOwners'
      BY DEF MseOwners
    <3>1. seekCtrl = o /\ ~left /\ ~ops[o].overtaken
      BY <1>1, <2>2, MseClaim DEF MseKinds, MseInv
    <3>2. \A p \in Mse!Ops : ~ops[p].overtaken
      BY <2>2, <3>1, MseClaim
    <3>3. pipeCtrl = 0 /\ \A p \in Mse!Ops : ~MseLive(p)
      BY <1>1, <2>2, <3>1, <3>2, MseClaim DEF MseOwners
    <3>4. \A p \in Mse!Ops \ {o} : ~MseLive(p)' /\ ops'[p].pc = ops[p].pc
      BY <2>2, <3>3, MseClaim DEF MseLive
    <3> QED BY <2>2, <3>1, <3>4, MseClaim DEF MseOwners
  <2>3. CASE ~Mse!SeekFetched(o) /\ ~Mse!SeekClaims(o)
    <3>1. /\ UNCHANGED <<used, pipeCtrl, seekCtrl, left>>
          /\ \A p \in Mse!Ops : ops'[p].overtaken = ops[p].overtaken
          /\ \A p \in Mse!Ops : ops'[p].pc \in {"idle", "remove"} => ops[p].pc \in {"idle", "remove"}
      BY <1>2, <2>3, MseMoves
    <3>2. \A p \in Mse!Ops : MseLive(p)' => MseLive(p)
      <4>1. MseLive(o)' => MseLive(o)
        BY <1>2, <2>3, MseMoves DEF MseLive
      <4>2. \A p \in Mse!Ops \ {o} : ops'[p] = ops[p]
        BY <1>2, <2>3, MseMoves
      <4> QED BY <4>1, <4>2 DEF MseLive
    <3> QED BY <1>1, <3>1, <3>2 DEF MseOwners
  <2> QED BY <2>1, <2>2, <2>3
<1>3. ASSUME NEW t \in Mse!Chunks, Mse!Seek(t), Mse!CacheSeek(t) \/ Mse!NetworkSeek(t)
      PROVE  MseOwners'
  <2>. PICK n \in Nat : n = used + 1
    BY <1>1
  <2>1. /\ n \in Mse!Ops /\ used' = n /\ seekCtrl' = n /\ left' = left
        /\ ~ops[n].overtaken /\ pipeCtrl # n
        /\ \A p \in Mse!Ops \ {n} : MseSame(p)
    BY <1>1, <1>3, MseSeeks DEF MseBegun
  <2>2. \A p \in Mse!Ops \ {n} : MseLive(p)' => MseLive(p)
    BY <2>1 DEF MseSame, MseLive
  <2>3. \A p \in Mse!Ops \ {n} : ops'[p].overtaken = ops[p].overtaken
    BY <2>1 DEF MseSame
  <2>4. ~left
    BY <1>3 DEF Mse!Seek
  <2>5. CASE /\ pipeCtrl' = n /\ ops'[n].kind = "cache" /\ ops'[n].pc = "clear"
             /\ \A p \in Mse!Ops \ {n} : p = pipeCtrl => ops'[p].aborted
    <3>1. \A p \in Mse!Ops \ {n} : MseLive(p)' => p # pipeCtrl
      BY <2>5 DEF MseLive
    <3> QED BY <1>1, <2>1, <2>2, <2>3, <2>4, <2>5, <3>1 DEF MseOwners
  <2>6. CASE pipeCtrl' = pipeCtrl /\ ops'[n].kind = "net" /\ ops'[n].pc = "fetch"
    <3>1. ~MseLive(n)'
      BY <2>6 DEF MseLive
    <3> QED BY <1>1, <2>1, <2>2, <2>3, <2>4, <2>6, <3>1 DEF MseOwners
  <2> QED BY <1>3, <2>1, <2>5, <2>6, MseSeeks
<1>4. ASSUME \/ Mse!Play \/ Mse!CanPlay \/ Mse!Leave
             \/ \E t \in Mse!Chunks : Mse!Seek(t) /\ ~Mse!CacheSeek(t) /\ ~Mse!NetworkSeek(t)
      PROVE  MseOwners'
  BY <1>1, <1>4, MseElement DEF MseOwners, MseLive, MseSame
<1> QED BY <1>2, <1>3, <1>4 DEF Mse!Next

LEMMA MseStepFinish ==
  ASSUME Mse!PipeAssumption, MseInv, Mse!Next
  PROVE  MseFinish'
<1> USE DEF Mse!Ops
<1>1. /\ used \in Mse!Ops /\ pipeCtrl \in 0 .. used /\ seekCtrl \in 0 .. used /\ MaxOps \in Nat
      /\ MseBegun /\ MseKinds /\ MseOwners /\ MseFinish
  BY DEF Mse!PipeAssumption, MseInv, MseBegun, Mse!TypeOK
<1>2. ASSUME NEW o \in Mse!Ops, Mse!OpStep(o) \/ Mse!ReadFails(o) \/ Mse!InjectFull(o)
      PROVE  MseFinish'
  <2>1. left \/ cache # {} => left' \/ cache' # {}
    BY <1>2 DEF Mse!OpStep, Mse!Fetched, Mse!ReadFails, Mse!Read, Mse!Append, Mse!StreamEnd,
       Mse!SeekFetched, Mse!SeekClaims, Mse!SeekRemove, Mse!ReadAborted, Mse!CacheClear,
       Mse!CacheInject, Mse!InjectFull, Mse!CacheFinalize, Mse!CacheFinish, Mse!CacheResume,
       Mse!CacheChunk
  <2>2. CASE Mse!SeekFetched(o)
    <3>1. \A p \in Mse!Ops : ops'[p].kind = ops[p].kind /\ ops'[p].overtaken = ops[p].overtaken
      BY <2>2, MseAnswer DEF MseSame
    <3>2. \A p \in Mse!Ops \ {o} : ops'[p].pc = ops[p].pc /\ (MseLive(p)' => MseLive(p))
      BY <2>2, MseAnswer DEF MseSame, MseLive
    <3>3. ~MseLive(o)' /\ ops'[o].pc # "finish" /\ seekCtrl' = seekCtrl
      BY <2>2, MseAnswer DEF MseLive
    <3> QED BY <1>1, <2>1, <3>1, <3>2, <3>3 DEF MseFinish
  <2>3. CASE Mse!SeekClaims(o)
    <3>1. \A p \in Mse!Ops : ops'[p].kind = ops[p].kind
      BY <2>3, MseClaim
    <3> SUFFICES ASSUME \A p \in Mse!Ops : ~ops'[p].overtaken
                 PROVE  \A p \in Mse!Ops : ops'[p].pc # "finish"
      BY <1>1, <2>1, <3>1 DEF MseFinish
    <3>2. seekCtrl = o /\ ops[o].kind = "net" /\ \A p \in Mse!Ops : ~ops[p].overtaken
      BY <1>1, <2>3, MseClaim DEF MseKinds
    <3>3. \A p \in Mse!Ops : ops[p].pc # "finish"
      BY <1>1, <3>2 DEF MseFinish
    <3> QED BY <2>3, <3>3, MseClaim
  <2>4. CASE ~Mse!SeekFetched(o) /\ ~Mse!SeekClaims(o)
    <3>1. /\ UNCHANGED seekCtrl /\ \A p \in Mse!Ops \ {o} : ops'[p] = ops[p]
          /\ \A p \in Mse!Ops : ops'[p].kind = ops[p].kind /\ ops'[p].overtaken = ops[p].overtaken
      BY <1>2, <2>4, MseMoves
    <3>2. \A p \in Mse!Ops : MseLive(p)' => MseLive(p)
      <4>1. MseLive(o)' => MseLive(o)
        BY <1>2, <2>4, MseMoves DEF MseLive
      <4> QED BY <3>1, <4>1 DEF MseLive
    <3> SUFFICES ASSUME \A p \in Mse!Ops : ~ops[p].overtaken, NEW q \in Mse!Ops, ops'[q].pc = "finish"
                 PROVE  /\ seekCtrl # 0 => ops[seekCtrl].kind # "net"
                        /\ \A p \in Mse!Ops : MseLive(p)' => p = q \/ ops'[p].pc = "clear"
      BY <1>1, <2>1, <3>1 DEF MseFinish
    <3>3. CASE q = o
      <4>1. ops[o].pc = "inject" /\ ~ops[o].aborted /\ seekCtrl = o
        BY <1>2, <2>4, <3>3, MseMoves
      <4>2. ops[o].kind = "cache" /\ MseLive(o)
        BY <1>1, <4>1 DEF MseKinds, MseLive
      <4>3. \A p \in Mse!Ops : MseLive(p) => p = o
        BY <1>1, <4>2 DEF MseOwners
      <4> QED BY <3>2, <3>3, <4>1, <4>2, <4>3
    <3>4. CASE q # o
      <4>1. ops[q].pc = "finish"
        BY <3>1, <3>4
      <4>2. /\ seekCtrl # 0 => ops[seekCtrl].kind # "net"
            /\ \A p \in Mse!Ops : MseLive(p) => p = q \/ ops[p].pc = "clear"
        BY <1>1, <4>1 DEF MseFinish
      <4>3. MseLive(o)' => ops'[o].pc = "clear"
        <5>1. ~Mse!NobodyFinishes
          BY <4>1 DEF Mse!NobodyFinishes
        <5>2. MseLive(o)' => ops[o].pc = "clear"
          BY <3>2, <3>4, <4>2
        <5> QED BY <1>2, <2>4, <5>1, <5>2, MseMoves DEF MseLive
      <4> QED BY <3>1, <3>2, <4>2, <4>3
    <3> QED BY <3>3, <3>4
  <2> QED BY <2>2, <2>3, <2>4
<1>3. ASSUME NEW t \in Mse!Chunks, Mse!Seek(t), Mse!CacheSeek(t) \/ Mse!NetworkSeek(t)
      PROVE  MseFinish'
  <2>. PICK n \in Nat : n = used + 1
    BY <1>1
  <2>1. /\ n \in Mse!Ops /\ used' = n /\ seekCtrl' = n /\ left' = left
        /\ ~ops[n].overtaken /\ n # 0
        /\ \A p \in Mse!Ops \ {n} : MseSame(p)
    BY <1>1, <1>3, MseSeeks DEF MseBegun
  <2>2. \A p \in Mse!Ops \ {n} : MseLive(p)' => MseLive(p)
    BY <2>1 DEF MseSame, MseLive
  <2>3. \A p \in Mse!Ops \ {n} : /\ ops'[p].overtaken = ops[p].overtaken
                               /\ ops'[p].kind = ops[p].kind /\ ops'[p].pc = ops[p].pc
    BY <2>1 DEF MseSame
  <2>4. ~left /\ cache' = cache
    BY <1>3 DEF Mse!Seek, Mse!CacheSeek, Mse!NetworkSeek
  <2>5. CASE ops'[n].kind = "cache" /\ ops'[n].pc = "clear"
    <3>1. cache # {}
      BY <1>3, <2>1, <2>5, MseSeeks
    <3> QED BY <1>1, <2>1, <2>2, <2>3, <2>4, <2>5, <3>1 DEF MseFinish
  <2>6. CASE ops'[n].kind = "net" /\ ops'[n].pc = "fetch"
    <3>1. cache = {}
      BY <1>3, <2>1, <2>6, MseSeeks
    <3>2. \A p \in Mse!Ops : ops[p].kind # "cache" /\ ops[p].pc # "finish"
      BY <1>1, <2>4, <3>1 DEF MseFinish, MseKinds
    <3> QED BY <2>3, <2>6, <3>2 DEF MseFinish
  <2> QED BY <1>3, <2>1, <2>5, <2>6, MseSeeks
<1>4. ASSUME \/ Mse!Play \/ Mse!CanPlay \/ Mse!Leave
             \/ \E t \in Mse!Chunks : Mse!Seek(t) /\ ~Mse!CacheSeek(t) /\ ~Mse!NetworkSeek(t)
      PROVE  MseFinish'
  <2>1. left \/ cache # {} => left' \/ cache' # {}
    BY <1>4 DEF Mse!Play, Mse!CanPlay, Mse!Leave, Mse!Seek, Mse!SeekBuffered, Mse!Guarded
  <2>2. \A p \in Mse!Ops : /\ ops'[p].overtaken = ops[p].overtaken
                           /\ ops'[p].kind = ops[p].kind /\ ops'[p].pc = ops[p].pc
    BY <1>4, MseElement DEF MseSame
  <2>7. \A p \in Mse!Ops : MseLive(p)' => MseLive(p)
    BY <1>4, MseElement DEF MseSame, MseLive
  <2>3. seekCtrl' = seekCtrl \/ seekCtrl' = 0
    BY <1>4, MseElement
  <2>4. \A o \in Mse!Ops : ops'[o].kind = "cache" => left' \/ cache' # {}
    BY <1>1, <2>1, <2>2 DEF MseFinish
  <2> SUFFICES ASSUME \A o \in Mse!Ops : ~ops[o].overtaken, NEW o \in Mse!Ops, ops'[o].pc = "finish"
               PROVE  /\ seekCtrl' # 0 => ops'[seekCtrl'].kind # "net"
                      /\ \A p \in Mse!Ops : MseLive(p)' => p = o \/ ops'[p].pc = "clear"
    BY <2>2, <2>4 DEF MseFinish
  <2>5. /\ seekCtrl # 0 => ops[seekCtrl].kind # "net"
        /\ \A p \in Mse!Ops : MseLive(p) => p = o \/ ops[p].pc = "clear"
    BY <1>1, <2>2 DEF MseFinish
  <2>6. seekCtrl' # 0 => seekCtrl' = seekCtrl /\ seekCtrl \in Mse!Ops
    BY <1>1, <2>3
  <2> QED BY <2>2, <2>5, <2>6, <2>7
<1> QED BY <1>2, <1>3, <1>4 DEF Mse!Next

\* A track becomes complete by the owner of the pipe at the end of its stream, or by a seek out
\* of a complete cache while nobody else feeds the buffer.
LEMMA MseCompletes ==
  ASSUME Mse!PipeAssumption, MseInv, [Mse!Next]_(Mse!vars)
  PROVE  Mse!CompletesAsOwner
<1> USE DEF Mse!Ops
<1> SUFFICES ASSUME \A o \in Mse!Ops : ~ops[o].overtaken, Mse!Next,
                    (ended' /\ ~ended) \/ (streamComplete' /\ ~streamComplete)
             PROVE  Mse!CompletesAsOwner
  BY DEF Mse!CompletesAsOwner, Mse!vars
<1>1. /\ ops \in [Mse!Ops -> Mse!Op] /\ MseKinds /\ MseOwners /\ MseFinish
      /\ \A o \in Mse!Ops : ops[o] \in Mse!Op
  BY DEF MseInv, Mse!TypeOK
<1>2. ASSUME NEW o \in Mse!Ops, Mse!StreamEnd(o)
      PROVE  Mse!CompletesAsOwner
  <2>1. ~ops[o].aborted /\ ops[o].pc = "read" /\ ops[o].pos > Last /\ ops'[o].pc = "end"
    BY <1>1, <1>2 DEF Mse!StreamEnd, Mse!Stop
  <2>2. o = pipeCtrl
    BY <1>1, <2>1 DEF MseOwners, MseLive
  <2> QED BY <2>1, <2>2 DEF Mse!CompletesAsOwner
<1>3. ASSUME NEW o \in Mse!Ops, Mse!CacheFinish(o)
      PROVE  Mse!CompletesAsOwner
  <2>1. ops[o].pc = "finish" /\ ops[o].complete /\ ops'[o].pc = "end"
    <3>1. ops[o].pc = "finish" /\ ops[o].complete /\ Mse!Stop(o)
      BY <1>3 DEF Mse!CacheFinish
    <3>2. ops'[o].pc = "end"
      BY <1>1, <3>1 DEF Mse!Stop
    <3> QED BY <3>1, <3>2
  <2>2. \A p \in Mse!Ops : Mse!Feeds(p) => p = o
    BY <1>1, <2>1 DEF MseFinish, MseLive, Mse!Feeds
  <2> QED BY <2>1, <2>2 DEF Mse!CompletesAsOwner
<1>4. ASSUME NEW o \in Mse!Ops, Mse!OpStep(o) \/ Mse!ReadFails(o) \/ Mse!InjectFull(o),
             ~Mse!StreamEnd(o), ~Mse!CacheFinish(o)
      PROVE  ~(ended' /\ ~ended) /\ streamComplete' = streamComplete
  BY <1>4 DEF Mse!OpStep, Mse!Fetched, Mse!ReadFails, Mse!Read, Mse!Append, Mse!SeekFetched,
     Mse!SeekClaims, Mse!SeekRemove, Mse!ReadAborted, Mse!CacheClear, Mse!CacheInject,
     Mse!InjectFull, Mse!CacheFinalize, Mse!CacheResume, Mse!media, Mse!AppendChunk
<1>5. ASSUME \/ Mse!Play \/ Mse!CanPlay \/ Mse!Leave \/ \E t \in Mse!Chunks : Mse!Seek(t)
      PROVE  ended' = ended /\ ~(streamComplete' /\ ~streamComplete)
  BY <1>5 DEF Mse!Play, Mse!CanPlay, Mse!Leave, Mse!Seek, Mse!SeekBuffered, Mse!Guarded,
     Mse!CacheSeek, Mse!NetworkSeek, Mse!media
<1> QED BY <1>2, <1>3, <1>4, <1>5 DEF Mse!Next

LEMMA MsePreserves ==
  ASSUME Mse!PipeAssumption, MseInv, [Mse!Next]_(Mse!vars)
  PROVE  MseInv'
<1>1. CASE Mse!Next
  BY <1>1, MseStepTypes, MseStepBegun, MseStepOwners, MseStepFinish DEF MseInv
<1>2. CASE UNCHANGED Mse!vars
  BY <1>2 DEF Mse!vars, MseInv, Mse!TypeOK, MseBegun, MseKinds, MseOwners, MseLive,
     MseFinish
<1> QED BY <1>1, <1>2

\* Overlapping seeks never leave two operations that append to the buffer, nor one that goes
\* on in a track that was left.
LEMMA MseOneFeeder == ASSUME MseInv PROVE Mse!FeedIsSafe
<1>1. ASSUME NEW o \in Mse!Ops, Mse!Feeds(o), \A p \in Mse!Ops : ~ops[p].overtaken
      PROVE  ~left /\ \A p \in Mse!Ops : Mse!Feeds(p) => p = o
  <2>1. \A p \in Mse!Ops : Mse!Feeds(p) => p = pipeCtrl
    BY <1>1 DEF MseInv, MseOwners, MseLive, Mse!Feeds
  <2>2. pipeCtrl # 0
    BY <1>1, <2>1 DEF Mse!Ops
  <2> QED BY <1>1, <2>1, <2>2 DEF MseInv, MseOwners
<1> QED BY <1>1 DEF MseInv, Mse!FeedIsSafe, Mse!OneFeeder

\* For every length of the track, size of the cache and number of seeks: the buffer is fed by
\* one operation (FeedIsSafe of the run mse).
THEOREM FeedIsAlwaysSafe == PagesSpec => []FeedIsSafe
<1> DEFINE I == part = "mse" => MseInv
<1>1. PagesInit => I
  BY PagesAssumption, MseInitEstablishes DEF PagesInit
<1>2. I /\ [PagesNext]_pageVars => I'
  <2> SUFFICES ASSUME I, [PagesNext]_pageVars, part' = "mse" PROVE MseInv'
    OBVIOUS
  <2>1. part = "mse" /\ MseInv
    BY DEF PagesNext, MseNext, TrackNext, pageVars
  <2>2. Mse!Next \/ UNCHANGED pageVars
    BY <2>1 DEF PagesNext, MseNext, TrackNext
  <2>3. [Mse!Next]_(Mse!vars)
    BY <2>2 DEF pageVars, mseOnly, trackOnly, vlcOnly, Mse!vars
  <2> QED BY <2>1, <2>3, PagesAssumption, MsePreserves
<1>3. I => FeedIsSafe
  BY PagesAssumption, MseOneFeeder DEF FeedIsSafe
<1> QED BY <1>1, <1>2, <1>3, PTL DEF PagesSpec

\* Likewise, and with network seeks: the step that declares a track complete is of the pipe
\* that owns the player, or of a seek that was replaced during its last append, while nobody
\* else feeds the buffer (CompleteByItsOwner of the run mse).
THEOREM AlwaysCompleteByItsOwner == PagesSpec => CompleteByItsOwner
<1> DEFINE I == part = "mse" => MseInv
<1>1. PagesInit => I
  BY PagesAssumption, MseInitEstablishes DEF PagesInit
<1>2. I /\ [PagesNext]_pageVars => I' /\ [part = "mse" => Mse!CompletesAsOwner]_pageVars
  <2> SUFFICES ASSUME I, [PagesNext]_pageVars
               PROVE  /\ part' = "mse" => MseInv'
                      /\ [part = "mse" => Mse!CompletesAsOwner]_pageVars
    OBVIOUS
  <2>1. CASE part = "mse"
    <3>1. Mse!Next \/ UNCHANGED pageVars
      BY <2>1 DEF PagesNext, MseNext, TrackNext
    <3>2. [Mse!Next]_(Mse!vars)
      BY <3>1 DEF pageVars, mseOnly, trackOnly, vlcOnly, Mse!vars
    <3> QED BY <2>1, <3>2, PagesAssumption, MsePreserves, MseCompletes
  <2>2. CASE part # "mse"
    BY <2>2 DEF PagesNext, MseNext, TrackNext, pageVars
  <2> QED BY <2>1, <2>2
<1> QED BY <1>1, <1>2, PTL DEF PagesSpec, CompleteByItsOwner

-----------------------------------------------------------------------------
(***************************************************************************)
(* TrackChange.  The invariant says who owns the page at every await:      *)
(* whoever may still get the player is the newest attempt (_generation),   *)
(* or will find out that it is not; a session is held only for the track   *)
(* it was opened for, wherever it is kept in between; and what libvlc      *)
(* plays for the page is what _vlcLive says.  The numbers of sessions,     *)
(* attempts and warm opens are arbitrary.                                  *)
(***************************************************************************)

\* Attempts are numbered as they begin; a click waits for the answer to its POST.
TrackBegun ==
  /\ \A g \in Track!Gens : g > generation => attempts[g] = Track!NoAttempt
  /\ ctrl <= generation
  /\ direct # None /\ directGen = generation =>
       /\ generation \in Track!Gens
       /\ attempts[generation].kind = "direct" /\ attempts[generation].track = direct
       /\ attempts[generation].pc \in {"lossless", "post", "reply"}

\* Whoever holds a session holds one that was opened for its track.
TrackHolds(r) == opened[r.sid] # None /\ opened[r.sid].track = r.track
TrackSessions ==
  /\ \A w \in Track!Slots : slots[w] # None => TrackHolds(slots[w])
  /\ \A i \in DOMAIN hover : TrackHolds(hover[i])
  /\ \A r \in warming : r.sid \in Track!Sids /\ TrackHolds(r)
  /\ \A g \in Track!Gens : attempts[g].sid # None => TrackHolds(attempts[g])

\* Where an attempt may stand, and with what.
TrackSession == {"handoff", "stopped", "attach", "load", "loaded", "run", "recheck"}
TrackKind(r) ==
  /\ r.pc \in {"lossless", "post"} =>
       r.sid = None /\ r.track \in Track!Tracks /\ ~r.failed
  /\ r.pc = "reply" => r.failed = (r.sid = None)
  /\ r.pc \in TrackSession => r.sid \in Track!Sids
  /\ r.pc \in {"handoff", "stopped"} => r.path # "alac" /\ r.kind = "htc"
  /\ r.pc \in {"load", "loaded"} => r.path = "alac"
  /\ r.pc = "attach" => r.path = "aac"
TrackKinds == \A g \in Track!Gens : TrackKind(attempts[g])

\* The newest attempt owns the page.
TrackOwners ==
  \A g \in Track!Gens :
    /\ Track!Streams(g) => /\ g = generation /\ g = ctrl /\ attempts[g].sid = sessionId
                           /\ assetId = attempts[g].track
    /\ attempts[g].pc \in {"handoff", "stopped"} /\ g = generation => sessionId = attempts[g].sid
    /\ g = generation /\ attempts[g].kind = "htc" /\ attempts[g].pc \notin {"none", "done"} =>
         assetId = attempts[g].track

\* What libvlc plays for the page, the page has to stop.
TrackSilence == (vlcPlays = "playing" => vlcLive) /\ Track!HandoffIsSilent

TrackInv == Track!TypeOK /\ TrackBegun /\ TrackSessions /\ TrackKinds /\ TrackOwners /\ TrackSilence

LEMMA TrackLeast ==
  ASSUME NEW n \in Nat, NEW S \in SUBSET (1 .. n), S # {}
  PROVE  Track!Min(S) \in S
<1>1. \E x \in S : \A y \in S : x =< y
  BY LeastExists
<1> QED BY <1>1 DEF Track!Min

LEMMA TrackInitEstablishes ==
  ASSUME Track!TrackAssumption
  PROVE  Track!Init => TrackInv
<1> SUFFICES ASSUME Track!Init PROVE TrackInv
  OBVIOUS
<1>1. Track!NoAttempt \in Track!Attempt
  BY DEF Track!NoAttempt, Track!Attempt, Track!Pcs, Track!Paths
<1>2. Track!TypeOK
  <2>1. hover \in Seq(Track!Warmth) /\ Len(hover) = 0
    BY DEF Track!Init
  <2>2. Len(hover) <= HoverCap /\ warmed \in 0 .. MaxWarm /\ MaxGen \in Nat
    BY <2>1 DEF Track!Init, Track!TrackAssumption
  <2>3. generation \in 0 .. MaxGen /\ ctrl \in 0 .. MaxGen /\ directGen \in 0 .. MaxGen
    BY <2>2 DEF Track!Init
  <2> QED BY <1>1, <2>1, <2>2, <2>3 DEF Track!Init, Track!TypeOK, Track!PlayStates
<1>3. TrackBegun
  BY DEF Track!Init, TrackBegun, Track!Gens, Track!TrackAssumption
<1>4. TrackSessions
  BY DEF Track!Init, TrackSessions, Track!NoAttempt
<1>5. TrackKinds
  BY DEF Track!Init, TrackKinds, TrackKind, Track!NoAttempt, TrackSession
<1>6. TrackOwners
  BY DEF Track!Init, TrackOwners, Track!NoAttempt, Track!Streams
<1>7. TrackSilence
  BY DEF Track!Init, TrackSilence, Track!HandoffIsSilent
<1> QED BY <1>2, <1>3, <1>4, <1>5, <1>6, <1>7 DEF TrackInv

\* What opening a session does: nobody's session changes hands.
LEMMA TrackOpens ==
  ASSUME Track!TrackAssumption, TrackInv, NEW t \in Track!Tracks, NEW p \in Track!Paths,
         NEW s \in Track!Sids, Track!OpenSession(t, p, s)
  PROVE  /\ opened' \in [Track!Sids -> Track!Opened \union {None}]
         /\ live' \subseteq Track!Sids
         /\ opened'[s] # None /\ opened'[s].track = t
         /\ \A x \in Track!Sids : opened[x] # None => opened'[x] = opened[x]
<1> DEFINE new  == [track |-> t, path |-> p]
           same == {x \in live : opened[x] = new}
           free == {x \in Track!Sids : opened[x] = None}
<1>1. /\ opened \in [Track!Sids -> Track!Opened \union {None}]
      /\ live \subseteq Track!Sids /\ MaxSessions \in Nat
  BY DEF TrackInv, Track!TypeOK, Track!TrackAssumption
<1>2. new \in Track!Opened /\ new.track = t /\ new # None
  BY DEF Track!Opened, Track!TrackAssumption
<1>3. CASE same # {}
  <2>1. s \in same /\ UNCHANGED <<opened, live>>
    BY <1>3 DEF Track!OpenSession
  <2>2. opened[s] = new
    BY <2>1
  <2> QED BY <1>1, <1>2, <2>1, <2>2
<1>4. CASE same = {}
  <2>1. /\ free # {} /\ s = Track!Min(free)
        /\ opened' = [opened EXCEPT ![s] = new] /\ live' = live \union {s}
    BY <1>4 DEF Track!OpenSession
  <2>2. free \in SUBSET (1 .. MaxSessions)
    BY DEF Track!Sids
  <2>3. Track!Min(free) \in free
    BY <1>1, <2>1, <2>2, TrackLeast
  <2>4. opened[s] = None
    BY <2>1, <2>3
  <2> QED BY <1>1, <1>2, <2>1, <2>4
<1> QED BY <1>3, <1>4

\* A hovered session that is found is one of those kept.
LEMMA TrackHoverHit ==
  ASSUME TrackInv, NEW t, Track!HoverHit(t) # {}
  PROVE  /\ hover \in Seq(Track!Warmth)
         /\ Track!Min(Track!HoverHit(t)) \in DOMAIN hover
         /\ hover[Track!Min(Track!HoverHit(t))].track = t
<1>1. hover \in Seq(Track!Warmth) /\ Len(hover) \in Nat /\ DOMAIN hover = 1 .. Len(hover)
  BY DEF TrackInv, Track!TypeOK
<1>2. Track!HoverHit(t) \in SUBSET (1 .. Len(hover))
  BY <1>1 DEF Track!HoverHit
<1>3. Track!Min(Track!HoverHit(t)) \in Track!HoverHit(t)
  BY <1>1, <1>2, TrackLeast
<1> QED BY <1>1, <1>3 DEF Track!HoverHit

\* What a new attempt does to the old ones: the one that owned the player is aborted.
LEMMA TrackBegins ==
  ASSUME Track!TrackAssumption, TrackInv, NEW kind \in {"htc", "direct"}, NEW t \in Track!Tracks,
         NEW D, Track!Begin(kind, t, D)
  PROVE  /\ generation + 1 \in Track!Gens /\ generation' = generation + 1 /\ ctrl' = 0
         /\ sessionId' = None /\ vlcMode' = FALSE /\ playState' = "opening"
         /\ tried' = [w \in Track!Slots |-> FALSE]
         /\ deletes' = deletes \union ((({sessionId} \union D)) \intersect live)
         /\ attempts' \in [Track!Gens -> Track!Attempt]
         /\ attempts'[generation + 1].pc = "lossless" /\ attempts'[generation + 1].kind = kind
         /\ attempts'[generation + 1].track = t /\ attempts'[generation + 1].sid = None
         /\ ~attempts'[generation + 1].failed
         /\ \A h \in Track!Gens :
              h # generation + 1 =>
                attempts'[h] = [attempts[h] EXCEPT !.aborted = IF h = ctrl THEN TRUE ELSE @]
         /\ \A h \in Track!Gens : h > generation + 1 => attempts'[h] = attempts[h]
         /\ \A h \in Track!Gens :
              ~(attempts'[h].pc \in {"attach", "load", "loaded", "run"} /\ ~attempts'[h].aborted)
<1> DEFINE g    == generation + 1
           mine == [Track!NoAttempt EXCEPT !.kind = kind, !.track = t, !.pc = "lossless"]
<1>1. /\ attempts \in [Track!Gens -> Track!Attempt] /\ generation \in 0 .. MaxGen
      /\ ctrl \in 0 .. MaxGen /\ MaxGen \in Nat /\ generation < MaxGen /\ ctrl <= generation
  BY DEF TrackInv, Track!TypeOK, TrackBegun, Track!TrackAssumption, Track!Begin
<1>2. g \in Track!Gens /\ ctrl # g
  BY <1>1 DEF Track!Gens
<1>3. mine \in Track!Attempt /\ mine.pc = "lossless" /\ mine.kind = kind /\ mine.track = t
      /\ mine.sid = None /\ ~mine.failed
  BY DEF Track!NoAttempt, Track!Attempt, Track!Pcs, Track!Paths
<1>4. \A h \in Track!Gens : [attempts[h] EXCEPT !.aborted = TRUE] \in Track!Attempt
  BY <1>1 DEF Track!Attempt
<1>5. attempts' = [i \in Track!Gens |->
        IF i = g THEN mine
        ELSE IF i = ctrl THEN [attempts[i] EXCEPT !.aborted = TRUE] ELSE attempts[i]]
  BY DEF Track!Begin
<1>6. attempts' \in [Track!Gens -> Track!Attempt] /\ attempts'[g] = mine
  <2> HIDE DEF mine
  <2> QED BY <1>1, <1>2, <1>3, <1>4, <1>5
<1>7. \A h \in Track!Gens :
        h # g => attempts'[h] = [attempts[h] EXCEPT !.aborted = IF h = ctrl THEN TRUE ELSE @]
  <2> TAKE h \in Track!Gens
  <2>1. attempts[h] = [attempts[h] EXCEPT !.aborted = attempts[h].aborted]
    BY <1>1 DEF Track!Attempt
  <2> QED BY <1>5, <2>1
<1>8. \A h \in Track!Gens : h > g => attempts'[h] = attempts[h]
  BY <1>1, <1>5
<1>9. ASSUME NEW h \in Track!Gens,
             attempts'[h].pc \in {"attach", "load", "loaded", "run"}, ~attempts'[h].aborted
      PROVE  FALSE
  <2>1. h # g
    BY <1>3, <1>6, <1>9
  <2>2. CASE h = ctrl
    BY <1>1, <1>5, <1>9, <2>1, <2>2 DEF Track!Attempt
  <2>3. CASE h # ctrl
    BY <1>5, <1>9, <2>1, <2>3 DEF TrackInv, TrackOwners, Track!Streams
  <2> QED BY <2>2, <2>3
<1> QED BY <1>1, <1>2, <1>3, <1>6, <1>7, <1>8, <1>9 DEF Track!Begin, Track!Delete

\* A step of an attempt changes no other attempt, and none before it begins or after it ended.
LEMMA TrackAttempt ==
  ASSUME Track!TrackAssumption, TrackInv, NEW g \in Track!Gens, Track!AttemptStep(g)
  PROVE  /\ attempts' \in [Track!Gens -> Track!Attempt]
         /\ \A h \in Track!Gens : h # g => attempts'[h] = attempts[h]
         /\ attempts[g].pc \notin {"none", "run", "done"}
         /\ attempts'[g].aborted = attempts[g].aborted
         /\ attempts'[g].pc # "none"
         /\ attempts'[g].pc = "done" \/ /\ attempts'[g].kind = attempts[g].kind
                                        /\ attempts'[g].track = attempts[g].track
<1>1. attempts \in [Track!Gens -> Track!Attempt] /\ attempts[g] \in Track!Attempt
  BY DEF TrackInv, Track!TypeOK
<1> DEFINE Becomes(r) == /\ r \in Track!Attempt /\ attempts' = [attempts EXCEPT ![g] = r]
                         /\ r.aborted = attempts[g].aborted /\ r.pc # "none"
                         /\ r.pc = "done" \/ /\ r.kind = attempts[g].kind
                                             /\ r.track = attempts[g].track
<1>2. ASSUME NEW pc \in Track!Pcs \ {"none"}, Track!Step(g, pc)
      PROVE  \E r : Becomes(r)
  <2> DEFINE d == [Track!NoAttempt EXCEPT !.pc = "done", !.aborted = attempts[g].aborted]
             e == [attempts[g] EXCEPT !.pc = pc]
  <2>1. d \in Track!Attempt /\ d.aborted = attempts[g].aborted /\ d.pc = "done"
    BY <1>1 DEF Track!Attempt, Track!NoAttempt, Track!Pcs, Track!Paths
  <2>2. e \in Track!Attempt /\ e.aborted = attempts[g].aborted /\ e.pc = pc
        /\ e.kind = attempts[g].kind /\ e.track = attempts[g].track
    BY <1>1 DEF Track!Attempt
  <2>3. attempts' = [attempts EXCEPT ![g] = IF pc = "done" THEN d ELSE e]
    BY <1>1, <1>2 DEF Track!Step
  <2> HIDE DEF d, e
  <2> QED BY <2>1, <2>2, <2>3
<1> DEFINE Set(pc, s, p, f) == [attempts[g] EXCEPT !.pc = pc, !.sid = s, !.path = p, !.failed = f]
<1>3. ASSUME NEW s \in Track!Sids \union {None}, NEW p \in Track!Paths, NEW f \in BOOLEAN,
             NEW pc \in Track!Pcs \ {"none", "done"},
             attempts' = [attempts EXCEPT ![g] = Set(pc, s, p, f)]
      PROVE  \E r : Becomes(r)
  <2> DEFINE e == Set(pc, s, p, f)
  <2>1. e \in Track!Attempt /\ e.aborted = attempts[g].aborted /\ e.pc = pc
        /\ e.kind = attempts[g].kind /\ e.track = attempts[g].track
    BY <1>1 DEF Track!Attempt
  <2>2. attempts' = [attempts EXCEPT ![g] = e]
    BY <1>3
  <2> HIDE DEF e
  <2> QED BY <2>1, <2>2
<1> DEFINE old == attempts[g]
<1>4. old.sid \in Track!Sids \union {None} /\ old.path \in Track!Paths /\ old.failed \in BOOLEAN
  BY <1>1 DEF Track!Attempt
<1>5. ASSUME NEW s \in Track!Sids, Track!Claim(g, s), opened[s].path \in Track!Paths
      PROVE  \E r : Becomes(r)
  <2>1. attempts' = [attempts EXCEPT ![g] = Set("reply", s, opened[s].path, old.failed)]
    BY <1>1, <1>5 DEF Track!Claim, Track!Attempt
  <2> HIDE DEF Becomes, Set, old
  <2> QED BY <1>3, <1>4, <1>5, <2>1 DEF Track!Pcs
<1>6. ASSUME Track!Post(g)
      PROVE  \E r : Becomes(r)
  <2> DEFINE p == Track!PathOf(old.track, lossless)
  <2>1. attempts' = [attempts EXCEPT ![g] = Set("post", old.sid, p, old.failed)]
    BY <1>1, <1>6 DEF Track!Post, Track!Attempt
  <2>2. p \in Track!Paths
    BY DEF Track!PathOf, Track!Paths
  <2> HIDE DEF Becomes, Set, old, p
  <2> QED BY <1>3, <1>4, <2>1, <2>2 DEF Track!Pcs
<1>7. ASSUME Track!Resolve(g) \/ Track!ResolveDirect(g)
      PROVE  (\E r : Becomes(r)) /\ old.pc = "lossless"
  <2>1. CASE Track!Step(g, "done")
    BY <1>2, <1>7, <2>1 DEF Track!Pcs, Track!Resolve, Track!ResolveDirect, Track!LosslessWaited
  <2>2. CASE Track!Post(g)
    BY <1>6, <1>7, <2>2 DEF Track!Resolve, Track!ResolveDirect, Track!LosslessWaited
  <2>3. ASSUME Track!WarmHit(old.track), Track!Claim(g, slots[Track!SlotFor(old.track)].sid)
        PROVE  \E r : Becomes(r)
    <3> DEFINE w == Track!SlotFor(old.track)
    <3>1. w \in Track!Slots /\ slots[w] # None
      BY <2>3 DEF Track!SlotFor, Track!PathOf, Track!Slots, Track!WarmHit
    <3>2. slots[w].sid \in Track!Sids /\ opened[slots[w].sid].path \in Track!Paths
      BY <3>1 DEF TrackInv, Track!TypeOK, TrackSessions, TrackHolds, Track!Warmth, Track!Opened
    <3> HIDE DEF Becomes
    <3> QED BY <1>5, <2>3, <3>2
  <2>4. ASSUME Track!HoverHit(old.track) # {},
               Track!Claim(g, hover[Track!Min(Track!HoverHit(old.track))].sid)
        PROVE  \E r : Becomes(r)
    <3> DEFINE i == Track!Min(Track!HoverHit(old.track))
    <3>1. hover \in Seq(Track!Warmth) /\ i \in DOMAIN hover
      BY <2>4, TrackHoverHit
    <3> HIDE DEF i
    <3>2. hover[i].sid \in Track!Sids
      <4>1. hover[i] \in Track!Warmth
        BY <3>1
      <4> QED BY <4>1 DEF Track!Warmth
    <3>3. opened[hover[i].sid].path \in Track!Paths
      <4>1. opened[hover[i].sid] # None
        BY <3>1 DEF TrackInv, TrackSessions, TrackHolds
      <4>2. opened[hover[i].sid] \in Track!Opened
        BY <3>2, <4>1 DEF TrackInv, Track!TypeOK
      <4> QED BY <4>2 DEF Track!Opened
    <3> HIDE DEF Becomes
    <3> QED BY <1>5, <2>4, <3>2, <3>3 DEF i
  <2> HIDE DEF Becomes
  <2> QED BY <1>7, <2>1, <2>2, <2>3, <2>4 DEF Track!Resolve, Track!ResolveDirect,
             Track!LosslessWaited
<1>8. ASSUME Track!EnginePost(g) \/ Track!EngineFails(g)
      PROVE  (\E r : Becomes(r)) /\ old.pc = "post"
  <2> HIDE DEF Becomes
  <2>1. CASE Track!EnginePost(g)
    <3>1. PICK s \in Track!Sids : attempts' = [attempts EXCEPT ![g].pc = "reply", ![g].sid = s]
      BY <2>1 DEF Track!EnginePost
    <3>2. attempts' = [attempts EXCEPT ![g] = Set("reply", s, old.path, old.failed)]
      BY <1>1, <3>1 DEF Track!Attempt
    <3> HIDE DEF Set
    <3> QED BY <1>3, <1>4, <2>1, <3>2 DEF Track!Pcs, Track!EnginePost
  <2>2. CASE Track!EngineFails(g)
    <3>1. attempts' = [attempts EXCEPT ![g] = Set("reply", old.sid, old.path, TRUE)]
      BY <1>1, <2>2 DEF Track!EngineFails, Track!Attempt
    <3> HIDE DEF Set
    <3>2. \E r : Becomes(r)
      BY <1>3, <1>4, <3>1 DEF Track!Pcs
    <3> QED BY <2>2, <3>2 DEF Track!EngineFails
  <2> QED BY <1>8, <2>1, <2>2
<1>9. ASSUME Track!HtcOvertaken(g) \/ Track!Recheck(g) \/ Track!HtcOpenFailed(g)
             \/ Track!DirectOvertaken(g) \/ Track!DirectGivesUp(g) \/ Track!DirectSession(g)
             \/ Track!SourceOpen(g) \/ Track!AttachAborted(g) \/ Track!Loaded(g)
             \/ Track!EngineStop(g)
      PROVE  (\E r : Becomes(r)) /\ old.pc \notin {"none", "run", "done"}
  <2>1. \E pc \in Track!Pcs \ {"none"} : Track!Step(g, pc)
    BY <1>9 DEF Track!HtcOvertaken, Track!Recheck, Track!HtcOpenFailed, Track!DirectOvertaken,
       Track!DirectGivesUp, Track!DirectSession, Track!SourceOpen, Track!AttachAborted,
       Track!Loaded, Track!EngineStop, Track!HtcError, Track!Pcs
  <2>2. old.pc \notin {"none", "run", "done"}
    BY <1>9 DEF Track!HtcOvertaken, Track!Recheck, Track!HtcOpenFailed, Track!DirectOvertaken,
       Track!DirectGivesUp, Track!DirectSession, Track!SourceOpen, Track!AttachAborted,
       Track!Loaded, Track!EngineStop
  <2> HIDE DEF Becomes
  <2> QED BY <1>2, <2>1, <2>2
<1>10. ASSUME Track!HtcSession(g)
       PROVE  (\E r : Becomes(r)) /\ old.pc = "reply"
  <2>1. CASE Track!Step(g, "handoff")
    BY <1>2, <1>10, <2>1 DEF Track!Pcs, Track!HtcSession
  <2>2. CASE Track!Start(g)
    <3>1. PICK pc \in {"run", "attach", "load"} :
            attempts' = [attempts EXCEPT ![g] = Set(pc, old.sid, old.path, old.failed)]
      BY <1>1, <2>2 DEF Track!Start, Track!Attempt
    <3> HIDE DEF Becomes, Set
    <3> QED BY <1>3, <1>4, <1>10, <3>1 DEF Track!Pcs, Track!HtcSession
  <2> HIDE DEF Becomes
  <2> QED BY <1>10, <2>1, <2>2 DEF Track!HtcSession
<1>11. ASSUME Track!Handoff(g)
       PROVE  (\E r : Becomes(r)) /\ old.pc \in {"handoff", "stopped"}
  <2>1. CASE Track!Step(g, "done")
    BY <1>2, <1>11, <2>1 DEF Track!Pcs, Track!Handoff
  <2>2. CASE ~Track!Step(g, "done")
    <3>1. PICK ok \in BOOLEAN :
            attempts' = [attempts EXCEPT ![g].failed = ~ok,
                           ![g].pc = IF attempts[g].path = "mv" THEN "run" ELSE "attach"]
      BY <1>11, <2>2 DEF Track!Handoff
    <3> DEFINE pc == IF attempts[g].path = "mv" THEN "run" ELSE "attach"
    <3>2. attempts' = [attempts EXCEPT ![g] = Set(pc, old.sid, old.path, ~ok)]
      BY <1>1, <3>1 DEF Track!Attempt
    <3>3. pc \in Track!Pcs \ {"none", "done"}
      BY DEF Track!Pcs
    <3> HIDE DEF Becomes, Set
    <3> HIDE DEF pc
    <3> QED BY <1>3, <1>4, <1>11, <3>2, <3>3 DEF Track!Handoff
  <2> QED BY <2>1, <2>2
<1>12. ASSUME Track!EngineLoad(g)
       PROVE  (\E r : Becomes(r)) /\ old.pc = "load"
  <2>1. CASE Track!Step(g, "loaded")
    BY <1>2, <1>12, <2>1 DEF Track!Pcs, Track!EngineLoad
  <2>2. CASE ~Track!Step(g, "loaded")
    <3>1. attempts' = [attempts EXCEPT ![g] = Set("loaded", old.sid, old.path, TRUE)]
      BY <1>1, <1>12, <2>2 DEF Track!EngineLoad, Track!Attempt
    <3> HIDE DEF Becomes, Set
    <3> QED BY <1>3, <1>4, <1>12, <3>1 DEF Track!Pcs, Track!EngineLoad
  <2> QED BY <2>1, <2>2
<1>13. (\E r : Becomes(r)) /\ old.pc \notin {"none", "run", "done"}
  <2> HIDE DEF Becomes
  <2> QED BY <1>7, <1>8, <1>9, <1>10, <1>11, <1>12 DEF Track!AttemptStep
<1>14. PICK r : Becomes(r)
  BY <1>13
<1>15. attempts'[g] = r /\ \A h \in Track!Gens : h # g => attempts'[h] = attempts[h]
  BY <1>1, <1>14
<1> QED BY <1>1, <1>13, <1>14, <1>15

\* What Step does to an attempt.
LEMMA TrackSteps ==
  ASSUME Track!TypeOK, NEW g \in Track!Gens, NEW pc \in Track!Pcs, Track!Step(g, pc)
  PROVE  /\ attempts'[g].pc = pc
         /\ IF pc = "done" THEN attempts'[g].sid = None
            ELSE /\ attempts'[g].sid = attempts[g].sid /\ attempts'[g].path = attempts[g].path
                 /\ attempts'[g].kind = attempts[g].kind /\ attempts'[g].track = attempts[g].track
                 /\ attempts'[g].failed = attempts[g].failed
<1>1. attempts \in [Track!Gens -> Track!Attempt] /\ attempts[g] \in Track!Attempt
  BY DEF Track!TypeOK
<1>2. CASE pc = "done"
  BY <1>1, <1>2 DEF Track!Step, Track!NoAttempt
<1>3. CASE pc # "done"
  <2>1. attempts'[g] = [attempts[g] EXCEPT !.pc = pc]
    BY <1>1, <1>3 DEF Track!Step
  <2> QED BY <1>1, <1>3, <2>1 DEF Track!Attempt
<1> QED BY <1>2, <1>3

\* What the steps of an attempt do to the rest of the page and to the engine.
TrackFrame(g) ==
  /\ UNCHANGED <<generation, directGen, lossless, warming, warmed>>
  /\ \/ UNCHANGED <<opened, live>>
     \/ \E s \in Track!Sids : Track!OpenSession(attempts[g].track, attempts[g].path, s)
  /\ vlcPlays' \in {"silent", "playing", "late", "forgotten"}
  /\ deletes' \subseteq deletes \union live
  /\ ctrl' \in {ctrl, g}
  /\ sessionId' = sessionId \/ (sessionId' = attempts[g].sid /\ attempts[g].pc = "reply")
  /\ playState' \in {playState, "idle", "streaming", "complete"}
  /\ assetId' \in {assetId, attempts[g].track} /\ direct' \in {direct, None}
  /\ vlcLive' \in BOOLEAN /\ vlcMode' \in BOOLEAN /\ gate' \in {gate, FALSE}
  /\ slots' = slots \/ \E w \in Track!Slots : slots' = [slots EXCEPT ![w] = None]
  /\ tried' \in [Track!Slots -> BOOLEAN]
  /\ \/ hover' = hover
     \/ \E t : Track!HoverHit(t) # {}
               /\ hover' = Track!RemoveAt(hover, Track!Min(Track!HoverHit(t)))
  /\ streamOf' \in {streamOf, None}

LEMMA TrackFrames ==
  ASSUME Track!TrackAssumption, TrackInv, NEW g \in Track!Gens, Track!AttemptStep(g)
  PROVE  TrackFrame(g)
<1> USE DEF TrackFrame, Track!engine, Track!current, Track!clicks, Track!warmVars
<1>1. /\ vlcPlays \in {"silent", "playing", "late", "forgotten"}
      /\ vlcLive \in BOOLEAN /\ vlcMode \in BOOLEAN /\ tried \in [Track!Slots -> BOOLEAN]
  BY DEF TrackInv, Track!TypeOK
<1>2. \A W : Track!ArmWarm(W) => tried' \in [Track!Slots -> BOOLEAN]
  BY DEF Track!ArmWarm
<1>3. CASE Track!Resolve(g)
  BY <1>1, <1>2, <1>3 DEF Track!Resolve, Track!LosslessWaited, Track!SlotFor, Track!PathOf, Track!Slots
<1>4. CASE Track!ResolveDirect(g)
  BY <1>1, <1>2, <1>4 DEF Track!ResolveDirect, Track!LosslessWaited
<1>5. CASE Track!EnginePost(g)
  BY <1>1, <1>2, <1>5 DEF Track!EnginePost
<1>6. CASE Track!EngineFails(g)
  BY <1>1, <1>2, <1>6 DEF Track!EngineFails
<1>7. CASE Track!HtcOvertaken(g)
  BY <1>1, <1>2, <1>7 DEF Track!HtcOvertaken, Track!Delete
<1>8. CASE Track!Recheck(g)
  BY <1>1, <1>2, <1>8 DEF Track!Recheck, Track!Delete
<1>9. CASE Track!HtcOpenFailed(g)
  BY <1>1, <1>2, <1>9 DEF Track!HtcOpenFailed, Track!HtcError
<1>10. CASE Track!HtcSession(g)
  BY <1>1, <1>2, <1>10 DEF Track!HtcSession, Track!Start
<1>11. CASE Track!EngineStop(g)
  BY <1>1, <1>2, <1>11 DEF Track!EngineStop
<1>12. CASE Track!Handoff(g)
  BY <1>1, <1>2, <1>12 DEF Track!Handoff
<1>13. CASE Track!DirectOvertaken(g)
  BY <1>1, <1>2, <1>13 DEF Track!DirectOvertaken
<1>14. CASE Track!DirectGivesUp(g)
  BY <1>1, <1>2, <1>14 DEF Track!DirectGivesUp, Track!Delete
<1>15. CASE Track!DirectSession(g)
  BY <1>1, <1>2, <1>15 DEF Track!DirectSession
<1>16. CASE Track!SourceOpen(g)
  BY <1>1, <1>2, <1>16 DEF Track!SourceOpen
<1>17. CASE Track!AttachAborted(g)
  BY <1>1, <1>2, <1>17 DEF Track!AttachAborted, Track!HtcError
<1>18. CASE Track!EngineLoad(g)
  BY <1>1, <1>2, <1>18 DEF Track!EngineLoad
<1>19. CASE Track!Loaded(g)
  BY <1>1, <1>2, <1>19 DEF Track!Loaded, Track!HtcError
<1> QED BY <1>3, <1>4, <1>5, <1>6, <1>7, <1>8, <1>9, <1>10, <1>11, <1>12, <1>13, <1>14, <1>15, <1>16, <1>17, <1>18, <1>19 DEF Track!AttemptStep

\* Removing an element of a sequence leaves a sequence of the others.
LEMMA TrackRemoves ==
  ASSUME NEW S, NEW seq \in Seq(S), NEW i \in DOMAIN seq
  PROVE  /\ Track!RemoveAt(seq, i) \in Seq(S) /\ Len(Track!RemoveAt(seq, i)) = Len(seq) - 1
         /\ \A k \in DOMAIN Track!RemoveAt(seq, i) :
              \E n \in DOMAIN seq : Track!RemoveAt(seq, i)[k] = seq[n]
<1> DEFINE a == SubSeq(seq, 1, i - 1)
           b == SubSeq(seq, i + 1, Len(seq))
<1>1. Len(seq) \in Nat /\ i \in 1 .. Len(seq) /\ \A n \in 1 .. Len(seq) : seq[n] \in S
  OBVIOUS
<1>2. a \in Seq(S) /\ Len(a) = i - 1 /\ \A k \in 1 .. i - 1 : a[k] = seq[k]
  BY <1>1
<1>3. b \in Seq(S) /\ Len(b) = Len(seq) - i /\ \A k \in 1 .. Len(seq) - i : b[k] = seq[i + k]
  BY <1>1
<1>4. Track!RemoveAt(seq, i) = a \o b
  BY DEF Track!RemoveAt
<1> HIDE DEF a, b
<1>5. /\ a \o b \in Seq(S) /\ Len(a \o b) = Len(seq) - 1
      /\ \A k \in 1 .. Len(seq) - 1 : (a \o b)[k] = IF k <= i - 1 THEN a[k] ELSE b[k - (i - 1)]
  <2>1. a \o b \in Seq(S) /\ Len(a \o b) = Len(a) + Len(b)
        /\ \A k \in 1 .. Len(a) + Len(b) : (a \o b)[k] = IF k <= Len(a) THEN a[k] ELSE b[k - Len(a)]
    <3>1. a \in Seq(S) /\ b \in Seq(S)
      BY <1>2, <1>3
    <3> QED BY <3>1
  <2>2. Len(a) = i - 1 /\ Len(a) + Len(b) = Len(seq) - 1
    BY <1>1, <1>2, <1>3
  <2> QED BY <2>1, <2>2
<1>6. ASSUME NEW k \in 1 .. Len(seq) - 1
      PROVE  \E n \in DOMAIN seq : (a \o b)[k] = seq[n]
  <2>1. CASE k <= i - 1
    BY <1>1, <1>2, <1>5, <2>1
  <2>2. CASE ~(k <= i - 1)
    <3>1. k - (i - 1) \in 1 .. Len(seq) - i /\ k + 1 \in 1 .. Len(seq)
      BY <1>1, <2>2
    <3>2. (a \o b)[k] = seq[i + (k - (i - 1))]
      BY <1>3, <1>5, <2>2, <3>1
    <3> QED BY <1>1, <3>1, <3>2
  <2> QED BY <2>1, <2>2
<1>7. Len(seq) - 1 \in Nat /\ DOMAIN (a \o b) = 1 .. Len(seq) - 1
  BY <1>1, <1>5
<1> QED BY <1>4, <1>5, <1>6, <1>7

LEMMA TrackTypes ==
  ASSUME Track!TrackAssumption, TrackInv, Track!Next
  PROVE  Track!TypeOK'
<1> DEFINE Warming == [slot : Track!Slots \union {"hover"}, track : Track!Tracks,
                       path : Track!Paths, sid : Track!Sids \union {None}]
           T1  == opened \in [Track!Sids -> Track!Opened \union {None}]
           T2  == live \subseteq Track!Sids /\ deletes \subseteq Track!Sids
           T3  == vlcPlays \in {"silent", "playing", "late", "forgotten"}
           T4  == generation \in 0 .. MaxGen /\ ctrl \in 0 .. MaxGen /\ directGen \in 0 .. MaxGen
           T5  == attempts \in [Track!Gens -> Track!Attempt]
           T6  == sessionId \in Track!Sids \union {None} /\ playState \in Track!PlayStates
           T7  == assetId \in Track!Tracks \union {None} /\ direct \in Track!Tracks \union {None}
           T8  == vlcLive \in BOOLEAN /\ vlcMode \in BOOLEAN /\ lossless \in BOOLEAN /\ gate \in BOOLEAN
           T9  == /\ slots \in [Track!Slots -> Track!Warmth \union {None}]
                  /\ tried \in [Track!Slots -> BOOLEAN]
           T10 == warming \subseteq Warming /\ warmed \in 0 .. MaxWarm
           T11 == hover \in Seq(Track!Warmth) /\ Len(hover) <= HoverCap
           T12 == streamOf \in Track!Sids \union {None}
           Typed == T1 /\ T2 /\ T3 /\ T4 /\ T5 /\ T6 /\ T7 /\ T8 /\ T9 /\ T10 /\ T11 /\ T12
<1>1. Track!TypeOK <=> Typed
  BY DEF Track!TypeOK
<1>2. Typed /\ Track!TypeOK
  BY <1>1 DEF TrackInv
<1>3. Track!TypeOK' <=> Typed'
  BY DEF Track!TypeOK
<1>4. /\ MaxGen \in Nat /\ HoverCap \in Nat \ {0} /\ MaxWarm \in Nat /\ None \notin Track!Warmth
      /\ Track!Gens = 1 .. MaxGen
  BY DEF Track!TrackAssumption, Track!Gens
<1>5. ASSUME NEW g \in Track!Gens, Track!AttemptStep(g)
      PROVE  Typed'
  <2>1. TrackFrame(g) /\ attempts[g] \in Track!Attempt
    BY <1>2, <1>5, TrackFrames
  <2>2. T5'
    BY <1>5, TrackAttempt
  <2>3. T1' /\ T2'
    <3>1. CASE UNCHANGED <<opened, live>>
      BY <1>2, <2>1, <3>1 DEF TrackFrame
    <3>2. ASSUME NEW s \in Track!Sids, Track!OpenSession(attempts[g].track, attempts[g].path, s),
                 Track!EnginePost(g)
          PROVE  T1' /\ T2'
      <4>1. attempts[g].track \in Track!Tracks /\ attempts[g].path \in Track!Paths
        BY <2>1, <3>2 DEF TrackInv, TrackKinds, TrackKind, Track!EnginePost, Track!Attempt
      <4> QED BY <1>2, <2>1, <3>2, <4>1, TrackOpens DEF TrackFrame
    <3>3. UNCHANGED <<opened, live>> \/ Track!EnginePost(g)
      BY <1>5 DEF Track!AttemptStep, Track!Resolve, Track!ResolveDirect, Track!EngineFails,
         Track!HtcOvertaken, Track!Recheck, Track!HtcOpenFailed, Track!HtcSession,
         Track!EngineStop, Track!Handoff, Track!DirectOvertaken, Track!DirectGivesUp,
         Track!DirectSession, Track!SourceOpen, Track!AttachAborted, Track!EngineLoad,
         Track!Loaded, Track!engine
    <3> QED BY <3>1, <3>2, <3>3 DEF Track!EnginePost
  <2>4. T3' /\ T8' /\ T10' /\ T12'
    BY <1>2, <2>1 DEF TrackFrame
  <2>5. T4'
    BY <1>2, <1>4, <2>1 DEF TrackFrame
  <2>6. T6' /\ T7'
    BY <1>2, <2>1 DEF TrackFrame, Track!PlayStates, Track!Attempt
  <2>7. T9'
    BY <1>2, <2>1 DEF TrackFrame
  <2>8. T11'
    <3>1. CASE hover' = hover
      BY <1>2, <3>1
    <3>2. ASSUME NEW t, Track!HoverHit(t) # {},
                 hover' = Track!RemoveAt(hover, Track!Min(Track!HoverHit(t)))
          PROVE  T11'
      <4> DEFINE i == Track!Min(Track!HoverHit(t))
      <4>1. i \in DOMAIN hover
        BY <3>2, TrackHoverHit
      <4>2. Track!RemoveAt(hover, i) \in Seq(Track!Warmth) /\ Len(Track!RemoveAt(hover, i)) = Len(hover) - 1
        BY <1>2, <4>1, TrackRemoves
      <4> QED BY <1>2, <1>4, <3>2, <4>2
    <3> QED BY <2>1, <3>1, <3>2 DEF TrackFrame
  <2> HIDE DEF T1, T2, T3, T4, T5, T6, T7, T8, T9, T10, T11, T12
  <2> QED BY <2>2, <2>3, <2>4, <2>5, <2>6, <2>7, <2>8
<1>6. ASSUME NEW t \in Track!Tracks, Track!Click(t) \/ Track!TrackChange(t)
      PROVE  Typed'
  <2>1. UNCHANGED <<opened, live, vlcPlays, vlcLive, lossless, warming, warmed, hover>> /\ gate' \in BOOLEAN
    BY <1>6 DEF Track!Click, Track!TrackChange, Track!engine, Track!CloseCDNGate
  <2>2. CASE UNCHANGED <<attempts, generation>>
    <3>1. /\ UNCHANGED <<deletes, sessionId, playState, vlcMode, ctrl, tried, slots, streamOf, direct>>
          /\ directGen' \in {directGen, 0} /\ assetId' \in {assetId, t}
      BY <1>2, <1>6, <2>2 DEF Track!Click, Track!TrackChange, Track!Begin, Track!current, Track!clicks
    <3> QED BY <1>2, <1>4, <2>1, <2>2, <3>1
  <2>3. ASSUME NEW kind \in {"htc", "direct"}, NEW D, Track!Begin(kind, t, D)
        PROVE  Typed'
    <3>1. /\ generation + 1 \in Track!Gens /\ generation' = generation + 1 /\ ctrl' = 0
          /\ sessionId' = None /\ vlcMode' = FALSE /\ playState' = "opening"
          /\ tried' = [w \in Track!Slots |-> FALSE]
          /\ deletes' = deletes \union ((({sessionId} \union D)) \intersect live)
          /\ T5'
      BY <2>3, TrackBegins
    <3>2. /\ assetId' \in {None, t} /\ direct' \in {None, t}
          /\ directGen' \in {0, generation'}
          /\ streamOf' \in {None, streamOf}
          /\ slots' = slots \/ slots' = [w \in Track!Slots |-> IF w \in Track!Stale(t) THEN None ELSE slots[w]]
      BY <1>2, <1>6, <2>3 DEF Track!Click, Track!TrackChange, Track!Begin, Track!current, Track!clicks
    <3>3. T9'
      BY <1>2, <3>1, <3>2
    <3>4. T4'
      BY <1>2, <1>4, <3>1, <3>2
    <3>5. T2' /\ T5' /\ T6'
      BY <1>2, <2>1, <3>1 DEF Track!PlayStates
    <3> QED BY <1>2, <2>1, <3>1, <3>2, <3>3, <3>4, <3>5
  <2>4. \/ UNCHANGED <<attempts, generation>>
        \/ \E kind \in {"htc", "direct"} : \E D : Track!Begin(kind, t, D)
    BY <1>6 DEF Track!Click, Track!TrackChange, Track!current
  <2> HIDE DEF Typed
  <2> QED BY <2>2, <2>3, <2>4
<1>7. ASSUME NEW w \in Track!Slots \union {"hover"}, NEW t \in Track!Tracks, Track!WarmOpen(w, t)
      PROVE  Typed'
  <2> DEFINE p == Track!PathOf(t, lossless)
  <2>1. p \in Track!Paths
    BY DEF Track!PathOf, Track!Paths
  <2>2. warmed' \in 0 .. MaxWarm
    BY <1>2, <1>4, <1>7 DEF Track!WarmOpen
  <2>3. tried' \in [Track!Slots -> BOOLEAN]
    BY <1>2, <1>7 DEF Track!WarmOpen
  <2>4. UNCHANGED <<vlcPlays, deletes, attempts, vlcLive, lossless, slots, hover, streamOf,
                    sessionId, assetId, playState, vlcMode, generation, ctrl, gate, direct, directGen>>
    BY <1>7 DEF Track!WarmOpen, Track!current, Track!clicks
  <2>5. CASE UNCHANGED <<opened, live, warming>>
    BY <1>2, <2>2, <2>3, <2>4, <2>5
  <2>6. ASSUME NEW s \in Track!Sids, Track!OpenSession(t, p, s),
               warming' = warming \union {[slot |-> w, track |-> t, path |-> p, sid |-> s]}
        PROVE  Typed'
    <3>1. T1' /\ live' \subseteq Track!Sids
      BY <2>1, <2>6, TrackOpens
    <3>2. warming' \subseteq Warming
      BY <1>2, <2>1, <2>6
    <3> HIDE DEF Warming
    <3> QED BY <1>2, <2>2, <2>3, <2>4, <3>1, <3>2
  <2> QED BY <1>7, <2>5, <2>6 DEF Track!WarmOpen
<1>8. ASSUME NEW r \in warming, Track!WarmReply(r)
      PROVE  Typed'
  <2>1. r \in Warming /\ r.sid \in Track!Sids
    BY <1>2 DEF TrackInv, TrackSessions
  <2>2. [track |-> r.track, sid |-> r.sid] \in Track!Warmth
    BY <2>1 DEF Track!Warmth
  <2>3. /\ UNCHANGED <<opened, live, vlcPlays, attempts, vlcLive, lossless, tried, warmed, streamOf,
                       sessionId, assetId, playState, vlcMode, generation, ctrl, gate, direct, directGen>>
        /\ warming' \subseteq warming /\ deletes' \subseteq deletes \union live
    BY <1>8 DEF Track!WarmReply, Track!engine, Track!current, Track!clicks, Track!Delete
  <2>4. slots' \in [Track!Slots -> Track!Warmth \union {None}]
    BY <1>2, <1>8, <2>1, <2>2 DEF Track!WarmReply
  <2>5. T11'
    <3>1. CASE hover' = hover
      BY <1>2, <3>1
    <3>2. CASE hover' # hover
      <4> DEFINE full == Len(hover) >= HoverCap
                 kept == IF full THEN Tail(hover) ELSE hover
      <4>1. hover' = Append(kept, [track |-> r.track, sid |-> r.sid])
        BY <1>8, <3>2 DEF Track!WarmReply
      <4>2. kept \in Seq(Track!Warmth) /\ Len(kept) < HoverCap
        BY <1>2, <1>4
      <4> HIDE DEF kept
      <4> QED BY <1>4, <2>2, <4>1, <4>2
    <3> QED BY <3>1, <3>2
  <2> QED BY <1>2, <2>3, <2>4, <2>5
<1>9. ASSUME \/ Track!EngineDelete \/ Track!CapsReport \/ Track!GateTimeout \/ Track!PrefetchStream
      PROVE  Typed'
  <2>1. streamOf' \in Track!Sids \union {None}
    BY <1>2, <1>9 DEF Track!EngineDelete, Track!CapsReport, Track!GateTimeout, Track!PrefetchStream,
       Track!warmVars, Track!Slots, Track!Warmth
  <2>2. /\ UNCHANGED <<opened, vlcPlays, attempts, sessionId, assetId, playState, vlcMode,
                       generation, ctrl, slots, tried, warming, warmed, hover, direct, directGen, vlcLive>>
        /\ live' \subseteq live /\ deletes' \subseteq deletes
        /\ lossless' \in {lossless, TRUE} /\ gate' \in {gate, FALSE}
    BY <1>9 DEF Track!EngineDelete, Track!CapsReport, Track!GateTimeout, Track!PrefetchStream,
       Track!warmVars, Track!engine, Track!current, Track!clicks
  <2> QED BY <1>2, <2>1, <2>2
<1> HIDE DEF Typed
<1> QED BY <1>3, <1>5, <1>6, <1>7, <1>8, <1>9 DEF Track!Next

\* An attempt stands where it may, and holds a session of its track, after each of its steps.
LEMMA TrackMoves ==
  ASSUME Track!TrackAssumption, TrackInv, NEW g \in Track!Gens, Track!AttemptStep(g)
  PROVE  /\ TrackKind(attempts'[g])
         /\ attempts'[g].sid # None =>
              /\ opened'[attempts'[g].sid] # None
              /\ opened'[attempts'[g].sid].track = attempts'[g].track
<1> DEFINE old == attempts[g]
           new == attempts'[g]
<1>1. /\ old \in Track!Attempt /\ attempts \in [Track!Gens -> Track!Attempt] /\ Track!TypeOK
      /\ TrackKind(old)
      /\ \A s \in Track!Sids : s # None
  BY DEF TrackInv, TrackKinds, Track!TypeOK, Track!TrackAssumption, Track!Sids
<1>2. \A pc \in Track!Pcs : Track!Step(g, pc) =>
        /\ new.pc = pc
        /\ IF pc = "done" THEN new.sid = None
           ELSE /\ new.sid = old.sid /\ new.path = old.path /\ new.kind = old.kind
                /\ new.track = old.track /\ new.failed = old.failed
  BY <1>1, TrackSteps
<1>3. /\ old.sid \in Track!Sids \union {None} /\ old.path \in Track!Paths
      /\ old.failed \in BOOLEAN
  BY <1>1 DEF Track!Attempt
<1> HIDE DEF old, new
<1> USE DEF Track!Pcs
<1> DEFINE Found == \/ new.sid = None
                    \/ new.sid = old.sid /\ new.track = old.track
                    \/ /\ opened[new.sid] # None /\ opened[new.sid].track = new.track
                       /\ new.sid \in Track!Sids
<1>4. ASSUME NEW s \in Track!Sids, Track!Claim(g, s), TrackKind(old), old.pc = "lossless",
             opened[s] # None, opened[s].track = old.track
      PROVE  TrackKind(new) /\ Found
  <2>1. new.pc = "reply" /\ new.sid = s /\ new.failed = old.failed /\ new.track = old.track
    BY <1>1, <1>4 DEF old, new, Track!Claim, Track!Attempt
  <2> QED BY <1>1, <1>3, <1>4, <2>1 DEF TrackKind, TrackSession
<1>5. ASSUME Track!Post(g), TrackKind(old), old.pc = "lossless"
      PROVE  TrackKind(new) /\ Found
  <2>1. new.pc = "post" /\ new.sid = old.sid /\ new.failed = old.failed /\ new.track = old.track
    BY <1>1, <1>5 DEF old, new, Track!Post, Track!Attempt
  <2> QED BY <1>1, <1>3, <1>5, <2>1 DEF TrackKind, TrackSession
<1>6. ASSUME Track!Step(g, "done")
      PROVE  TrackKind(new) /\ Found
  BY <1>2, <1>6 DEF TrackKind, TrackSession
<1>7. ASSUME Track!Resolve(g) \/ Track!ResolveDirect(g)
      PROVE  TrackKind(new) /\ Found
  <2>1. old.pc = "lossless"
    BY <1>7 DEF old, Track!Resolve, Track!ResolveDirect, Track!LosslessWaited
  <2>2. ASSUME Track!WarmHit(old.track), Track!Claim(g, slots[Track!SlotFor(old.track)].sid)
        PROVE  TrackKind(new) /\ Found
    <3> DEFINE w == Track!SlotFor(old.track)
    <3>1. w \in Track!Slots /\ slots[w] # None /\ slots[w].track = old.track
      BY <2>2 DEF Track!SlotFor, Track!PathOf, Track!Slots, Track!WarmHit
    <3>2. slots[w].sid \in Track!Sids /\ opened[slots[w].sid] # None
          /\ opened[slots[w].sid].track = old.track
      BY <1>1, <3>1 DEF TrackInv, Track!TypeOK, TrackSessions, TrackHolds, Track!Warmth
    <3> HIDE DEF w, Found
    <3> QED BY <1>1, <1>4, <2>1, <2>2, <3>2 DEF w
  <2>3. ASSUME Track!HoverHit(old.track) # {},
               Track!Claim(g, hover[Track!Min(Track!HoverHit(old.track))].sid)
        PROVE  TrackKind(new) /\ Found
    <3> DEFINE i == Track!Min(Track!HoverHit(old.track))
    <3>1. hover \in Seq(Track!Warmth) /\ i \in DOMAIN hover /\ hover[i].track = old.track
      BY <2>3, TrackHoverHit
    <3> HIDE DEF i
    <3>2. hover[i] \in Track!Warmth /\ TrackHolds(hover[i])
      BY <3>1 DEF TrackInv, TrackSessions
    <3>3. hover[i].sid \in Track!Sids /\ opened[hover[i].sid] # None
          /\ opened[hover[i].sid].track = old.track
      BY <3>1, <3>2 DEF TrackHolds, Track!Warmth
    <3> HIDE DEF Found
    <3> QED BY <1>1, <1>4, <2>1, <2>3, <3>3 DEF i
  <2>4. \/ Track!Step(g, "done") \/ Track!Post(g)
        \/ Track!WarmHit(old.track) /\ Track!Claim(g, slots[Track!SlotFor(old.track)].sid)
        \/ /\ Track!HoverHit(old.track) # {}
           /\ Track!Claim(g, hover[Track!Min(Track!HoverHit(old.track))].sid)
    BY <1>7 DEF old, Track!Resolve, Track!ResolveDirect
  <2> HIDE DEF Found
  <2> QED BY <1>1, <1>5, <1>6, <2>1, <2>2, <2>3, <2>4
<1>8. ASSUME Track!EnginePost(g)
      PROVE  TrackKind(new) /\ (new.sid # None => opened'[new.sid] # None
                                                 /\ opened'[new.sid].track = new.track)
  <2>1. PICK s \in Track!Sids : /\ Track!OpenSession(old.track, old.path, s)
                               /\ attempts' = [attempts EXCEPT ![g].pc = "reply", ![g].sid = s]
    BY <1>8 DEF old, Track!EnginePost
  <2>2. old.track \in Track!Tracks /\ ~old.failed
    BY <1>1, <1>8 DEF old, TrackKind, Track!EnginePost
  <2>3. new.pc = "reply" /\ new.sid = s /\ new.failed = old.failed /\ new.track = old.track
    BY <1>1, <2>1 DEF old, new, Track!Attempt
  <2>4. opened'[s] # None /\ opened'[s].track = old.track
    BY <1>3, <2>1, <2>2, TrackOpens
  <2>5. TrackKind(new)
    BY <1>1, <1>3, <2>2, <2>3 DEF TrackKind, TrackSession
  <2> QED BY <2>3, <2>4, <2>5
<1>9. ASSUME Track!EngineFails(g)
      PROVE  TrackKind(new) /\ Found
  <2>1. new.pc = "reply" /\ new.sid = old.sid /\ new.failed = TRUE /\ new.track = old.track
    BY <1>1, <1>9 DEF old, new, Track!EngineFails, Track!Attempt
  <2>2. old.pc = "post"
    BY <1>9 DEF old, Track!EngineFails
  <2> QED BY <1>1, <2>1, <2>2 DEF TrackKind, TrackSession
<1>10. ASSUME Track!HtcOvertaken(g)
      PROVE  TrackKind(new) /\ Found
  BY <1>1, <1>2, <1>3, <1>6, <1>10 DEF old, TrackKind, TrackSession, Track!HtcOvertaken
<1>11. ASSUME Track!Recheck(g)
      PROVE  TrackKind(new) /\ Found
  BY <1>1, <1>2, <1>3, <1>6, <1>11 DEF old, TrackKind, TrackSession, Track!Recheck
<1>12. ASSUME Track!HtcOpenFailed(g)
      PROVE  TrackKind(new) /\ Found
  BY <1>1, <1>2, <1>3, <1>6, <1>12 DEF old, TrackKind, TrackSession, Track!HtcOpenFailed, Track!HtcError
<1>13. ASSUME Track!DirectOvertaken(g)
      PROVE  TrackKind(new) /\ Found
  BY <1>1, <1>2, <1>3, <1>6, <1>13 DEF old, TrackKind, TrackSession, Track!DirectOvertaken
<1>14. ASSUME Track!DirectGivesUp(g)
      PROVE  TrackKind(new) /\ Found
  BY <1>1, <1>2, <1>3, <1>6, <1>14 DEF old, TrackKind, TrackSession, Track!DirectGivesUp
<1>15. ASSUME Track!AttachAborted(g)
      PROVE  TrackKind(new) /\ Found
  BY <1>1, <1>2, <1>3, <1>6, <1>15 DEF old, TrackKind, TrackSession, Track!AttachAborted, Track!HtcError
<1>16. ASSUME Track!DirectSession(g)
      PROVE  TrackKind(new) /\ Found
  BY <1>1, <1>2, <1>3, <1>6, <1>16 DEF old, TrackKind, TrackSession, Track!DirectSession
<1>17. ASSUME Track!SourceOpen(g)
      PROVE  TrackKind(new) /\ Found
  BY <1>1, <1>2, <1>3, <1>6, <1>17 DEF old, TrackKind, TrackSession, Track!SourceOpen
<1>18. ASSUME Track!EngineStop(g)
      PROVE  TrackKind(new) /\ Found
  BY <1>1, <1>2, <1>3, <1>6, <1>18 DEF old, TrackKind, TrackSession, Track!EngineStop
<1>19. ASSUME Track!Loaded(g)
      PROVE  TrackKind(new) /\ Found
  BY <1>1, <1>2, <1>3, <1>6, <1>19 DEF old, TrackKind, TrackSession, Track!Loaded, Track!HtcError
<1>20. ASSUME Track!HtcSession(g)
       PROVE  TrackKind(new) /\ Found
  <2>1. old.pc = "reply" /\ old.kind = "htc" /\ ~old.failed
    BY <1>20 DEF old, Track!HtcSession
  <2>2. CASE Track!Step(g, "handoff") /\ old.path # "alac"
    BY <1>1, <1>2, <1>3, <2>1, <2>2 DEF TrackKind, TrackSession
  <2>3. CASE Track!Start(g)
    <3>1. /\ new.pc = CASE old.path = "mv" -> "run" [] old.path = "aac" -> "attach" [] OTHER -> "load"
          /\ new.sid = old.sid /\ new.path = old.path /\ new.track = old.track
      BY <1>1, <2>3 DEF old, new, Track!Start, Track!Attempt
    <3> QED BY <1>1, <1>3, <2>1, <3>1 DEF TrackKind, TrackSession, Track!Paths
  <2> HIDE DEF Found
  <2> QED BY <1>20, <2>2, <2>3 DEF old, Track!HtcSession, Track!NeedsStop
<1>21. ASSUME Track!Handoff(g)
       PROVE  TrackKind(new) /\ Found
  <2>1. CASE ~Track!Step(g, "done")
    <3>1. /\ new.pc = IF old.path = "mv" THEN "run" ELSE "attach"
          /\ new.sid = old.sid /\ new.path = old.path /\ new.track = old.track
      BY <1>1, <1>21, <2>1 DEF old, new, Track!Handoff, Track!Attempt
    <3>2. old.pc \in {"handoff", "stopped"}
      BY <1>21 DEF old, Track!Handoff
    <3> QED BY <1>1, <1>3, <3>1, <3>2 DEF TrackKind, TrackSession, Track!Paths
  <2> HIDE DEF Found
  <2> QED BY <1>6, <2>1
<1>22. ASSUME Track!EngineLoad(g)
       PROVE  TrackKind(new) /\ Found
  <2>1. old.pc = "load"
    BY <1>22 DEF old, Track!EngineLoad
  <2>2. new.pc = "loaded" /\ new.sid = old.sid /\ new.path = old.path /\ new.track = old.track
    <3>1. CASE Track!Step(g, "loaded")
      BY <1>2, <3>1
    <3>2. CASE ~Track!Step(g, "loaded")
      BY <1>1, <1>22, <3>2 DEF old, new, Track!EngineLoad, Track!Attempt
    <3> QED BY <3>1, <3>2
  <2> QED BY <1>1, <2>1, <2>2 DEF TrackKind, TrackSession
<1>23. ASSUME TrackKind(new), Found, UNCHANGED opened
       PROVE  TrackKind(new) /\ (new.sid # None => opened'[new.sid] # None
                                                  /\ opened'[new.sid].track = new.track)
  BY <1>23 DEF old, TrackInv, TrackSessions, TrackHolds
<1>24. UNCHANGED opened \/ Track!EnginePost(g)
  BY DEF Track!AttemptStep, Track!Resolve, Track!ResolveDirect, Track!EngineFails,
     Track!HtcOvertaken, Track!Recheck, Track!HtcOpenFailed, Track!HtcSession,
     Track!EngineStop, Track!Handoff, Track!DirectOvertaken, Track!DirectGivesUp,
     Track!DirectSession, Track!SourceOpen, Track!AttachAborted, Track!EngineLoad,
     Track!Loaded, Track!engine
<1> HIDE DEF Found
<1>25. (TrackKind(new) /\ Found) \/ Track!EnginePost(g)
  BY <1>7, <1>9, <1>10, <1>11, <1>12, <1>13, <1>14, <1>15, <1>16, <1>17, <1>18, <1>19, <1>20, <1>21, <1>22 DEF Track!AttemptStep
<1> QED BY <1>8, <1>23, <1>24, <1>25 DEF new

\* A step is one of an attempt, begins one, or leaves all attempts alone.
LEMMA TrackSplits ==
  ASSUME Track!TrackAssumption, TrackInv, Track!Next
  PROVE  \/ \E g \in Track!Gens : Track!AttemptStep(g)
         \/ /\ \E D : \E kind \in {"htc", "direct"}, t \in Track!Tracks : Track!Begin(kind, t, D)
            /\ \E t \in Track!Tracks : Track!Click(t) \/ Track!TrackChange(t)
         \/ UNCHANGED <<attempts, generation, ctrl, sessionId>>
<1>1. ASSUME NEW t \in Track!Tracks, Track!Click(t) \/ Track!TrackChange(t)
      PROVE  \/ \E kind \in {"htc", "direct"} : \E D : Track!Begin(kind, t, D)
             \/ UNCHANGED <<attempts, generation, ctrl, sessionId>>
  BY <1>1 DEF Track!Click, Track!TrackChange, Track!current
<1>2. ASSUME \/ Track!EngineDelete \/ Track!CapsReport \/ Track!GateTimeout \/ Track!PrefetchStream
      PROVE  UNCHANGED <<attempts, generation, ctrl, sessionId>>
  BY <1>2 DEF Track!EngineDelete, Track!CapsReport, Track!GateTimeout, Track!PrefetchStream,
     Track!current
<1>3. ASSUME NEW w, NEW t, Track!WarmOpen(w, t)
      PROVE  UNCHANGED <<attempts, generation, ctrl, sessionId>>
  BY <1>3 DEF Track!WarmOpen, Track!current
<1>4. ASSUME NEW r, Track!WarmReply(r)
      PROVE  UNCHANGED <<attempts, generation, ctrl, sessionId>>
  BY <1>4 DEF Track!WarmReply, Track!current
<1> QED BY <1>1, <1>2, <1>3, <1>4 DEF Track!Next

\* A session that was opened stays what it was.
LEMMA TrackKeepsOpened ==
  ASSUME Track!TrackAssumption, TrackInv, Track!Next
  PROVE  \A x \in Track!Sids : opened[x] # None => opened'[x] = opened[x]
<1>1. ASSUME NEW g \in Track!Gens, Track!AttemptStep(g)
      PROVE  \A x \in Track!Sids : opened[x] # None => opened'[x] = opened[x]
  <2>1. CASE Track!EnginePost(g)
    <3>1. attempts[g].track \in Track!Tracks /\ attempts[g].path \in Track!Paths
      BY <2>1 DEF TrackInv, Track!TypeOK, TrackKinds, TrackKind, Track!EnginePost, Track!Attempt
    <3> QED BY <2>1, <3>1, TrackOpens DEF Track!EnginePost
  <2>2. CASE UNCHANGED opened
    BY <2>2
  <2> QED BY <1>1, <2>1, <2>2 DEF Track!AttemptStep, Track!Resolve, Track!ResolveDirect,
     Track!EngineFails, Track!HtcOvertaken, Track!Recheck, Track!HtcOpenFailed, Track!HtcSession,
     Track!EngineStop, Track!Handoff, Track!DirectOvertaken, Track!DirectGivesUp,
     Track!DirectSession, Track!SourceOpen, Track!AttachAborted, Track!EngineLoad,
     Track!Loaded, Track!engine
<1>2. ASSUME NEW w, NEW t \in Track!Tracks, Track!WarmOpen(w, t)
      PROVE  \A x \in Track!Sids : opened[x] # None => opened'[x] = opened[x]
  <2>1. Track!PathOf(t, lossless) \in Track!Paths
    BY DEF Track!PathOf, Track!Paths
  <2> QED BY <1>2, <2>1, TrackOpens DEF Track!WarmOpen
<1>3. ASSUME \/ Track!EngineDelete \/ Track!CapsReport \/ Track!GateTimeout \/ Track!PrefetchStream
             \/ \E t \in Track!Tracks : Track!Click(t) \/ Track!TrackChange(t)
             \/ \E r \in warming : Track!WarmReply(r)
      PROVE  UNCHANGED opened
  BY <1>3 DEF Track!EngineDelete, Track!CapsReport, Track!GateTimeout, Track!PrefetchStream,
     Track!Click, Track!TrackChange, Track!WarmReply, Track!engine
<1> QED BY <1>1, <1>2, <1>3 DEF Track!Next

LEMMA TrackSessionsKept ==
  ASSUME Track!TrackAssumption, TrackInv, Track!Next
  PROVE  TrackSessions'
<1> DEFINE Held(s, t) == s \in Track!Sids /\ opened[s] # None /\ opened[s].track = t
<1>1. /\ slots \in [Track!Slots -> Track!Warmth \union {None}] /\ hover \in Seq(Track!Warmth)
      /\ attempts \in [Track!Gens -> Track!Attempt] /\ \A i \in DOMAIN hover : hover[i] \in Track!Warmth
  BY DEF TrackInv, Track!TypeOK
<1>2. /\ \A w \in Track!Slots : slots[w] # None => Held(slots[w].sid, slots[w].track)
      /\ \A i \in DOMAIN hover : Held(hover[i].sid, hover[i].track)
      /\ \A r \in warming : Held(r.sid, r.track)
      /\ \A g \in Track!Gens : attempts[g].sid # None => Held(attempts[g].sid, attempts[g].track)
  BY <1>1 DEF TrackInv, TrackSessions, TrackHolds, Track!Warmth, Track!Attempt
<1> DEFINE HeldNow(s, t) == s \in Track!Sids /\ opened'[s] # None /\ opened'[s].track = t
<1>3. \A s, t : Held(s, t) => HeldNow(s, t)
  BY TrackKeepsOpened
<1> HIDE DEF Held
\* The attempts.
<1>4. ASSUME NEW g \in Track!Gens, attempts'[g].sid # None
      PROVE  opened'[attempts'[g].sid] # None /\ opened'[attempts'[g].sid].track = attempts'[g].track
  <2>1. CASE Track!AttemptStep(g)
    BY <1>4, <2>1, TrackMoves
  <2>2. ASSUME NEW h \in Track!Gens, Track!AttemptStep(h), h # g
        PROVE  attempts'[g].sid = attempts[g].sid /\ attempts'[g].track = attempts[g].track
    BY <2>2, TrackAttempt
  <2>3. ASSUME NEW kind \in {"htc", "direct"}, NEW t \in Track!Tracks, NEW D, Track!Begin(kind, t, D)
        PROVE  attempts'[g].sid = attempts[g].sid /\ attempts'[g].track = attempts[g].track
    <3>1. g # generation + 1 /\ attempts[g] \in Track!Attempt
      BY <1>1, <1>4, <2>3, TrackBegins
    <3>2. attempts'[g] = [attempts[g] EXCEPT !.aborted = IF g = ctrl THEN TRUE ELSE @]
      BY <2>3, <3>1, TrackBegins
    <3> QED BY <3>1, <3>2 DEF Track!Attempt
  <2> QED BY <1>2, <1>3, <1>4, <2>1, <2>2, <2>3, TrackSplits
\* The warm sessions.
<1>5. \A r \in warming' : HeldNow(r.sid, r.track)
  <2>1. ASSUME NEW w, NEW t \in Track!Tracks, Track!WarmOpen(w, t), NEW r \in warming', r \notin warming
        PROVE  HeldNow(r.sid, r.track)
    <3>1. Track!PathOf(t, lossless) \in Track!Paths
      BY DEF Track!PathOf, Track!Paths
    <3>2. PICK s \in Track!Sids : /\ Track!OpenSession(t, Track!PathOf(t, lossless), s)
                                 /\ r.sid = s /\ r.track = t
      BY <2>1 DEF Track!WarmOpen
    <3> QED BY <3>1, <3>2, TrackOpens
  <2>2. ASSUME ~\E w \in Track!Slots \union {"hover"}, t \in Track!Tracks : Track!WarmOpen(w, t)
        PROVE  warming' \subseteq warming
    <3>1. ASSUME NEW g \in Track!Gens, Track!AttemptStep(g)
          PROVE  warming' = warming
      BY <3>1, TrackFrames DEF TrackFrame
    <3> QED BY <2>2, <3>1 DEF Track!Next, Track!EngineDelete, Track!CapsReport, Track!GateTimeout,
       Track!PrefetchStream, Track!Click, Track!TrackChange, Track!WarmReply, Track!warmVars
  <2> QED BY <1>2, <1>3, <2>1, <2>2
<1>6. \A w \in Track!Slots : slots'[w] # None => HeldNow(slots'[w].sid, slots'[w].track)
  <2> SUFFICES ASSUME NEW w \in Track!Slots, slots'[w] # None
               PROVE  slots'[w] = slots[w] \/ \E r \in warming : slots'[w].sid = r.sid /\ slots'[w].track = r.track
    BY <1>2, <1>3
  <2>1. ASSUME NEW g \in Track!Gens, Track!AttemptStep(g)
        PROVE  slots'[w] = slots[w]
    BY <1>1, <2>1, TrackFrames DEF TrackFrame
  <2>2. ASSUME NEW t \in Track!Tracks, Track!Click(t) \/ Track!TrackChange(t)
        PROVE  slots'[w] = slots[w]
    BY <2>2 DEF Track!Click, Track!TrackChange
  <2>3. ASSUME NEW r \in warming, Track!WarmReply(r)
        PROVE  \/ slots'[w] = slots[w]
               \/ slots'[w].sid = r.sid /\ slots'[w].track = r.track
    BY <1>1, <2>3 DEF Track!WarmReply
  <2>4. ASSUME NEW v, NEW t, Track!WarmOpen(v, t)
        PROVE  slots'[w] = slots[w]
    BY <2>4 DEF Track!WarmOpen
  <2>5. ASSUME \/ Track!EngineDelete \/ Track!CapsReport \/ Track!GateTimeout \/ Track!PrefetchStream
        PROVE  slots'[w] = slots[w]
    BY <2>5 DEF Track!EngineDelete, Track!CapsReport, Track!GateTimeout, Track!PrefetchStream,
       Track!warmVars
  <2> QED BY <2>1, <2>2, <2>3, <2>4, <2>5 DEF Track!Next
<1>7. \A i \in DOMAIN hover' : HeldNow(hover'[i].sid, hover'[i].track)
  <2> SUFFICES ASSUME NEW i \in DOMAIN hover'
               PROVE  \/ \E k \in DOMAIN hover : hover'[i] = hover[k]
                      \/ \E r \in warming : hover'[i].sid = r.sid /\ hover'[i].track = r.track
    BY <1>2, <1>3
  <2>1. ASSUME NEW g \in Track!Gens, Track!AttemptStep(g)
        PROVE  \E k \in DOMAIN hover : hover'[i] = hover[k]
    <3>1. CASE hover' = hover
      BY <3>1
    <3>2. ASSUME NEW t, Track!HoverHit(t) # {},
                 hover' = Track!RemoveAt(hover, Track!Min(Track!HoverHit(t)))
          PROVE  \E k \in DOMAIN hover : hover'[i] = hover[k]
      BY <1>1, <3>2, TrackHoverHit, TrackRemoves
    <3> QED BY <2>1, <3>1, <3>2, TrackFrames DEF TrackFrame
  <2>2. ASSUME NEW t \in Track!Tracks, Track!Click(t) \/ Track!TrackChange(t)
        PROVE  hover' = hover
    BY <2>2 DEF Track!Click, Track!TrackChange
  <2>3. ASSUME NEW r \in warming, Track!WarmReply(r)
        PROVE  \/ \E k \in DOMAIN hover : hover'[i] = hover[k]
               \/ hover'[i].sid = r.sid /\ hover'[i].track = r.track
    <3>1. CASE hover' = hover
      BY <3>1
    <3>2. CASE hover' # hover
      <4> DEFINE full == Len(hover) >= HoverCap
                 kept == IF full THEN Tail(hover) ELSE hover
                 last == [track |-> r.track, sid |-> r.sid]
      <4>1. hover' = Append(kept, last)
        BY <2>3, <3>2 DEF Track!WarmReply
      <4>2. Len(hover) \in Nat /\ (full => Len(hover) >= 1)
        BY <1>1 DEF Track!TrackAssumption
      <4>3. /\ kept \in Seq(Track!Warmth)
            /\ \A k \in 1 .. Len(kept) : \E n \in DOMAIN hover : kept[k] = hover[n]
        <5>1. CASE full
          <6>1. Tail(hover) \in Seq(Track!Warmth) /\ Len(Tail(hover)) = Len(hover) - 1
                /\ \A k \in 1 .. Len(hover) - 1 : Tail(hover)[k] = hover[k + 1]
            BY <1>1, <4>2, <5>1
          <6>2. \A k \in 1 .. Len(hover) - 1 : k + 1 \in DOMAIN hover
            BY <1>1, <4>2
          <6> QED BY <5>1, <6>1, <6>2
        <5>2. CASE ~full
          BY <1>1, <5>2
        <5> QED BY <5>1, <5>2
      <4> HIDE DEF kept, last
      <4>4. i \in 1 .. Len(kept) + 1 /\ Len(kept) \in Nat
        BY <4>1, <4>3
      <4>5. CASE i = Len(kept) + 1
        <5>1. hover'[i] = last
          BY <4>1, <4>3, <4>4, <4>5
        <5> QED BY <5>1 DEF last
      <4>6. CASE i # Len(kept) + 1
        <5>1. i \in 1 .. Len(kept) /\ hover'[i] = kept[i]
          BY <4>1, <4>3, <4>4, <4>6
        <5> QED BY <4>3, <5>1
      <4> QED BY <4>5, <4>6
    <3> QED BY <3>1, <3>2
  <2>4. ASSUME NEW v, NEW t, Track!WarmOpen(v, t)
        PROVE  hover' = hover
    BY <2>4 DEF Track!WarmOpen
  <2>5. ASSUME \/ Track!EngineDelete \/ Track!CapsReport \/ Track!GateTimeout \/ Track!PrefetchStream
        PROVE  hover' = hover
    BY <2>5 DEF Track!EngineDelete, Track!CapsReport, Track!GateTimeout, Track!PrefetchStream,
       Track!warmVars
  <2> QED BY <2>1, <2>2, <2>3, <2>4, <2>5 DEF Track!Next
<1> QED BY <1>4, <1>5, <1>6, <1>7 DEF TrackSessions, TrackHolds

LEMMA TrackKindsKept ==
  ASSUME Track!TrackAssumption, TrackInv, Track!Next
  PROVE  TrackKinds'
<1> SUFFICES ASSUME NEW g \in Track!Gens PROVE TrackKind(attempts'[g])
  BY DEF TrackKinds, TrackKind
<1>1. TrackKind(attempts[g]) /\ attempts[g] \in Track!Attempt
  BY DEF TrackInv, TrackKinds, Track!TypeOK
<1>2. ASSUME NEW h \in Track!Gens, Track!AttemptStep(h)
      PROVE  TrackKind(attempts'[g])
  BY <1>1, <1>2, TrackMoves, TrackAttempt
<1>3. ASSUME NEW kind \in {"htc", "direct"}, NEW t \in Track!Tracks, NEW D, Track!Begin(kind, t, D)
      PROVE  TrackKind(attempts'[g])
  <2>1. CASE g = generation + 1
    BY <1>3, <2>1, TrackBegins DEF TrackKind, TrackSession
  <2>2. CASE g # generation + 1
    <3>1. attempts'[g] = [attempts[g] EXCEPT !.aborted = IF g = ctrl THEN TRUE ELSE @]
      BY <1>3, <2>2, TrackBegins
    <3> QED BY <1>1, <3>1 DEF TrackKind, Track!Attempt
  <2> QED BY <2>1, <2>2
<1> QED BY <1>1, <1>2, <1>3, TrackSplits

LEMMA TrackBegunKept ==
  ASSUME Track!TrackAssumption, TrackInv, Track!Next
  PROVE  TrackBegun'
<1> DEFINE Waits(k, t, p, d) == k = "direct" /\ t = d /\ p \in {"lossless", "post", "reply"}
<1>1. /\ \A g \in Track!Gens : g > generation => attempts[g] = Track!NoAttempt
      /\ ctrl <= generation /\ generation \in 0 .. MaxGen /\ ctrl \in 0 .. MaxGen
      /\ MaxGen \in Nat /\ Track!Gens = 1 .. MaxGen
      /\ attempts \in [Track!Gens -> Track!Attempt]
  BY DEF TrackInv, TrackBegun, Track!TypeOK, Track!TrackAssumption, Track!Gens
<1>2. direct # None /\ directGen = generation =>
        /\ generation \in Track!Gens
        /\ Waits(attempts[generation].kind, attempts[generation].track, attempts[generation].pc, direct)
  BY DEF TrackInv, TrackBegun
<1>3. ASSUME NEW g \in Track!Gens, Track!AttemptStep(g)
      PROVE  TrackBegun'
  <2>1. /\ generation' = generation /\ directGen' = directGen /\ ctrl' \in {ctrl, g}
        /\ direct' \in {direct, None}
    BY <1>3, TrackFrames DEF TrackFrame
  <2>2. g <= generation
    BY <1>1, <1>3, TrackAttempt DEF Track!NoAttempt
  <2>3. \A h \in Track!Gens : h > generation' => attempts'[h] = Track!NoAttempt
    BY <1>1, <1>3, <2>1, <2>2, TrackAttempt
  <2>4. ctrl' <= generation'
    BY <1>1, <2>1, <2>2
  <2>5. ASSUME direct' # None, directGen' = generation'
        PROVE  generation' \in Track!Gens
               /\ Waits(attempts'[generation].kind, attempts'[generation].track,
                        attempts'[generation].pc, direct')
    <3>1. /\ generation \in Track!Gens /\ direct' = direct
          /\ attempts[generation].kind = "direct" /\ attempts[generation].track = direct
          /\ attempts[generation].pc \in {"lossless", "post", "reply"}
      BY <1>2, <2>1, <2>5
    <3>2. CASE g # generation
      BY <1>3, <2>1, <3>1, <3>2, TrackAttempt
    <3>3. CASE g = generation
      <4>1. /\ attempts[g].kind = "direct" /\ ~Track!genStale(g)
            /\ attempts[g].pc \in {"lossless", "post", "reply"} /\ direct' # None /\ direct # None
        BY <2>5, <3>1, <3>3 DEF Track!genStale
      <4>2. attempts'[g].pc \in {"post", "reply"}
        <5>1. Track!ResolveDirect(g) \/ Track!EnginePost(g) \/ Track!EngineFails(g)
          BY <1>3, <4>1 DEF Track!AttemptStep, Track!Resolve, Track!HtcOvertaken, Track!Recheck,
             Track!HtcOpenFailed, Track!HtcSession, Track!EngineStop, Track!Handoff,
             Track!DirectOvertaken, Track!DirectGivesUp, Track!DirectSession, Track!SourceOpen,
             Track!AttachAborted, Track!EngineLoad, Track!Loaded
        <5> QED BY <1>1, <4>1, <5>1 DEF Track!ResolveDirect, Track!Post, Track!EnginePost,
               Track!EngineFails, Track!Attempt
      <4>3. attempts'[g].kind = attempts[g].kind /\ attempts'[g].track = attempts[g].track
        BY <1>3, <4>2, TrackAttempt
      <4> QED BY <2>1, <3>1, <3>3, <4>2, <4>3
    <3> QED BY <3>2, <3>3
  <2> QED BY <2>1, <2>3, <2>4, <2>5 DEF TrackBegun
<1>4. ASSUME NEW t \in Track!Tracks, Track!Click(t) \/ Track!TrackChange(t),
             NEW kind \in {"htc", "direct"}, NEW u \in Track!Tracks, NEW D, Track!Begin(kind, u, D)
      PROVE  TrackBegun'
  <2>1. /\ generation + 1 \in Track!Gens /\ generation' = generation + 1 /\ ctrl' = 0
        /\ attempts'[generation + 1].pc = "lossless" /\ attempts'[generation + 1].kind = kind
        /\ attempts'[generation + 1].track = u
        /\ \A h \in Track!Gens : h > generation + 1 => attempts'[h] = attempts[h]
    BY <1>4, TrackBegins
  <2>2. \A h \in Track!Gens : h > generation' => attempts'[h] = Track!NoAttempt
    BY <1>1, <2>1
  <2>3. direct' # None /\ directGen' = generation' => direct' = t /\ Track!Begin("direct", t, {})
    BY <1>1, <1>4, <2>1 DEF Track!Click, Track!TrackChange, Track!current
  <2>4. ASSUME Track!Begin("direct", t, {})
        PROVE  attempts'[generation + 1].kind = "direct" /\ attempts'[generation + 1].track = t
    BY <2>4, TrackBegins
  <2>5. ctrl' <= generation'
    BY <1>1, <2>1
  <2> QED BY <2>1, <2>2, <2>3, <2>4, <2>5 DEF TrackBegun
<1>5. ASSUME UNCHANGED <<attempts, generation, ctrl>>, ~\E g \in Track!Gens : Track!AttemptStep(g)
      PROVE  TrackBegun'
  <2>1. \/ UNCHANGED <<direct, directGen>>
        \/ direct # None /\ directGen = generation /\ direct' = direct /\ directGen' = 0
    <3>1. ASSUME NEW t \in Track!Tracks, Track!Click(t) \/ Track!TrackChange(t)
          PROVE  \/ UNCHANGED <<direct, directGen>>
                 \/ direct # None /\ directGen = generation /\ direct' = direct /\ directGen' = 0
      BY <1>1, <1>5, <3>1 DEF Track!Click, Track!TrackChange, Track!Begin, Track!Confirmed
    <3> QED BY <1>5, <3>1 DEF Track!Next, Track!EngineDelete, Track!CapsReport, Track!GateTimeout,
       Track!PrefetchStream, Track!WarmOpen, Track!WarmReply, Track!clicks
  <2>2. generation \in Track!Gens => generation # 0
    BY <1>1
  <2> QED BY <1>1, <1>2, <1>5, <2>1, <2>2 DEF TrackBegun
<1> QED BY <1>3, <1>4, <1>5, TrackSplits

\* The newest attempt keeps the page.
LEMMA TrackNewest ==
  ASSUME Track!TrackAssumption, TrackInv, NEW g \in Track!Gens, Track!AttemptStep(g), g = generation
  PROVE  /\ Track!Streams(g)' => /\ g = ctrl' /\ attempts'[g].sid = sessionId'
                                 /\ assetId' = attempts'[g].track
         /\ attempts'[g].pc \in {"handoff", "stopped"} => sessionId' = attempts'[g].sid
         /\ attempts'[g].kind = "htc" /\ attempts'[g].pc # "done" => assetId' = attempts'[g].track
<1> DEFINE old == attempts[g]
           new == attempts'[g]
           Playing == {"attach", "load", "loaded", "run"}
           Good == /\ new.pc \in Playing /\ ~new.aborted =>
                        g = ctrl' /\ new.sid = sessionId' /\ assetId' = new.track
                   /\ new.pc \in {"handoff", "stopped"} => sessionId' = new.sid
                   /\ new.kind = "htc" /\ new.pc # "done" => assetId' = new.track
<1>1. /\ old \in Track!Attempt /\ attempts \in [Track!Gens -> Track!Attempt] /\ Track!TypeOK
      /\ TrackKind(old) /\ ~Track!genStale(g)
  BY DEF TrackInv, TrackKinds, Track!TypeOK, Track!genStale
<1>2. \A pc \in Track!Pcs : Track!Step(g, pc) =>
        /\ new.pc = pc
        /\ IF pc = "done" THEN new.sid = None
           ELSE /\ new.sid = old.sid /\ new.path = old.path /\ new.kind = old.kind
                /\ new.track = old.track /\ new.failed = old.failed
  BY <1>1, TrackSteps
<1>3. /\ old.pc \notin {"none", "run", "done"} /\ new.aborted = old.aborted
      /\ new.pc # "done" => new.kind = old.kind /\ new.track = old.track
  BY TrackAttempt
<1>4. /\ old.pc \in Playing /\ ~old.aborted =>
           g = ctrl /\ old.sid = sessionId /\ assetId = old.track
      /\ old.pc \in {"handoff", "stopped"} => sessionId = old.sid
      /\ old.kind = "htc" => assetId = old.track
  BY <1>3 DEF TrackInv, TrackOwners, Track!Streams
<1> HIDE DEF old, new
<1> USE DEF Track!Pcs, Track!current
<1>5. ASSUME Track!Step(g, "done")
      PROVE  Good
  BY <1>2, <1>5
<1>6. ASSUME new.pc \in {"post", "reply"}, assetId' = assetId
      PROVE  Good
  BY <1>3, <1>4, <1>6
<1>7. ASSUME Track!Resolve(g) \/ Track!ResolveDirect(g)
      PROVE  Good
  <2>1. ASSUME NEW s, Track!Claim(g, s)
        PROVE  new.pc = "reply"
    BY <1>1, <2>1 DEF new, Track!Claim, Track!Attempt
  <2>2. Track!Post(g) => new.pc = "post"
    BY <1>1 DEF new, Track!Post, Track!Attempt
  <2>3. (\E s : Track!Claim(g, s)) \/ Track!Post(g)
    BY <1>1, <1>7 DEF Track!Resolve, Track!ResolveDirect
  <2>4. assetId' = assetId
    BY <1>7 DEF Track!Resolve, Track!ResolveDirect
  <2> HIDE DEF Good
  <2> QED BY <1>6, <2>1, <2>2, <2>3, <2>4
<1>8. ASSUME Track!EnginePost(g) \/ Track!EngineFails(g)
      PROVE  Good
  <2>1. new.pc = "reply" /\ assetId' = assetId
    BY <1>1, <1>8 DEF new, Track!EnginePost, Track!EngineFails, Track!Attempt
  <2> HIDE DEF Good
  <2> QED BY <1>6, <2>1
<1>9. ASSUME Track!HtcOvertaken(g) \/ Track!Recheck(g) \/ Track!HtcOpenFailed(g)
             \/ Track!DirectOvertaken(g) \/ Track!DirectGivesUp(g) \/ Track!AttachAborted(g)
      PROVE  Good
  <2>1. Track!Step(g, "done")
    BY <1>1, <1>9 DEF Track!HtcOvertaken, Track!Recheck, Track!HtcOpenFailed, Track!HtcError,
       Track!DirectOvertaken, Track!DirectGivesUp, Track!AttachAborted
  <2> HIDE DEF Good
  <2> QED BY <1>5, <2>1
<1>10. ASSUME Track!HtcSession(g)
       PROVE  Good
  <2>1. old.kind = "htc" /\ assetId = old.track
    BY <1>4, <1>10 DEF old, Track!HtcSession
  <2>2. CASE Track!Start(g)
    <3>1. ctrl' = g /\ sessionId' = old.sid /\ assetId' = assetId
      BY <2>2 DEF old, Track!Start
    <3>2. new.pc \in {"run", "attach", "load"} /\ new.sid = old.sid
      BY <1>1, <2>2 DEF old, new, Track!Start, Track!Attempt
    <3> QED BY <1>3, <2>1, <3>1, <3>2
  <2>3. CASE Track!Step(g, "handoff") /\ sessionId' = old.sid /\ assetId' = assetId
    BY <1>2, <1>3, <2>1, <2>3
  <2> HIDE DEF Good
  <2> QED BY <1>10, <2>2, <2>3 DEF old, Track!HtcSession
<1>11. ASSUME Track!EngineStop(g)
       PROVE  Good
  BY <1>2, <1>4, <1>11 DEF old, Track!EngineStop
<1>12. ASSUME Track!Handoff(g)
       PROVE  Good
  <2>1. old.pc \in {"handoff", "stopped"} /\ old.kind = "htc"
    BY <1>1, <1>12 DEF old, Track!Handoff, TrackKind
  <2>2. ctrl' = g /\ sessionId' = sessionId /\ assetId' = assetId
    BY <1>1, <1>12 DEF Track!Handoff
  <2>3. new.pc \in {"run", "attach"} /\ new.sid = old.sid
    BY <1>1, <1>12 DEF old, new, Track!Handoff, Track!Attempt
  <2> QED BY <1>3, <1>4, <2>1, <2>2, <2>3
<1>13. ASSUME Track!DirectSession(g)
       PROVE  Good
  <2>1. new.pc = "attach" /\ new.sid = old.sid
    BY <1>2, <1>13 DEF Track!DirectSession
  <2>2. ctrl' = g /\ sessionId' = old.sid /\ assetId' = old.track
    BY <1>13 DEF old, Track!DirectSession
  <2> QED BY <1>3, <2>1, <2>2
<1>14. ASSUME Track!SourceOpen(g)
       PROVE  Good
  <2>1. /\ old.pc \in Playing /\ ~old.aborted /\ new.pc = "run" /\ new.sid = old.sid
        /\ UNCHANGED <<ctrl, sessionId, assetId>>
    BY <1>2, <1>14 DEF old, Track!SourceOpen
  <2> QED BY <1>3, <1>4, <2>1
<1>15. ASSUME Track!EngineLoad(g)
       PROVE  Good
  <2>1. old.pc = "load" /\ UNCHANGED <<ctrl, sessionId, assetId>>
    BY <1>15 DEF old, Track!EngineLoad
  <2>2. new.pc = "loaded" /\ new.sid = old.sid
    <3>1. CASE Track!Step(g, "loaded")
      BY <1>2, <3>1
    <3>2. CASE ~Track!Step(g, "loaded")
      BY <1>1, <1>15, <3>2 DEF old, new, Track!EngineLoad, Track!Attempt
    <3> QED BY <3>1, <3>2
  <2> QED BY <1>3, <1>4, <2>1, <2>2
<1>16. ASSUME Track!Loaded(g)
       PROVE  Good
  <2>1. old.pc = "loaded"
    BY <1>16 DEF old, Track!Loaded
  <2>2. CASE Track!Step(g, "run") /\ UNCHANGED <<ctrl, sessionId, assetId>>
    BY <1>2, <1>3, <1>4, <2>1, <2>2
  <2> HIDE DEF Good
  <2> QED BY <1>5, <1>16, <2>2 DEF Track!Loaded, Track!HtcError
<1>17. Good
  <2> HIDE DEF Good
  <2> QED BY <1>7, <1>8, <1>9, <1>10, <1>11, <1>12, <1>13, <1>14, <1>15, <1>16 DEF Track!AttemptStep
<1> QED BY <1>17 DEF new, Track!Streams

\* An overtaken attempt leaves the page alone, and does not get the player.
LEMMA TrackOvertaken ==
  ASSUME Track!TrackAssumption, TrackInv, NEW g \in Track!Gens, Track!AttemptStep(g), g # generation
  PROVE  UNCHANGED <<ctrl, sessionId, assetId>> /\ ~Track!Streams(g)'
<1>1. /\ attempts \in [Track!Gens -> Track!Attempt] /\ attempts[g] \in Track!Attempt
      /\ Track!TypeOK /\ Track!genStale(g) /\ ~Track!Streams(g)
  BY DEF TrackInv, TrackOwners, Track!TypeOK, Track!genStale
<1>2. \A pc \in Track!Pcs : Track!Step(g, pc) => attempts'[g].pc = pc
  BY <1>1, TrackSteps
<1>3. attempts'[g].aborted = attempts[g].aborted
  BY TrackAttempt
<1> USE DEF Track!Pcs, Track!current
<1>4. CASE Track!Resolve(g) \/ Track!ResolveDirect(g) \/ Track!HtcOvertaken(g) \/ Track!Recheck(g)
           \/ Track!HtcOpenFailed(g) \/ Track!DirectOvertaken(g) \/ Track!AttachAborted(g)
  <2>1. UNCHANGED <<ctrl, sessionId, assetId>>
    BY <1>1, <1>4 DEF Track!Resolve, Track!ResolveDirect, Track!HtcOvertaken, Track!Recheck,
       Track!HtcOpenFailed, Track!HtcError, Track!DirectOvertaken, Track!AttachAborted
  <2>2. Track!Step(g, "done") \/ Track!Step(g, "recheck")
    BY <1>1, <1>4 DEF Track!Resolve, Track!ResolveDirect, Track!HtcOvertaken, Track!Recheck,
       Track!HtcOpenFailed, Track!HtcError, Track!DirectOvertaken, Track!AttachAborted
  <2> QED BY <1>2, <2>1, <2>2 DEF Track!Streams
<1>5. CASE Track!EnginePost(g) \/ Track!EngineFails(g)
  BY <1>1, <1>5 DEF Track!EnginePost, Track!EngineFails, Track!Streams, Track!Attempt
<1>6. CASE Track!EngineStop(g)
  BY <1>2, <1>6 DEF Track!EngineStop, Track!Streams
<1>7. CASE Track!Handoff(g)
  BY <1>1, <1>2, <1>7 DEF Track!Handoff, Track!Streams
<1>8. CASE Track!EngineLoad(g) \/ Track!Loaded(g)
  <2>1. attempts[g].aborted
    BY <1>1, <1>8 DEF Track!EngineLoad, Track!Loaded, Track!Streams
  <2>2. UNCHANGED <<ctrl, sessionId, assetId>>
    BY <1>8 DEF Track!EngineLoad, Track!Loaded, Track!HtcError
  <2> QED BY <1>3, <2>1, <2>2 DEF Track!Streams
<1>9. ~Track!SourceOpen(g) /\ ~Track!HtcSession(g) /\ ~Track!DirectGivesUp(g) /\ ~Track!DirectSession(g)
  BY <1>1 DEF Track!SourceOpen, Track!HtcSession, Track!DirectGivesUp, Track!DirectSession,
     Track!Streams
<1> QED BY <1>4, <1>5, <1>6, <1>7, <1>8, <1>9 DEF Track!AttemptStep

LEMMA TrackOwnersKept ==
  ASSUME Track!TrackAssumption, TrackInv, Track!Next
  PROVE  TrackOwners'
<1> SUFFICES ASSUME NEW g \in Track!Gens
             PROVE  /\ Track!Streams(g)' => /\ g = generation' /\ g = ctrl'
                                            /\ attempts'[g].sid = sessionId'
                                            /\ assetId' = attempts'[g].track
                    /\ attempts'[g].pc \in {"handoff", "stopped"} /\ g = generation' =>
                         sessionId' = attempts'[g].sid
                    /\ g = generation' /\ attempts'[g].kind = "htc"
                         /\ attempts'[g].pc \notin {"none", "done"} =>
                           assetId' = attempts'[g].track
  BY DEF TrackOwners
<1>1. ASSUME NEW h \in Track!Gens, Track!AttemptStep(h)
      PROVE  /\ generation' = generation
             /\ g # h => attempts'[g] = attempts[g] /\ (Track!Streams(g)' => Track!Streams(g))
  BY <1>1, TrackFrames, TrackAttempt DEF TrackFrame, Track!Streams
<1>2. ASSUME NEW h \in Track!Gens, Track!AttemptStep(h), h = generation
      PROVE  /\ Track!Streams(g)' => /\ g = generation' /\ g = ctrl'
                                     /\ attempts'[g].sid = sessionId'
                                     /\ assetId' = attempts'[g].track
             /\ attempts'[g].pc \in {"handoff", "stopped"} /\ g = generation' =>
                  sessionId' = attempts'[g].sid
             /\ g = generation' /\ attempts'[g].kind = "htc"
                  /\ attempts'[g].pc \notin {"none", "done"} =>
                    assetId' = attempts'[g].track
  <2>1. CASE g = h
    BY <1>1, <1>2, <2>1, TrackNewest
  <2>2. CASE g # h
    BY <1>1, <1>2, <2>2 DEF TrackInv, TrackOwners
  <2> QED BY <2>1, <2>2
<1>3. ASSUME NEW h \in Track!Gens, Track!AttemptStep(h), h # generation
      PROVE  /\ Track!Streams(g)' => /\ g = generation' /\ g = ctrl'
                                     /\ attempts'[g].sid = sessionId'
                                     /\ assetId' = attempts'[g].track
             /\ attempts'[g].pc \in {"handoff", "stopped"} /\ g = generation' =>
                  sessionId' = attempts'[g].sid
             /\ g = generation' /\ attempts'[g].kind = "htc"
                  /\ attempts'[g].pc \notin {"none", "done"} =>
                    assetId' = attempts'[g].track
  <2>1. UNCHANGED <<ctrl, sessionId, assetId>> /\ ~Track!Streams(h)'
    BY <1>3, TrackOvertaken
  <2>2. CASE g = h
    BY <1>1, <1>3, <2>1, <2>2
  <2>3. CASE g # h
    BY <1>1, <1>3, <2>1, <2>3 DEF TrackInv, TrackOwners
  <2> QED BY <2>2, <2>3
<1>4. ASSUME NEW t \in Track!Tracks, Track!Click(t) \/ Track!TrackChange(t),
             NEW D, NEW kind \in {"htc", "direct"}, NEW u \in Track!Tracks, Track!Begin(kind, u, D)
      PROVE  /\ ~Track!Streams(g)'
             /\ g = generation' => /\ attempts'[g].pc = "lossless"
                                   /\ attempts'[g].kind = "htc" => assetId' = attempts'[g].track
  <2>1. /\ generation' = generation + 1 /\ generation + 1 \in Track!Gens
        /\ attempts'[generation + 1].pc = "lossless" /\ ~Track!Streams(g)'
    BY <1>4, TrackBegins DEF Track!Streams
  <2>2. generation \in Nat
    BY DEF TrackInv, Track!TypeOK, Track!TrackAssumption
  <2>3. ASSUME attempts'[generation + 1].kind = "htc"
        PROVE  assetId' = attempts'[generation + 1].track
    <3>1. ~Track!Begin("direct", t, {})
      BY <2>3, TrackBegins
    <3>2. assetId' = t /\ \E E : Track!Begin("htc", t, E)
      BY <1>4, <2>1, <2>2, <3>1 DEF Track!Click, Track!TrackChange, Track!current
    <3> QED BY <3>2, TrackBegins
  <2> QED BY <2>1, <2>3
<1>5. ASSUME UNCHANGED <<attempts, generation, ctrl, sessionId>>,
             ~\E h \in Track!Gens : Track!AttemptStep(h)
      PROVE  \/ UNCHANGED assetId
             \/ /\ attempts[generation].kind = "direct"
                /\ attempts[generation].pc \in {"lossless", "post", "reply"}
  <2>1. generation \in Nat
    BY DEF TrackInv, Track!TypeOK, Track!TrackAssumption
  <2>2. ASSUME NEW t \in Track!Tracks, Track!Click(t) \/ Track!TrackChange(t)
        PROVE  UNCHANGED assetId \/ (direct # None /\ directGen = generation)
    BY <1>5, <2>1, <2>2 DEF Track!Click, Track!TrackChange, Track!Begin, Track!Confirmed,
       Track!current
  <2>3. UNCHANGED assetId \/ (direct # None /\ directGen = generation)
    BY <1>5, <2>2 DEF Track!Next, Track!EngineDelete, Track!CapsReport, Track!GateTimeout,
       Track!PrefetchStream, Track!WarmOpen, Track!WarmReply, Track!current
  <2> QED BY <2>3 DEF TrackInv, TrackBegun
<1>6. ASSUME UNCHANGED <<attempts, generation, ctrl, sessionId>>,
             ~\E h \in Track!Gens : Track!AttemptStep(h)
      PROVE  /\ Track!Streams(g)' => /\ g = generation' /\ g = ctrl'
                                     /\ attempts'[g].sid = sessionId'
                                     /\ assetId' = attempts'[g].track
             /\ attempts'[g].pc \in {"handoff", "stopped"} /\ g = generation' =>
                  sessionId' = attempts'[g].sid
             /\ g = generation' /\ attempts'[g].kind = "htc"
                  /\ attempts'[g].pc \notin {"none", "done"} =>
                    assetId' = attempts'[g].track
  BY <1>5, <1>6 DEF TrackInv, TrackOwners, Track!Streams
<1> QED BY <1>2, <1>3, <1>4, <1>6, TrackSplits

\* The actions that touch libvlc or what the page knows of it.
LEMMA TrackPlays ==
  ASSUME Track!TrackAssumption, TrackInv, Track!Next
  PROVE  /\ vlcPlays' = "playing" => vlcLive'
         /\ vlcPlays' = "playing" =>
              \/ vlcPlays = "playing"
              \/ \E h \in Track!Gens : Track!EngineLoad(h) /\ Track!Streams(h)
<1> USE DEF Track!engine
<1>1. (vlcPlays = "playing" => vlcLive) /\ vlcLive \in BOOLEAN
  BY DEF TrackInv, TrackSilence, Track!TypeOK
<1>2. ASSUME NEW g \in Track!Gens, Track!EngineLoad(g)
      PROVE  /\ vlcPlays' = "playing" => vlcLive'
             /\ vlcPlays' = "playing" => vlcPlays = "playing" \/ Track!Streams(g)
  BY <1>1, <1>2 DEF Track!EngineLoad, Track!Streams
<1>3. ASSUME NEW g \in Track!Gens, Track!Handoff(g)
      PROVE  vlcPlays' = "playing" => vlcPlays = "playing" /\ vlcLive'
  BY <1>1, <1>3 DEF Track!Handoff
<1>4. ASSUME NEW g \in Track!Gens, Track!HtcSession(g)
      PROVE  vlcPlays' = "playing" => vlcPlays = "playing" /\ vlcLive'
  BY <1>1, <1>4 DEF Track!HtcSession, Track!Start
<1>5. ASSUME NEW g \in Track!Gens, Track!EngineStop(g)
      PROVE  vlcPlays' # "playing"
  BY <1>5 DEF Track!EngineStop
<1>6. ASSUME NEW g \in Track!Gens, Track!AttemptStep(g), ~Track!EngineLoad(g), ~Track!Handoff(g),
             ~Track!HtcSession(g), ~Track!EngineStop(g)
      PROVE  UNCHANGED <<vlcPlays, vlcLive>>
  BY <1>6 DEF Track!AttemptStep, Track!Resolve, Track!ResolveDirect, Track!EnginePost,
     Track!EngineFails, Track!HtcOvertaken, Track!Recheck, Track!HtcOpenFailed,
     Track!DirectOvertaken, Track!DirectGivesUp, Track!DirectSession, Track!SourceOpen,
     Track!AttachAborted, Track!Loaded
<1>7. ASSUME \/ Track!EngineDelete \/ Track!CapsReport \/ Track!GateTimeout \/ Track!PrefetchStream
             \/ \E t \in Track!Tracks : Track!Click(t) \/ Track!TrackChange(t)
             \/ \E w, t : Track!WarmOpen(w, t)
             \/ \E r \in warming : Track!WarmReply(r)
      PROVE  UNCHANGED <<vlcPlays, vlcLive>>
  BY <1>7 DEF Track!EngineDelete, Track!CapsReport, Track!GateTimeout, Track!PrefetchStream,
     Track!Click, Track!TrackChange, Track!WarmOpen, Track!WarmReply
<1> QED BY <1>1, <1>2, <1>3, <1>4, <1>5, <1>6, <1>7 DEF Track!Next

\* An attempt that gets the player outside libvlc finds it silent, or could not stop it.
LEMMA TrackGetsPlayer ==
  ASSUME Track!TrackAssumption, TrackInv, NEW g \in Track!Gens, Track!AttemptStep(g),
         Track!Streams(g)', attempts'[g].kind = "htc", attempts'[g].path # "alac"
  PROVE  vlcPlays' # "playing" \/ attempts'[g].failed
<1> DEFINE old == attempts[g]
           new == attempts'[g]
<1>1. /\ old \in Track!Attempt /\ attempts \in [Track!Gens -> Track!Attempt] /\ Track!TypeOK
      /\ TrackKind(old) /\ (vlcPlays = "playing" => vlcLive) /\ new.kind = "htc"
      /\ new.path # "alac" /\ new.pc \in {"attach", "load", "loaded", "run"} /\ ~new.aborted
  BY DEF TrackInv, TrackKinds, TrackSilence, Track!TypeOK, Track!Streams
<1>2. \A pc \in Track!Pcs : Track!Step(g, pc) =>
        /\ new.pc = pc
        /\ IF pc = "done" THEN new.sid = None
           ELSE /\ new.sid = old.sid /\ new.path = old.path /\ new.kind = old.kind
                /\ new.track = old.track /\ new.failed = old.failed
  BY <1>1, TrackSteps
<1>3. new.aborted = old.aborted /\ new.kind = old.kind
  BY <1>1, TrackAttempt
<1>4. old.pc \in {"attach", "run"} /\ ~old.aborted /\ old.kind = "htc" /\ old.path # "alac" =>
        vlcPlays # "playing" \/ old.failed
  BY DEF TrackInv, TrackSilence, Track!HandoffIsSilent, Track!Streams
<1> HIDE DEF old, new
<1> USE DEF Track!Pcs, Track!engine
<1>5. ~Track!Step(g, "done") /\ ~Track!Step(g, "handoff") /\ ~Track!Step(g, "stopped")
      /\ ~Track!Step(g, "recheck")
  BY <1>1, <1>2
<1>6. ~Track!Resolve(g) /\ ~Track!ResolveDirect(g) /\ ~Track!EnginePost(g) /\ ~Track!EngineFails(g)
  <2>1. ASSUME NEW s, Track!Claim(g, s)
        PROVE  new.pc = "reply"
    BY <1>1, <2>1 DEF new, Track!Claim, Track!Attempt
  <2>2. Track!Post(g) => new.pc = "post"
    BY <1>1 DEF new, Track!Post, Track!Attempt
  <2>3. Track!Resolve(g) \/ Track!ResolveDirect(g) => (\E s : Track!Claim(g, s)) \/ Track!Post(g)
    BY <1>5 DEF Track!Resolve, Track!ResolveDirect
  <2>4. Track!EnginePost(g) \/ Track!EngineFails(g) => new.pc = "reply"
    BY <1>1 DEF new, Track!EnginePost, Track!EngineFails, Track!Attempt
  <2> QED BY <1>1, <2>1, <2>2, <2>3, <2>4
<1>7. CASE Track!HtcSession(g)
  <2>1. Track!Start(g) /\ ~Track!NeedsStop(g) /\ vlcPlays' = vlcPlays
    BY <1>5, <1>7 DEF Track!HtcSession
  <2>2. new.path = old.path
    BY <1>1, <2>1 DEF old, new, Track!Start, Track!Attempt
  <2> QED BY <1>1, <2>1, <2>2 DEF old, new, Track!NeedsStop
<1>8. CASE Track!Handoff(g)
  <2>1. PICK ok \in BOOLEAN :
          /\ ok => old.pc = "stopped"
          /\ \/ vlcPlays' = IF ok /\ vlcPlays = "playing" THEN "forgotten" ELSE vlcPlays
             \/ old.pc = "handoff" /\ vlcPlays' = "silent"
          /\ attempts' = [attempts EXCEPT ![g].failed = ~ok,
                            ![g].pc = IF attempts[g].path = "mv" THEN "run" ELSE "attach"]
    BY <1>5, <1>8 DEF old, Track!Handoff
  <2>2. new.failed = ~ok
    BY <1>1, <2>1 DEF old, new, Track!Attempt
  <2> QED BY <2>1, <2>2 DEF new
<1>9. ~Track!DirectSession(g)
  BY <1>1, <1>3 DEF old, Track!DirectSession
<1>10. CASE Track!SourceOpen(g)
  BY <1>1, <1>2, <1>3, <1>4, <1>10 DEF old, new, Track!SourceOpen
<1>11. ~Track!EngineLoad(g) /\ ~Track!Loaded(g)
  <2>1. Track!EngineLoad(g) => old.path = "alac" /\ new.path = old.path
    <3>1. Track!EngineLoad(g) => old.path = "alac"
      BY <1>1 DEF old, TrackKind, Track!EngineLoad
    <3>2. ASSUME Track!EngineLoad(g), ~Track!Step(g, "loaded")
          PROVE  new.path = old.path
      BY <1>1, <3>2 DEF old, new, Track!EngineLoad, Track!Attempt
    <3> QED BY <1>2, <3>1, <3>2
  <2>2. Track!Loaded(g) => old.path = "alac" /\ new.path = old.path
    BY <1>1, <1>2, <1>5 DEF old, TrackKind, Track!Loaded, Track!HtcError
  <2> QED BY <1>1, <2>1, <2>2
<1> QED BY <1>5, <1>6, <1>7, <1>8, <1>9, <1>10, <1>11 DEF new, Track!AttemptStep,
       Track!HtcOvertaken, Track!Recheck, Track!HtcOpenFailed, Track!HtcError, Track!EngineStop,
       Track!DirectOvertaken, Track!DirectGivesUp, Track!AttachAborted

LEMMA TrackSilenceKept ==
  ASSUME Track!TrackAssumption, TrackInv, Track!Next
  PROVE  TrackSilence'
<1> SUFFICES ASSUME NEW g \in Track!Gens, Track!Streams(g)', attempts'[g].kind = "htc",
                    attempts'[g].path # "alac"
             PROVE  vlcPlays' # "playing" \/ attempts'[g].failed
  BY TrackPlays DEF TrackSilence, Track!HandoffIsSilent
<1>1. CASE Track!AttemptStep(g)
  BY <1>1, TrackGetsPlayer
<1>2. CASE attempts'[g] = attempts[g]
  <2>1. Track!Streams(g) /\ attempts[g].kind = "htc" /\ attempts[g].path # "alac"
    BY <1>2 DEF Track!Streams
  <2>2. vlcPlays # "playing" \/ attempts[g].failed
    BY <2>1 DEF TrackInv, TrackSilence, Track!HandoffIsSilent
  <2>3. ASSUME NEW h \in Track!Gens, Track!EngineLoad(h), Track!Streams(h)
        PROVE  FALSE
    <3>1. h = g /\ attempts[h].pc = "load"
      BY <2>1, <2>3 DEF TrackInv, TrackOwners, Track!EngineLoad
    <3> QED BY <2>1, <3>1 DEF TrackInv, TrackKinds, TrackKind
  <2> QED BY <1>2, <2>2, <2>3, TrackPlays
<1>3. ASSUME NEW D, NEW kind \in {"htc", "direct"}, NEW t \in Track!Tracks, Track!Begin(kind, t, D)
      PROVE  FALSE
  BY <1>3, TrackBegins DEF Track!Streams
<1>4. ASSUME NEW h \in Track!Gens, Track!AttemptStep(h), h # g
      PROVE  attempts'[g] = attempts[g]
  BY <1>4, TrackAttempt
<1> QED BY <1>1, <1>2, <1>3, <1>4, TrackSplits

LEMMA TrackPreserves ==
  ASSUME Track!TrackAssumption, TrackInv, [Track!Next]_Track!vars
  PROVE  TrackInv'
<1>1. CASE Track!Next
  BY <1>1, TrackTypes, TrackBegunKept, TrackSessionsKept, TrackKindsKept, TrackOwnersKept,
     TrackSilenceKept DEF TrackInv
<1>2. CASE UNCHANGED Track!vars
  <2>1. Track!TypeOK'
    BY <1>2 DEF TrackInv, Track!TypeOK, Track!vars
  <2>2. TrackBegun' /\ TrackSessions' /\ TrackKinds'
    BY <1>2 DEF TrackInv, TrackBegun, TrackSessions, TrackHolds, TrackKinds, TrackKind, Track!vars
  <2>3. TrackOwners' /\ TrackSilence'
    BY <1>2 DEF TrackInv, TrackOwners, TrackSilence, Track!Streams, Track!HandoffIsSilent, Track!vars
  <2> QED BY <2>1, <2>2, <2>3 DEF TrackInv
<1> QED BY <1>1, <1>2

\* However the answers of overtaken changes are interleaved, at most one attempt
\* streams, the newest, with the session and the track that the page shows.
THEOREM LastChangeAlwaysStreams == PagesSpec => []LastChangeStreams
<1> DEFINE I == part = "track" => TrackInv
<1>1. PagesInit => I
  BY PagesAssumption, TrackInitEstablishes DEF PagesInit
<1>2. I /\ [PagesNext]_pageVars => I'
  <2> SUFFICES ASSUME I, [PagesNext]_pageVars, part' = "track" PROVE TrackInv'
    OBVIOUS
  <2>1. part = "track" /\ TrackInv
    BY DEF PagesNext, MseNext, TrackNext, pageVars
  <2>2. Track!Next \/ UNCHANGED pageVars
    BY <2>1 DEF PagesNext, MseNext, TrackNext
  <2>3. [Track!Next]_(Track!vars)
    BY <2>2 DEF pageVars, mseOnly, trackOnly, vlcOnly, Track!vars
  <2> QED BY <2>1, <2>3, PagesAssumption, TrackPreserves
<1>3. I => LastChangeStreams
  <2> SUFFICES ASSUME TrackInv, NEW g \in Track!Gens, Track!Streams(g)
               PROVE  /\ g = generation /\ g = ctrl /\ attempts[g].sid = sessionId
                      /\ opened[sessionId].track = assetId
    BY DEF LastChangeStreams, Track!LastChangeStreams
  <2>1. /\ g = generation /\ g = ctrl /\ attempts[g].sid = sessionId /\ assetId = attempts[g].track
        /\ attempts[g].sid \in Track!Sids
    BY DEF TrackInv, TrackOwners, TrackKinds, TrackKind, TrackSession, Track!Streams
  <2>2. attempts[g].sid # None
    BY <2>1, PagesAssumption DEF Track!TrackAssumption, Track!Sids
  <2> QED BY <2>1, <2>2 DEF TrackInv, TrackSessions, TrackHolds
<1> QED BY <1>1, <1>2, <1>3, PTL DEF PagesSpec

\* Whoever starts to play outside libvlc is not heard over it, unless the engine
\* refused to stop it.
THEOREM HandoffIsAlwaysSafe == PagesSpec => []HandoffIsSafe
<1> DEFINE I == part = "track" => TrackInv
<1>1. PagesInit => I
  BY PagesAssumption, TrackInitEstablishes DEF PagesInit
<1>2. I /\ [PagesNext]_pageVars => I'
  <2> SUFFICES ASSUME I, [PagesNext]_pageVars, part' = "track" PROVE TrackInv'
    OBVIOUS
  <2>1. part = "track" /\ TrackInv
    BY DEF PagesNext, MseNext, TrackNext, pageVars
  <2>2. Track!Next \/ UNCHANGED pageVars
    BY <2>1 DEF PagesNext, MseNext, TrackNext
  <2>3. [Track!Next]_(Track!vars)
    BY <2>2 DEF pageVars, mseOnly, trackOnly, vlcOnly, Track!vars
  <2> QED BY <2>1, <2>3, PagesAssumption, TrackPreserves
<1>3. I => HandoffIsSafe
  BY DEF TrackInv, TrackSilence, Track!HandoffIsSafe, HandoffIsSafe
<1> QED BY <1>1, <1>2, <1>3, PTL DEF PagesSpec

-----------------------------------------------------------------------------
(***************************************************************************)
(* VlcPlayback.  A track is in one place at a time: its load is under way, *)
(* or it is polled, or it waits to be loaded again, or it is left for the  *)
(* next one; tracks that were left have no session, so no late load takes  *)
(* libvlc from the one that is on; and what a current reply says of the    *)
(* end of the track is still so when it is read.                           *)
(***************************************************************************)

\* Tracks are numbered as they start; a track that was left has no session, and
\* nobody asks anything for a track that has not started.
VlcTracks ==
  /\ track \in {0, started} /\ (vlcMode <=> track # 0)
  /\ \A t \in Tracks : t <= started /\ t # track => t \in gone
  /\ \A r \in requests : r.track <= started
  /\ \A t \in retryTimers : t.track <= started
  /\ timer # None => vlcMode

\* Who loads a track: its start, or a retry, and before that its timer.
VlcLoads  == {r \in requests : r.kind \in {"setup", "retry"} /\ r.track = track}
VlcTimers == {t \in retryTimers : t.track = track}

\* One of them at most, and none while the track is polled or left for the next one.
VlcTurns ==
  /\ \A r, q \in VlcLoads : r = q
  /\ \A t, u \in VlcTimers : t = u
  /\ VlcTimers # {} => VlcLoads = {}
  /\ polling \/ advancing => VlcLoads = {} /\ VlcTimers = {}
  /\ ~(polling /\ advancing) /\ (advancing => vlcMode)

\* libvlc has the track, from the answer to its first load on.
VlcHas ==
  \/ polling \/ advancing \/ VlcTimers # {}
  \/ \E r \in VlcLoads : r.kind = "retry" \/ r.st = "ok"
VlcOwns == VlcHas => player.track = track

\* What ended stays ended, unless a seek had the track loaded again.
VlcEnded == player.phase \in {"ended", "error"}
VlcPolls ==
  /\ ~rewound => \A r \in requests : r.kind = "rewind" => r.track # track
  /\ \A p \in polls : p.gen <= generation /\ (p.gen = generation => polling)
  /\ \A p \in polls :
       p.gen = generation /\ p.state \in {"ended", "error"} /\ ~rewound => VlcEnded
  /\ advancing /\ ~rewound => VlcEnded

VlcInv == TypeOK /\ VlcTracks /\ VlcTurns /\ VlcOwns /\ VlcPolls

LEMMA VlcInitEstablishes ==
  ASSUME VlcAssumption
  PROVE  Init => VlcInv
<1> SUFFICES ASSUME Init PROVE VlcInv
  OBVIOUS
<1>1. TypeOK
  <2>1. MaxTracks \in Nat \ {0} /\ Retries \in Nat
    BY DEF VlcAssumption
  <2>2. player \in [track : 0 .. MaxTracks, phase : Phases, paused : Mode, pos : Regions,
                    eof : BOOLEAN]
    BY <2>1 DEF Init, Idle, Phases, Mode, Regions
  <2>3. /\ gone \subseteq Tracks /\ track \in 0 .. started /\ started \in 0 .. MaxTracks
        /\ retries \in 0 .. Retries /\ resumes \subseteq Regions
        /\ sessionLost \in [track : 0 .. MaxTracks, to : Regions]
    BY <2>1 DEF Init, NotLost, Regions
  <2>4. /\ {vlcMode, paused, loading, frozen, postSeek, wasPlaying, burst, note, polling, fetching,
            advancing, rewound, yielded, deaf} \subseteq BOOLEAN
        /\ (fetching => polling) /\ (polling => vlcMode)
    BY DEF Init
  <2>5. /\ prevState \in States /\ posMs \in Regions /\ seekTarget \in Regions
        /\ mk \in Mode /\ desired \in Mode \union {None} /\ pendingIntent \in Mode \union {None}
        /\ revision \in Nat /\ epoch \in Nat /\ direct \subseteq Mode
        /\ seekRevision \in Nat /\ timer \in Nat \union {None} /\ generation \in Nat
    BY DEF Init, States, Regions, Mode
  <2>6. /\ cmds \in Seq(Command) /\ requests \subseteq Request /\ polls \subseteq Poll
        /\ retryTimers \subseteq [track : Tracks, to : Regions]
    BY DEF Init
  <2> QED BY <2>2, <2>3, <2>4, <2>5, <2>6 DEF TypeOK
<1>2. VlcTracks
  BY DEF Init, VlcTracks, VlcAssumption, Tracks
<1>3. VlcTurns /\ VlcOwns
  BY DEF Init, VlcTurns, VlcOwns, VlcHas, VlcLoads, VlcTimers
<1>4. VlcPolls
  BY DEF Init, VlcPolls
<1> QED BY <1>1, <1>2, <1>3, <1>4 DEF VlcInv

LEMMA VlcTypes ==
  ASSUME VlcAssumption, VlcInv, Next
  PROVE  TypeOK'
<1> USE DEF session, ui, mkit, transport, seeks, poll, ends, lost, bounds, Mode
<1> DEFINE T1  == player \in [track : 0 .. MaxTracks, phase : Phases, paused : BOOLEAN,
                              pos : Regions, eof : BOOLEAN]
           T2  == gone \subseteq Tracks /\ track \in 0 .. started /\ started \in 0 .. MaxTracks
           T3  == /\ vlcMode \in BOOLEAN /\ paused \in BOOLEAN /\ loading \in BOOLEAN
                  /\ frozen \in BOOLEAN /\ postSeek \in BOOLEAN /\ wasPlaying \in BOOLEAN
                  /\ burst \in BOOLEAN /\ note \in BOOLEAN /\ mk \in BOOLEAN
           T4  == /\ polling \in BOOLEAN /\ fetching \in BOOLEAN /\ advancing \in BOOLEAN
                  /\ rewound \in BOOLEAN /\ (fetching => polling) /\ (polling => vlcMode)
           T5  == prevState \in States /\ posMs \in Regions /\ seekTarget \in Regions
           T6  == /\ desired \in BOOLEAN \union {None} /\ pendingIntent \in BOOLEAN \union {None}
                  /\ revision \in Nat /\ epoch \in Nat /\ cmds \in Seq(Command)
                  /\ direct \subseteq BOOLEAN
           T7  == seekRevision \in Nat /\ timer \in Nat \union {None}
           T8  == requests \subseteq Request
           T9  == polls \subseteq Poll /\ generation \in Nat
           T10 == /\ retryTimers \subseteq [track : Tracks, to : Regions]
                  /\ retries \in 0 .. Retries /\ resumes \subseteq Regions
                  /\ sessionLost \in [track : 0 .. MaxTracks, to : Regions]
           T11 == yielded \in BOOLEAN /\ deaf \in BOOLEAN
           Typed == T1 /\ T2 /\ T3 /\ T4 /\ T5 /\ T6 /\ T7 /\ T8 /\ T9 /\ T10 /\ T11
<1>1. (TypeOK <=> Typed) /\ (TypeOK' <=> Typed')
  BY DEF TypeOK
<1>2. Typed /\ TypeOK /\ VlcTracks
  BY <1>1 DEF VlcInv
<1>3. /\ MaxTracks \in Nat \ {0} /\ Retries \in Nat /\ None \notin Int
      /\ Tracks = 1 .. MaxTracks
  BY DEF VlcAssumption, Tracks

<1> DEFINE Player == [track : 0 .. MaxTracks, phase : Phases, paused : BOOLEAN,
                      pos : Regions, eof : BOOLEAN]
<1>4. /\ \A b \in BOOLEAN : [player EXCEPT !.paused = b] \in Player
      /\ \A ph \in Phases : [player EXCEPT !.phase = ph] \in Player
      /\ \A to \in Regions : [player EXCEPT !.pos = to] \in Player
      /\ [player EXCEPT !.phase = "ended", !.eof = TRUE] \in Player
      /\ player.paused \in BOOLEAN /\ player.phase \in Phases /\ player.pos \in Regions
      /\ player.eof \in BOOLEAN
  BY <1>2 DEF Phases
<1>5. cmds # <<>> =>
        /\ Tail(cmds) \in Seq(Command) /\ Head(cmds).paused \in BOOLEAN
        /\ \A st \in {"queued", "sent", "done"} : [cmds EXCEPT ![1].st = st] \in Seq(Command)
  <2> SUFFICES ASSUME cmds # <<>>
               PROVE  /\ Tail(cmds) \in Seq(Command) /\ Head(cmds).paused \in BOOLEAN
                      /\ \A st \in {"queued", "sent", "done"} :
                           [cmds EXCEPT ![1].st = st] \in Seq(Command)
    OBVIOUS
  <2>1. /\ Len(cmds) \in Nat \ {0} /\ cmds[1] \in Command /\ Head(cmds) = cmds[1]
        /\ cmds \in [1 .. Len(cmds) -> Command] /\ Tail(cmds) \in Seq(Command)
    BY <1>2
  <2>2. ASSUME NEW st \in {"queued", "sent", "done"}
        PROVE  [cmds EXCEPT ![1].st = st] \in Seq(Command)
    <3>1. [cmds[1] EXCEPT !.st = st] \in Command
      BY <2>1 DEF Command
    <3>2. [cmds EXCEPT ![1].st = st] \in [1 .. Len(cmds) -> Command]
      BY <2>1, <3>1
    <3> QED BY <2>1, <3>2
  <2> QED BY <2>1, <2>2 DEF Command
<1>6. /\ \A p \in BOOLEAN : RequestTransport(p) =>
           /\ desired' \in BOOLEAN /\ revision' \in Nat /\ epoch' \in Nat
           /\ cmds' \in Seq(Command)
      /\ \A p \in BOOLEAN \union {None} : ResetTransport(p) =>
           desired' = p /\ revision' \in Nat /\ epoch' \in Nat
  <2>1. ASSUME NEW p \in BOOLEAN, RequestTransport(p)
        PROVE  /\ desired' \in BOOLEAN /\ revision' \in Nat /\ epoch' \in Nat
               /\ cmds' \in Seq(Command)
    <3>1. [paused |-> p, owner |-> track, epoch |-> epoch, rev |-> revision + 1, st |-> "queued"]
            \in Command
      BY <1>2, <1>3 DEF Command
    <3>2. CASE desired = p
      BY <1>2, <2>1, <3>2 DEF RequestTransport
    <3>3. CASE desired # p
      <4>1. /\ desired' = p /\ revision' = revision + 1 /\ epoch' = epoch
            /\ cmds' = Append(cmds, [paused |-> p, owner |-> track, epoch |-> epoch,
                                     rev |-> revision + 1, st |-> "queued"])
        BY <2>1, <3>3 DEF RequestTransport
      <4> QED BY <1>2, <3>1, <4>1
    <3> QED BY <3>2, <3>3
  <2> QED BY <1>2, <2>1 DEF ResetTransport
<1>7. ASSUME NEW r \in requests
      PROVE  /\ r \in Request /\ requests \ {r} \subseteq Request
             /\ \A st \in {"sent", "ok", "refused"} : Swap(r, st) => T8'
             /\ r.track = track => vlcMode
  <2>1. r \in Request
    BY <1>2
  <2>2. \A st \in {"sent", "ok", "refused"} : [r EXCEPT !.st = st] \in Request
    BY <2>1 DEF Request
  <2>3. r.track = track => vlcMode
    BY <1>2, <1>3, <2>1 DEF Request, VlcTracks
  <2> QED BY <1>2, <2>1, <2>2, <2>3 DEF Swap
<1>8. Reset =>
        /\ T2' /\ T4' /\ T5' /\ T9' /\ T11' /\ retryTimers' = retryTimers /\ retries' = 0
        /\ seekRevision' = seekRevision /\ timer' = None
        /\ vlcMode' = FALSE /\ paused' = FALSE /\ loading' = FALSE /\ frozen' = FALSE
        /\ postSeek' = FALSE /\ wasPlaying' = FALSE /\ burst' = FALSE
        /\ retries' \in 0 .. Retries
  <2> SUFFICES ASSUME Reset
               PROVE  /\ T2' /\ T4' /\ T5' /\ T9' /\ T11' /\ retryTimers' = retryTimers /\ retries' = 0
                      /\ seekRevision' = seekRevision /\ timer' = None
                      /\ vlcMode' = FALSE /\ paused' = FALSE /\ loading' = FALSE /\ frozen' = FALSE
                      /\ postSeek' = FALSE /\ wasPlaying' = FALSE /\ burst' = FALSE /\ retries' \in 0 .. Retries
    OBVIOUS
  <2>1. T2'
    BY <1>2, <1>3 DEF Reset
  <2>2. T4' /\ T5'
    BY <1>2 DEF Reset, StopPoll, States, Regions
  <2>3. T9'
    BY <1>2 DEF Reset, StopPoll
  <2>4. retries' = 0 /\ 0 \in 0 .. Retries
    BY <1>3 DEF Reset
  <2>5. yielded' = FALSE /\ deaf' = FALSE
    BY DEF Reset
  <2> QED BY <2>1, <2>2, <2>3, <2>4, <2>5 DEF Reset
<1>9. StartPoll =>
        /\ polling' /\ polling' \in BOOLEAN /\ fetching' = FALSE /\ generation' \in Nat
        /\ prevState' \in States /\ deaf' = FALSE
  <2> SUFFICES ASSUME StartPoll
               PROVE  /\ polling' /\ polling' \in BOOLEAN /\ fetching' = FALSE /\ generation' \in Nat
                      /\ prevState' \in States /\ deaf' = FALSE
    OBVIOUS
  <2>1. polling' = TRUE /\ fetching' = FALSE /\ deaf' = FALSE /\ prevState' \in States
    BY DEF StartPoll, States
  <2>2. generation' \in Nat
    BY <1>2 DEF StartPoll
  <2> QED BY <2>1, <2>2
<1>39. /\ NotLost \in [track : 0 .. MaxTracks, to : Regions]
       /\ sessionLost.to \in Regions
  BY <1>2, <1>3 DEF NotLost, Regions
<1>40. ASSUME NEW to \in SUBSET Regions, Reopen(to), mk' = mk, note' = note
       PROVE  T2' /\ T3' /\ T4' /\ T5' /\ T7' /\ T9' /\ T10' /\ T11'
  <2>1. /\ Reset /\ sessionLost' = NotLost /\ resumes' \subseteq Regions
        /\ mk' = mk /\ note' = note
    BY <1>2, <1>40 DEF Reopen
  <2>2. T10'
    BY <1>2, <1>8, <1>39, <2>1
  <2>3. T3' /\ T7'
    BY <1>2, <1>8, <2>1
  <2> QED BY <1>8, <2>1, <2>2, <2>3
<1>10. ASSUME CommandTurn
       PROVE  Typed'
  <2>1. T6'
    BY <1>2, <1>3, <1>10, <1>5 DEF CommandTurn
  <2>2. T1' /\ T2' /\ T3' /\ T4' /\ T5' /\ T7' /\ T8' /\ T9' /\ T10' /\ T11'
    BY <1>2, <1>10 DEF CommandTurn
  <2> HIDE DEF T1, T2, T3, T4, T5, T6, T7, T8, T9, T10, T11
  <2> QED BY <2>1, <2>2
<1>11. ASSUME EngineCommand
       PROVE  Typed'
  <2>1. T1'
    BY <1>2, <1>3, <1>11, <1>4, <1>5 DEF EngineCommand, EngineObeys
  <2>2. T6'
    BY <1>2, <1>3, <1>11, <1>5 DEF EngineCommand
  <2>3. T2' /\ T3' /\ T4' /\ T5' /\ T7' /\ T8' /\ T9' /\ T10' /\ T11'
    BY <1>2, <1>11 DEF EngineCommand
  <2> HIDE DEF T1, T2, T3, T4, T5, T6, T7, T8, T9, T10, T11
  <2> QED BY <2>1, <2>2, <2>3
<1>12. ASSUME CommandReply
       PROVE  Typed'
  BY <1>2, <1>3, <1>12, <1>5 DEF CommandReply
<1>13. ASSUME CommandFails
       PROVE  Typed'
  <2>1. T6'
    BY <1>2, <1>3, <1>13, <1>5, <1>6 DEF CommandFails, Fault
  <2>2. T1' /\ T2' /\ T3' /\ T4' /\ T5' /\ T7' /\ T8' /\ T9' /\ T10' /\ T11'
    BY <1>2, <1>13 DEF CommandFails
  <2> HIDE DEF T1, T2, T3, T4, T5, T6, T7, T8, T9, T10, T11
  <2> QED BY <2>1, <2>2
<1>14. ASSUME NEW q \in BOOLEAN, Press(q)
       PROVE  Typed'
  <2>1. T3'
    BY <1>2, <1>3, <1>14, <1>6 DEF Press, PressNow, PressKept, MkGoes
  <2>2. T6'
    BY <1>2, <1>3, <1>14, <1>6 DEF Press, PressNow, PressKept
  <2>3. T1' /\ T2' /\ T4' /\ T5' /\ T7' /\ T8' /\ T9' /\ T10' /\ T11'
    BY <1>2, <1>14 DEF Press
  <2> HIDE DEF T1, T2, T3, T4, T5, T6, T7, T8, T9, T10, T11
  <2> QED BY <2>1, <2>2, <2>3
<1>15. ASSUME MkNotifies
       PROVE  Typed'
  <2>1. T3'
    BY <1>2, <1>3, <1>15 DEF MkNotifies
  <2>2. T6'
    BY <1>2, <1>3, <1>15 DEF MkNotifies
  <2>3. T1' /\ T2' /\ T4' /\ T5' /\ T7' /\ T8' /\ T9' /\ T10' /\ T11'
    BY <1>2, <1>15 DEF MkNotifies
  <2> HIDE DEF T1, T2, T3, T4, T5, T6, T7, T8, T9, T10, T11
  <2> QED BY <2>1, <2>2, <2>3
<1>16. ASSUME NEW q \in BOOLEAN, EngineDirect(q)
       PROVE  Typed'
  <2>1. T1'
    BY <1>2, <1>3, <1>16, <1>4 DEF EngineDirect, EngineObeys
  <2>2. T6'
    BY <1>2, <1>3, <1>16 DEF EngineDirect
  <2>3. T2' /\ T3' /\ T4' /\ T5' /\ T7' /\ T8' /\ T9' /\ T10' /\ T11'
    BY <1>2, <1>16 DEF EngineDirect
  <2> HIDE DEF T1, T2, T3, T4, T5, T6, T7, T8, T9, T10, T11
  <2> QED BY <2>1, <2>2, <2>3
<1>17. ASSUME TrackLeft
       PROVE  Typed'
  <2>1. T2' /\ T4' /\ T5' /\ T9'
    BY <1>2, <1>3, <1>17, <1>8 DEF TrackLeft
  <2>2. T3'
    BY <1>2, <1>3, <1>17, <1>8 DEF TrackLeft
  <2>3. T7' /\ T10' /\ T11'
    BY <1>2, <1>3, <1>17, <1>8 DEF TrackLeft
  <2>4. T1' /\ T6' /\ T8'
    BY <1>2, <1>17 DEF TrackLeft
  <2> HIDE DEF T1, T2, T3, T4, T5, T6, T7, T8, T9, T10, T11
  <2> QED BY <2>1, <2>2, <2>3, <2>4
<1>18. ASSUME TrackReopened
       PROVE  Typed'
  <2>1. T2' /\ T4' /\ T5' /\ T9'
    BY <1>2, <1>3, <1>18, <1>8, <1>39, <1>40 DEF TrackReopened
  <2>2. T3'
    BY <1>2, <1>3, <1>18, <1>8, <1>39, <1>40 DEF TrackReopened
  <2>3. T7' /\ T10' /\ T11'
    BY <1>2, <1>3, <1>18, <1>8, <1>39, <1>40 DEF TrackReopened
  <2>4. T1' /\ T6' /\ T8'
    BY <1>2, <1>18 DEF TrackReopened
  <2> HIDE DEF T1, T2, T3, T4, T5, T6, T7, T8, T9, T10, T11
  <2> QED BY <2>1, <2>2, <2>3, <2>4
<1>19. ASSUME Setup
       PROVE  Typed'
  <2>1. T2'
    BY <1>2, <1>3, <1>19 DEF Setup
  <2>2. T3' /\ T5'
    BY <1>2, <1>3, <1>19 DEF Setup, Regions
  <2>3. T4'
    BY <1>2, <1>3, <1>19 DEF Setup
  <2>4. T6'
    BY <1>2, <1>3, <1>19, <1>6 DEF Setup
  <2>5. T8'
    BY <1>2, <1>3, <1>19 DEF Setup, Request, Regions
  <2>6. T1' /\ T7' /\ T9' /\ T10' /\ T11'
    BY <1>2, <1>19 DEF Setup
  <2> HIDE DEF T1, T2, T3, T4, T5, T6, T7, T8, T9, T10, T11
  <2> QED BY <2>1, <2>2, <2>3, <2>4, <2>5, <2>6
<1>20. ASSUME NEW r \in requests, EngineLoad(r)
       PROVE  Typed'
  <2>1. r.track \in 0 .. MaxTracks /\ r.to \in Regions
    BY <1>2, <1>3, <1>20, <1>7 DEF Request
  <2>2. \/ player' = player
       \/ player' = [track |-> r.track, phase |-> "opening", paused |-> FALSE, pos |-> r.to, eof |-> FALSE]
    BY <1>20 DEF EngineLoad
  <2>3. [track |-> r.track, phase |-> "opening", paused |-> FALSE, pos |-> r.to, eof |-> FALSE] \in Player
    BY <2>1 DEF Phases
  <2>4. T1'
    BY <1>2, <2>2, <2>3
  <2>5. T8'
    BY <1>2, <1>3, <1>20, <1>7 DEF EngineLoad
  <2>6. T2' /\ T3' /\ T4' /\ T5' /\ T6' /\ T7' /\ T9' /\ T10' /\ T11'
    BY <1>2, <1>20 DEF EngineLoad
  <2> HIDE DEF T1, T2, T3, T4, T5, T6, T7, T8, T9, T10, T11
  <2> QED BY <2>4, <2>5, <2>6
<1>21. ASSUME NEW r \in requests, SetupLoaded(r)
       PROVE  Typed'
  <2>1. T3'
    BY <1>2, <1>3, <1>21 DEF SetupLoaded, MkGoes
  <2>2. T4' /\ T5' /\ T9'
    BY <1>2, <1>3, <1>21, <1>7, <1>9 DEF SetupLoaded
  <2>3. T6'
    BY <1>2, <1>3, <1>21, <1>6 DEF SetupLoaded
  <2>4. T8'
    BY <1>2, <1>3, <1>21, <1>7 DEF SetupLoaded
  <2>5. T1' /\ T2' /\ T7' /\ T10'
    BY <1>2, <1>21 DEF SetupLoaded
  <2>6. T11'
    BY <1>2, <1>9, <1>21 DEF SetupLoaded
  <2> HIDE DEF T1, T2, T3, T4, T5, T6, T7, T8, T9, T10, T11
  <2> QED BY <2>1, <2>2, <2>3, <2>4, <2>5, <2>6
<1>22. ASSUME NEW r \in requests, SetupFails(r)
       PROVE  Typed'
  BY <1>2, <1>3, <1>22 DEF SetupFails, Fault
<1>23. ASSUME EngineRun
       PROVE  Typed'
  <2>1. \/ \E ph \in {"playing", "ended", "error"} : player' = [player EXCEPT !.phase = ph]
       \/ player' = [player EXCEPT !.phase = "ended", !.eof = TRUE]
       \/ \E to \in {"mid", "end"} : player' = [player EXCEPT !.pos = to]
    BY <1>23 DEF EngineRun, EngineRuns
  <2>2. {"playing", "ended", "error"} \subseteq Phases /\ {"mid", "end"} \subseteq Regions
    BY DEF Phases, Regions
  <2>3. T1'
    BY <1>4, <2>1, <2>2
  <2>4. T2' /\ T3' /\ T4' /\ T5' /\ T6' /\ T7' /\ T8' /\ T9' /\ T10' /\ T11'
    BY <1>2, <1>23 DEF EngineRun
  <2> HIDE DEF T1, T2, T3, T4, T5, T6, T7, T8, T9, T10, T11
  <2> QED BY <2>3, <2>4
<1>24. ASSUME SessionExpires
       PROVE  Typed'
  BY <1>2, <1>3, <1>24 DEF SessionExpires, Fault
<1>25. ASSUME Touch
       PROVE  Typed'
  <2>1. T10'
    BY <1>2, <1>3, <1>25 DEF Touch
  <2>2. T1' /\ T2' /\ T3' /\ T4' /\ T5' /\ T6' /\ T7' /\ T8' /\ T9' /\ T11'
    BY <1>2, <1>25 DEF Touch
  <2> HIDE DEF T1, T2, T3, T4, T5, T6, T7, T8, T9, T10, T11
  <2> QED BY <2>1, <2>2
<1>26. ASSUME NEW t \in Regions, SeekCall(t)
       PROVE  Typed'
  BY <1>2, <1>3, <1>26 DEF SeekCall, SeekTo, User
<1>41. ASSUME NEW t \in resumes, Resume(t)
       PROVE  Typed'
  <2>1. t \in Regions /\ resumes' \subseteq Regions
    BY <1>2, <1>41 DEF Resume
  <2>2. CASE SeekTo(t) /\ User
    BY <1>2, <1>3, <2>1, <2>2 DEF SeekTo, User
  <2>3. CASE ~(SeekTo(t) /\ User)
    BY <1>2, <1>41, <2>1, <2>3 DEF Resume
  <2> QED BY <2>2, <2>3
<1>27. ASSUME SeekTimer
       PROVE  Typed'
  <2>1. track \in Tracks /\ timer \in Nat
    BY <1>2, <1>3, <1>27 DEF SeekTimer, VlcTracks
  <2>2. T5'
    BY <1>2, <1>3, <1>27 DEF SeekTimer
  <2>3. T7'
    BY <1>2, <1>3, <1>27 DEF SeekTimer
  <2>4. T8'
    BY <1>2, <1>3, <1>27, <2>1 DEF SeekTimer, Request
  <2>5. T1' /\ T2' /\ T3' /\ T4' /\ T6' /\ T9' /\ T10' /\ T11'
    BY <1>2, <1>27 DEF SeekTimer
  <2> HIDE DEF T1, T2, T3, T4, T5, T6, T7, T8, T9, T10, T11
  <2> QED BY <2>2, <2>3, <2>4, <2>5
<1>28. ASSUME NEW r \in requests, EngineSeek(r)
       PROVE  Typed'
  <2>1. r.to \in Regions /\ "start" \in Regions
    BY <1>2, <1>3, <1>28, <1>7 DEF Request, Regions
  <2>2. \/ player' = player \/ player' = [player EXCEPT !.pos = r.to]
       \/ player' = [player EXCEPT !.pos = "start"]
    BY <1>28 DEF EngineSeek
  <2>3. T1'
    BY <1>2, <1>4, <2>1, <2>2
  <2>4. T8'
    BY <1>2, <1>3, <1>28, <1>7 DEF EngineSeek
  <2>5. T2' /\ T3' /\ T4' /\ T5' /\ T6' /\ T7' /\ T9' /\ T10' /\ T11'
    BY <1>2, <1>28 DEF EngineSeek
  <2> HIDE DEF T1, T2, T3, T4, T5, T6, T7, T8, T9, T10, T11
  <2> QED BY <2>3, <2>4, <2>5
<1>29. ASSUME NEW r \in requests, SeekReply(r)
       PROVE  Typed'
  <2>1. T3'
    BY <1>2, <1>3, <1>29 DEF SeekReply
  <2>2. T5'
    BY <1>2, <1>3, <1>29, <1>7 DEF SeekReply, Request, States
  <2>3. T6'
    BY <1>2, <1>3, <1>29, <1>6 DEF SeekReply
  <2>4. T8'
    BY <1>2, <1>3, <1>29, <1>7 DEF SeekReply
  <2>5. T1' /\ T2' /\ T4' /\ T7' /\ T9' /\ T10'
    BY <1>2, <1>29 DEF SeekReply
  <2>6. T11'
    BY <1>2, <1>29 DEF SeekReply
  <2> HIDE DEF T1, T2, T3, T4, T5, T6, T7, T8, T9, T10, T11
  <2> QED BY <2>1, <2>2, <2>3, <2>4, <2>5, <2>6
<1>42. ASSUME NEW r \in requests, RewindFails(r)
       PROVE  Typed'
  <2>1. T3'
    BY <1>2, <1>3, <1>42 DEF RewindFails
  <2>4. deaf' = deaf \/ deaf' = (prevState \in {"ended", "error"})
    BY <1>42 DEF RewindFails
  <2>5. T11'
    <3>1. yielded' \in BOOLEAN
      BY <1>2, <1>42 DEF RewindFails
    <3>2. CASE deaf' = deaf
      BY <1>2, <3>1, <3>2
    <3>3. CASE deaf' = (prevState \in {"ended", "error"})
      <4>1. CASE prevState \in {"ended", "error"}
        BY <3>1, <3>3, <4>1
      <4>2. CASE prevState \notin {"ended", "error"}
        BY <3>1, <3>3, <4>2
      <4> QED BY <4>1, <4>2
    <3> QED BY <2>4, <3>2, <3>3
  <2>2. T8'
    BY <1>2, <1>3, <1>42, <1>7 DEF RewindFails
  <2>3. T1' /\ T2' /\ T4' /\ T5' /\ T6' /\ T7' /\ T9' /\ T10'
    BY <1>2, <1>42 DEF RewindFails
  <2> HIDE DEF T1, T2, T3, T4, T5, T6, T7, T8, T9, T10, T11
  <2> QED BY <2>1, <2>2, <2>3, <2>5
<1>30. ASSUME NEW r \in requests, RewindReply(r)
       PROVE  Typed'
  <2>1. T3'
    BY <1>2, <1>3, <1>30 DEF RewindReply
  <2>2. T5'
    BY <1>2, <1>3, <1>30 DEF RewindReply, States
  <2>3. T8'
    BY <1>2, <1>3, <1>30, <1>7 DEF RewindReply
  <2>4. T1' /\ T2' /\ T4' /\ T6' /\ T7' /\ T9' /\ T10'
    BY <1>2, <1>30 DEF RewindReply
  <2>5. T11'
    BY <1>2, <1>30 DEF RewindReply
  <2> HIDE DEF T1, T2, T3, T4, T5, T6, T7, T8, T9, T10, T11
  <2> QED BY <2>1, <2>2, <2>3, <2>4, <2>5
<1>31. ASSUME PollRestart
       PROVE  Typed'
  <2>1. T4' /\ T5' /\ T9'
    BY <1>2, <1>3, <1>31, <1>9 DEF PollRestart
  <2>2. T1' /\ T2' /\ T3' /\ T6' /\ T7' /\ T8' /\ T10'
    BY <1>2, <1>31 DEF PollRestart
  <2>3. T11'
    BY <1>2, <1>9, <1>31 DEF PollRestart
  <2> HIDE DEF T1, T2, T3, T4, T5, T6, T7, T8, T9, T10, T11
  <2> QED BY <2>1, <2>2, <2>3
<1>32. ASSUME PollTick
       PROVE  Typed'
  <2>1. track \in Tracks
    BY <1>2, <1>3, <1>32 DEF PollTick, VlcTracks
  <2>2. [gen |-> generation, track |-> track, rev |-> revision, state |-> "none", pos |-> "start",
        eof |-> FALSE] \in Poll
    BY <1>2, <2>1 DEF Poll, States, Regions
  <2>3. /\ generation' = generation
       /\ polls' = polls \union {[gen |-> generation, track |-> track, rev |-> revision, state |-> "none",
                                  pos |-> "start", eof |-> FALSE]}
    BY <1>32 DEF PollTick
  <2>4. T4'
    BY <1>2, <1>3, <1>32 DEF PollTick
  <2>5. T9'
    BY <1>2, <2>2, <2>3
  <2>6. T1' /\ T2' /\ T3' /\ T5' /\ T6' /\ T7' /\ T8' /\ T10' /\ T11'
    BY <1>2, <1>32 DEF PollTick
  <2> HIDE DEF T1, T2, T3, T4, T5, T6, T7, T8, T9, T10, T11
  <2> QED BY <2>4, <2>5, <2>6
<1>33. ASSUME NEW p \in polls, PollSample(p)
       PROVE  Typed'
  <2>1. Reported \in States
    BY <1>2, <1>3, <1>33, <1>4 DEF Reported, States, Phases
  <2>2. p \in Poll
    BY <1>2, <1>33
  <2>3. [p EXCEPT !.state = Reported, !.pos = player.pos, !.eof = player.eof] \in Poll
    BY <1>4, <2>1, <2>2 DEF Poll
  <2>4. /\ generation' = generation
       /\ polls' = (polls \ {p}) \union {[p EXCEPT !.state = Reported, !.pos = player.pos, !.eof = player.eof]}
    BY <1>33 DEF PollSample
  <2>5. T9'
    BY <1>2, <2>3, <2>4
  <2>6. T1' /\ T2' /\ T3' /\ T4' /\ T5' /\ T6' /\ T7' /\ T8' /\ T10' /\ T11'
    BY <1>2, <1>33 DEF PollSample
  <2> HIDE DEF T1, T2, T3, T4, T5, T6, T7, T8, T9, T10, T11
  <2> QED BY <2>5, <2>6
<1>34. ASSUME NEW p \in polls, PollReply(p)
       PROVE  Typed'
  <2>1. p \in Poll
    BY <1>2, <1>3, <1>34
  <2>2. Fresh(p) =>
         [kind |-> "rewind", track |-> track, to |-> seekTarget, rev |-> seekRevision, st |-> "sent"]
           \in Request
    BY <1>2, <1>3, <1>34, <2>1 DEF Fresh, Poll, Request
  <2>3. Fresh(p) => track \in Tracks /\ Furthest(p.pos, posMs) \in Regions
    BY <1>2, <1>3, <1>34, <2>1 DEF Fresh, Poll, Regions, Furthest
  <2>4. Fresh(p) /\ HandleEnded(p) =>
         /\ retryTimers' \subseteq [track : Tracks, to : Regions]
         /\ retries' \in 0 .. Retries
    BY <1>2, <1>3, <1>34, <2>3 DEF HandleEnded, Retried
  <2>5. StopPoll => generation' \in Nat
    BY <1>2, <1>3, <1>34 DEF StopPoll
  <2>6. polls' \subseteq Poll
    BY <1>2, <1>3, <1>34 DEF PollReply
  <2>7. T3'
    BY <1>2, <1>3, <1>34 DEF PollReply, StateChanges, MkGoes, HandleEnded
  <2>8. T4'
    BY <1>2, <1>3, <1>34 DEF PollReply, StateChanges, HandleEnded, StopPoll
  <2>9. T5'
    BY <1>2, <1>3, <1>34, <2>1 DEF PollReply, Shown, Poll
  <2>10. T7' /\ T6'
    BY <1>2, <1>3, <1>34 DEF PollReply
  <2>11. T8'
    BY <1>2, <1>3, <1>34, <2>2 DEF PollReply
  <2>12. T9'
    BY <1>2, <1>3, <1>34, <2>5, <2>6 DEF PollReply, StateChanges, HandleEnded
  <2>13. T10'
    BY <1>2, <1>3, <1>34, <2>4 DEF PollReply, StateChanges
  <2>15. deaf' \in BOOLEAN
    <3>1. deaf' = deaf \/ deaf' = (deaf /\ p.state = prevState)
      BY <1>34 DEF PollReply
    <3>2. deaf \in BOOLEAN
      BY <1>2
    <3>3. CASE p.state = prevState
      BY <3>1, <3>2, <3>3
    <3>4. CASE p.state # prevState
      BY <3>1, <3>2, <3>4
    <3> QED BY <3>3, <3>4
  <2>16. yielded' \in BOOLEAN
    <3>1. yielded' = yielded \/ yielded' = TRUE
      BY <1>34 DEF PollReply, StateChanges, HandleEnded
    <3>2. yielded \in BOOLEAN
      BY <1>2
    <3> QED BY <3>1, <3>2
  <2>17. T11'
    BY <2>15, <2>16
  <2>14. T1' /\ T2'
    BY <1>2, <1>34 DEF PollReply
  <2> HIDE DEF T1, T2, T3, T4, T5, T6, T7, T8, T9, T10, T11
  <2> QED BY <2>7, <2>8, <2>9, <2>10, <2>11, <2>12, <2>13, <2>14, <2>17
<1>35. ASSUME NEW p \in polls, PollFails(p)
       PROVE  Typed'
  BY <1>2, <1>3, <1>35 DEF PollFails, Fault
<1>36. ASSUME NEW t \in retryTimers, RetryFires(t)
       PROVE  Typed'
  <2>1. T8'
    BY <1>2, <1>3, <1>36 DEF RetryFires, Request
  <2>2. T10' /\ T11'
    BY <1>2, <1>3, <1>36 DEF RetryFires
  <2>3. T1' /\ T2' /\ T3' /\ T4' /\ T5' /\ T6' /\ T7' /\ T9'
    BY <1>2, <1>36 DEF RetryFires
  <2> HIDE DEF T1, T2, T3, T4, T5, T6, T7, T8, T9, T10, T11
  <2> QED BY <2>1, <2>2, <2>3
<1>37. ASSUME NEW r \in requests, RetryReply(r)
       PROVE  Typed'
  <2>1. T1' /\ T6' /\ T8'
    BY <1>2, <1>37, <1>7 DEF RetryReply
  <2>2. r.to \in Regions /\ mk' = mk /\ note' = note
    BY <1>7, <1>37 DEF Request, RetryReply
  <2>3. CASE r.st = "refused" /\ track # 0
    <3>1. Reopen({r.to} \ {"start"})
      BY <1>37, <2>3 DEF RetryReply
    <3> QED BY <1>2, <1>40, <2>1, <2>2, <3>1
  <2>4. CASE r.st = "refused" /\ track = 0
    <3>1. T10'
      BY <1>2, <1>37, <1>39, <2>4 DEF RetryReply
    <3>2. T2' /\ T3' /\ T4' /\ T5' /\ T7' /\ T9' /\ T11'
      BY <1>2, <1>37, <2>4 DEF RetryReply
    <3> QED BY <2>1, <3>1, <3>2
  <2>5. CASE r.st # "refused"
    <3>1. \/ StartPoll /\ posMs' = r.to /\ loading' = TRUE /\ vlcMode
          \/ UNCHANGED <<posMs, loading, prevState, poll, deaf>>
      BY <1>37, <1>7, <2>5 DEF RetryReply
    <3>3. UNCHANGED <<polls, seekTarget, advancing, rewound, vlcMode, yielded>>
      BY <1>37, <2>5 DEF RetryReply
    <3>4. ASSUME StartPoll /\ posMs' = r.to /\ loading' = TRUE /\ vlcMode
          PROVE  loading' \in BOOLEAN /\ T4' /\ T5' /\ T9' /\ T11'
      <4>1. T4'
        BY <1>2, <1>9, <3>3, <3>4
      <4>2. T5' /\ T9'
        BY <1>2, <1>9, <2>2, <3>3, <3>4
      <4>3. deaf' = FALSE /\ yielded' = yielded
        BY <1>9, <3>3, <3>4
      <4>4. T11'
        BY <1>2, <4>3
      <4> QED BY <3>4, <4>1, <4>2, <4>4
    <3>5. ASSUME UNCHANGED <<posMs, loading, prevState, poll, deaf>>
          PROVE  loading' \in BOOLEAN /\ T4' /\ T5' /\ T9' /\ T11'
      BY <1>2, <3>3, <3>5
    <3>6. loading' \in BOOLEAN /\ T4' /\ T5' /\ T9' /\ T11'
      BY <3>1, <3>4, <3>5
    <3>2. T2' /\ T3' /\ T7' /\ T10'
      BY <1>2, <1>37, <2>5, <3>6 DEF RetryReply
    <3> QED BY <2>1, <3>2, <3>6
  <2> QED BY <2>3, <2>4, <2>5
<1>38. ASSUME NEW r \in requests, RetryFails(r)
       PROVE  Typed'
  <2>1. T4' /\ T5' /\ T9'
    BY <1>2, <1>3, <1>38, <1>7, <1>9 DEF RetryFails
  <2>2. T8'
    BY <1>2, <1>3, <1>38, <1>7 DEF RetryFails
  <2>3. T1' /\ T2' /\ T3' /\ T6' /\ T7' /\ T10'
    BY <1>2, <1>38 DEF RetryFails
  <2>4. T11'
    BY <1>2, <1>9, <1>38 DEF RetryFails
  <2> HIDE DEF T1, T2, T3, T4, T5, T6, T7, T8, T9, T10, T11
  <2> QED BY <2>1, <2>2, <2>3, <2>4
<1> HIDE DEF Typed
<1> QED BY <1>1, <1>10, <1>11, <1>12, <1>13, <1>14, <1>15, <1>16, <1>17, <1>18, <1>19, <1>20, <1>21, <1>22, <1>23, <1>24, <1>25, <1>26, <1>27, <1>28, <1>29, <1>30, <1>31, <1>32, <1>33, <1>34, <1>35, <1>36, <1>37, <1>38, <1>41, <1>42 DEF Next, Renderer, Reply, Engine, PollStep

\* What the four parts of the invariant are about.
VlcParts == VlcTracks /\ VlcTurns /\ VlcOwns /\ VlcPolls

LEMMA VlcRanges ==
  ASSUME VlcAssumption, TypeOK
  PROVE  /\ MaxTracks \in Nat \ {0} /\ started \in 0 .. MaxTracks /\ track \in 0 .. started
         /\ \A r \in requests : r.track \in 1 .. MaxTracks
         /\ \A t \in retryTimers : t.track \in 1 .. MaxTracks
         /\ generation \in Nat /\ \A p \in polls : p.gen \in Nat
         /\ polling \in BOOLEAN /\ (polling => vlcMode)
  BY DEF VlcAssumption, TypeOK, Request, Poll, Tracks

\* A step that starts no load, ends no poll and lets no session come back.
LEMMA VlcSteady ==
  ASSUME VlcAssumption, TypeOK, VlcParts,
         gone \subseteq gone',
         UNCHANGED <<track, started, vlcMode, polling, generation, advancing, rewound>>,
         player'.track = player.track, VlcEnded => VlcEnded',
         timer' # None => vlcMode, retryTimers' \subseteq retryTimers,
         \A r \in requests' : r \in requests \/ (r.kind = "seek" /\ r.track <= started),
         \A p \in polls' : \/ p \in polls
                           \/ /\ p.gen <= generation /\ (p.gen = generation => polling)
                              /\ p.state \in {"ended", "error"} => VlcEnded'
  PROVE  VlcParts'
<1> USE DEF VlcParts
<1>1. VlcTracks'
  BY VlcRanges DEF VlcTracks
<1>2. VlcLoads' \subseteq VlcLoads /\ VlcTimers' \subseteq VlcTimers
  BY DEF VlcLoads, VlcTimers
<1>3. VlcTurns'
  BY <1>2 DEF VlcTurns
<1>4. VlcOwns'
  BY <1>2 DEF VlcOwns, VlcHas
<1>5. VlcPolls'
  BY DEF VlcPolls
<1> QED BY <1>1, <1>3, <1>4, <1>5

\* A track that is left leaves nothing that loads or polls it.
LEMMA VlcLeaves ==
  ASSUME VlcAssumption, TypeOK, VlcParts, Reset, player' = player,
         requests' \subseteq requests
  PROVE  VlcParts'
<1> USE DEF VlcParts
<1>1. /\ track' = 0 /\ started' = started /\ vlcMode' = FALSE /\ timer' = None
      /\ polling' = FALSE /\ advancing' = FALSE /\ generation' = generation + 1
      /\ retryTimers' = retryTimers /\ polls' = polls
      /\ gone' = IF track = 0 THEN gone ELSE gone \union {track}
  BY DEF Reset, StopPoll
<1>2. VlcTracks'
  BY <1>1, VlcRanges DEF VlcTracks, Tracks
<1>3. VlcLoads' = {} /\ VlcTimers' = {}
  BY <1>1, VlcRanges DEF VlcLoads, VlcTimers
<1>4. VlcTurns' /\ VlcOwns'
  BY <1>1, <1>3 DEF VlcTurns, VlcOwns, VlcHas
<1>5. VlcPolls'
  BY <1>1, VlcRanges DEF VlcPolls
<1> QED BY <1>2, <1>4, <1>5

\* The answer to the load that had the track's turn starts the poll.
LEMMA VlcPollBegins ==
  ASSUME VlcAssumption, TypeOK, VlcParts,
         NEW r \in VlcLoads, r.kind = "retry" \/ r.st = "ok", requests' = requests \ {r},
         StartPoll, polls' = polls, player' = player, gone' = gone, timer' = timer,
         UNCHANGED <<track, started, vlcMode, retryTimers, advancing, rewound>>
  PROVE  VlcParts'
<1> USE DEF VlcParts
<1>1. polling' = TRUE /\ generation' = generation + 1
  BY DEF StartPoll
<1>2. VlcHas /\ ~advancing /\ ~polling /\ VlcTimers = {} /\ \A q \in VlcLoads : q = r
  BY DEF VlcHas, VlcTurns
<1>3. VlcLoads' = {} /\ VlcTimers' = {}
  BY <1>2 DEF VlcLoads, VlcTimers
<1>4. vlcMode
  BY VlcRanges DEF VlcTracks, VlcLoads
<1>5. VlcTracks'
  BY DEF VlcTracks
<1>6. VlcTurns' /\ VlcOwns'
  BY <1>1, <1>2, <1>3 DEF VlcTurns, VlcOwns
<1>7. VlcPolls'
  BY <1>1, <1>2, VlcRanges DEF VlcPolls
<1> QED BY <1>5, <1>6, <1>7

LEMMA VlcSetup ==
  ASSUME VlcAssumption, TypeOK, VlcParts, Setup
  PROVE  VlcParts'
<1> USE DEF VlcParts, session, seeks, poll, ends, lost
<1> DEFINE new == [kind |-> "setup", track |-> started + 1, to |-> "start", rev |-> 0, st |-> "sent"]
<1>1. /\ track = 0 /\ started' = started + 1 /\ track' = started + 1 /\ vlcMode' = TRUE
      /\ requests' = requests \union {new}
      /\ UNCHANGED <<player, gone, timer, rewound, polling, generation, polls, retryTimers, advancing>>
  BY DEF Setup
<1>2. new.kind = "setup" /\ new.track = started + 1 /\ new.st = "sent"
  OBVIOUS
<1> HIDE DEF new
<1>3. ~polling /\ ~advancing
  BY <1>1, VlcRanges DEF VlcTracks, VlcTurns
<1>4. VlcLoads' = {new} /\ VlcTimers' = {}
  BY <1>1, <1>2, VlcRanges DEF VlcTracks, VlcLoads, VlcTimers
<1>5. VlcTracks'
  BY <1>1, <1>2, VlcRanges DEF VlcTracks, Tracks
<1>6. VlcTurns' /\ VlcOwns'
  BY <1>1, <1>2, <1>3, <1>4 DEF VlcTurns, VlcOwns, VlcHas
<1>7. VlcPolls'
  BY <1>1, <1>2, <1>3, VlcRanges DEF VlcTracks, VlcPolls, VlcEnded
<1> QED BY <1>5, <1>6, <1>7

\* The engine loads nothing but the track that is on.
LEMMA VlcEngineLoads ==
  ASSUME VlcAssumption, TypeOK, VlcParts, NEW r \in requests, EngineLoad(r)
  PROVE  VlcParts'
<1> USE DEF VlcParts, session, seeks, poll, ends, lost
<1>1. /\ r.kind # "seek" /\ r.st = "sent"
      /\ UNCHANGED <<track, started, vlcMode, gone, timer, rewound, polling, generation, polls,
                     retryTimers, advancing>>
  BY DEF EngineLoad
<1>2. PICK s \in {"ok", "refused"} :
        /\ requests' = (requests \ {r}) \union {[r EXCEPT !.st = s]}
        /\ s = "ok" => r.track \notin gone /\ player'.track = r.track /\ player'.phase = "opening"
        /\ s = "refused" => player' = player
  BY DEF EngineLoad, Swap
<1> DEFINE new == [r EXCEPT !.st = s]
<1>3. new.kind = r.kind /\ new.track = r.track /\ new.st = s
  BY DEF TypeOK, Request
<1>4. requests' = (requests \ {r}) \union {new}
  BY <1>2
<1> HIDE DEF new
<1>5. VlcTracks'
  BY <1>1, <1>3, <1>4, VlcRanges DEF VlcTracks
<1>6. /\ VlcTimers' = VlcTimers
      /\ r.kind \in {"setup", "retry"} /\ r.track = track =>
           r \in VlcLoads /\ VlcLoads' = (VlcLoads \ {r}) \union {new}
      /\ ~(r.kind \in {"setup", "retry"} /\ r.track = track) => VlcLoads' = VlcLoads
  BY <1>1, <1>3, <1>4 DEF VlcTimers, VlcLoads
<1>7. VlcTurns'
  BY <1>1, <1>6 DEF VlcTurns
<1>8. CASE s = "refused"
  <2>1. VlcOwns'
    BY <1>1, <1>2, <1>3, <1>6, <1>8 DEF VlcOwns, VlcHas
  <2>2. VlcPolls'
    BY <1>1, <1>2, <1>3, <1>4, <1>8 DEF VlcPolls, VlcEnded
  <2> QED BY <1>5, <1>7, <2>1, <2>2
<1>9. CASE s = "ok"
  <2>1. r.track = track
    BY <1>2, <1>9, VlcRanges DEF VlcTracks, Tracks
  <2>2. VlcOwns'
    BY <1>1, <1>2, <1>9, <2>1 DEF VlcOwns
  <2>3. CASE r.kind = "rewind"
    <3>1. rewound
      BY <2>1, <2>3 DEF VlcPolls
    <3> QED BY <1>1, <1>5, <1>7, <2>2, <3>1 DEF VlcPolls
  <2>4. CASE r.kind \in {"setup", "retry"}
    <3>1. ~polling /\ ~advancing
      BY <1>6, <2>1, <2>4 DEF VlcTurns
    <3>2. VlcPolls'
      BY <1>1, <1>3, <1>4, <2>4, <3>1 DEF VlcPolls
    <3> QED BY <1>5, <1>7, <2>2, <3>2
  <2> QED BY <1>1, <2>3, <2>4 DEF TypeOK, Request
<1> QED BY <1>2, <1>8, <1>9

LEMMA VlcRetryFires ==
  ASSUME VlcAssumption, TypeOK, VlcParts, NEW t \in retryTimers, RetryFires(t)
  PROVE  VlcParts'
<1> USE DEF VlcParts, session, seeks, poll
<1> DEFINE new == [kind |-> "retry", track |-> track, to |-> t.to, rev |-> 0, st |-> "sent"]
<1>1. /\ retryTimers' = retryTimers \ {t}
      /\ requests' = IF t.track # track THEN requests ELSE requests \union {new}
      /\ UNCHANGED <<player, track, started, vlcMode, gone, timer, rewound, polling, generation,
                     polls, advancing>>
  BY DEF RetryFires
<1>2. new.kind = "retry" /\ new.track = track
  OBVIOUS
<1> HIDE DEF new
<1>3. CASE t.track # track
  BY <1>1, <1>3, VlcSteady DEF VlcEnded, VlcTracks
<1>4. CASE t.track = track
  <2>1. /\ t \in VlcTimers /\ VlcHas /\ ~polling /\ ~advancing /\ VlcLoads = {}
        /\ \A u \in VlcTimers : u = t
    BY <1>4 DEF VlcTimers, VlcHas, VlcTurns
  <2>2. VlcTimers' = {} /\ VlcLoads' = {new}
    BY <1>1, <1>2, <1>4, <2>1 DEF VlcTimers, VlcLoads
  <2>3. VlcTracks'
    BY <1>1, <1>2, <1>4, VlcRanges DEF VlcTracks
  <2>4. VlcTurns' /\ VlcOwns'
    BY <1>1, <2>1, <2>2 DEF VlcTurns, VlcOwns
  <2>5. VlcPolls'
    BY <1>1, <1>2, <2>1 DEF VlcPolls
  <2> QED BY <2>3, <2>4, <2>5
<1> QED BY <1>3, <1>4

\* Only the reply to the poll that runs counts: one that says the track ended is
\* from a player that still stands there.
LEMMA VlcPollReplies ==
  ASSUME VlcAssumption, TypeOK, VlcParts, NEW p \in polls, PollReply(p)
  PROVE  VlcParts'
<1> USE DEF VlcParts, session
<1>1. /\ polls' = polls \ {p} /\ rewound' = (rewound \/ (Fresh(p) /\ Rewound(p)))
      /\ UNCHANGED <<player, gone, track, started, vlcMode, timer>>
  BY DEF PollReply
<1>2. CASE ~Fresh(p)
  <2>1. UNCHANGED <<requests, polling, generation, retryTimers, advancing>>
    BY <1>2 DEF PollReply
  <2>2. rewound' = rewound
    BY <1>1, <1>2 DEF TypeOK
  <2> QED BY <1>1, <2>1, <2>2, VlcSteady DEF VlcEnded, VlcTracks
<1>3. CASE Fresh(p)
  <2> DEFINE new == [kind |-> "rewind", track |-> track, to |-> seekTarget, rev |-> seekRevision,
                     st |-> "sent"]
  <2>1. requests' = IF ~Rewound(p) THEN requests ELSE requests \union {new}
    BY <1>3 DEF PollReply
  <2>2. new.kind = "rewind" /\ new.track = track
    OBVIOUS
  <2> HIDE DEF new
  <2>3. /\ p.gen = generation /\ polling /\ ~advancing /\ VlcLoads = {} /\ VlcTimers = {}
        /\ player.track = track
    BY <1>3 DEF Fresh, VlcPolls, VlcTurns, VlcOwns, VlcHas
  <2>4. \A r \in requests' : r \in requests \/ (r = new /\ rewound')
    BY <1>1, <1>3, <2>1
  <2>5. VlcTracks /\ track <= started
    BY VlcRanges
  <2>6. (\A t \in retryTimers' : t.track <= started) => VlcTracks'
    BY <1>1, <2>2, <2>4, <2>5 DEF VlcTracks
  <2>7. VlcLoads' = {}
    BY <1>1, <2>2, <2>3, <2>4 DEF VlcLoads
  <2>8. ~rewound' => ~rewound /\ \A r \in requests' : r.kind = "rewind" => r.track # track'
    BY <1>1, <2>4 DEF VlcPolls
  <2>9. player'.track = track' /\ (VlcEnded' <=> VlcEnded) /\ vlcMode
    BY <1>1, <2>3, VlcRanges DEF VlcEnded
  <2>10. \/ UNCHANGED <<polling, generation, retryTimers, advancing>>
         \/ /\ p.state \in {"ended", "error"} /\ polling' = FALSE /\ generation' = generation + 1
            /\ \/ /\ ~advancing'
                  /\ \E to : retryTimers' = retryTimers \union {[track |-> track, to |-> to]}
               \/ retryTimers' = retryTimers
    BY <1>3, <2>3 DEF PollReply, StateChanges, HandleEnded, StopPoll
  <2>11. CASE UNCHANGED <<polling, generation, retryTimers, advancing>>
    <3>1. VlcTimers' = {}
      BY <1>1, <2>3, <2>11 DEF VlcTimers
    <3>2. VlcTurns' /\ VlcOwns' /\ VlcTracks'
      BY <1>1, <2>3, <2>6, <2>7, <2>9, <2>11, <3>1 DEF VlcTurns, VlcOwns, VlcTracks
    <3>3. VlcPolls'
      BY <1>1, <2>3, <2>8, <2>9, <2>11 DEF VlcPolls
    <3> QED BY <3>2, <3>3
  <2>12. CASE /\ p.state \in {"ended", "error"} /\ polling' = FALSE /\ generation' = generation + 1
              /\ \/ /\ ~advancing'
                    /\ \E to : retryTimers' = retryTimers \union {[track |-> track, to |-> to]}
                 \/ retryTimers' = retryTimers
    <3>1. (\A t, u \in VlcTimers' : t = u) /\ (advancing' => VlcTimers' = {})
      BY <1>1, <2>3, <2>12 DEF VlcTimers
    <3>6. \A t \in retryTimers' : t \in retryTimers \/ t.track = track
      BY <2>12
    <3>2. \A t \in retryTimers' : t.track <= started
      BY <2>5, <3>6 DEF VlcTracks
    <3>3. VlcTurns' /\ VlcOwns' /\ VlcTracks'
      BY <1>1, <2>6, <2>7, <2>9, <2>12, <3>1, <3>2 DEF VlcTurns, VlcOwns
    <3>4. ~rewound => VlcEnded
      BY <2>3, <2>12 DEF VlcPolls
    <3>5. VlcPolls'
      BY <1>1, <2>8, <2>9, <2>12, <3>4, VlcRanges DEF VlcPolls
    <3> QED BY <3>3, <3>5
  <2> QED BY <2>10, <2>11, <2>12
<1> QED BY <1>2, <1>3

LEMMA VlcStepKeeps ==
  ASSUME VlcAssumption, TypeOK, VlcParts, Next
  PROVE  VlcParts'
<1> USE DEF session, ui, mkit, transport, seeks, poll, ends, lost, bounds
<1> DEFINE Still == UNCHANGED <<gone, track, started, vlcMode, polling, generation, advancing, rewound,
                                timer, retryTimers, requests, polls>>
<1>1. ASSUME Still, player'.track = player.track, player'.phase = player.phase
      PROVE  VlcParts'
  BY <1>1, VlcSteady DEF VlcEnded, VlcParts, VlcTracks
<1>2. \A b : player' = [player EXCEPT !.paused = b] =>
        player'.track = player.track /\ player'.phase = player.phase
  BY DEF TypeOK
<1>3. \A q : EngineObeys(q) => player'.track = player.track /\ player'.phase = player.phase
  BY <1>2 DEF EngineObeys
<1>4. CASE \/ CommandTurn \/ CommandReply \/ CommandFails \/ MkNotifies \/ Touch
           \/ \E q \in Mode : Press(q)
  <2>1. Still /\ player' = player
    BY <1>4 DEF CommandTurn, CommandReply, CommandFails, MkNotifies, Touch,
                Press
  <2> QED BY <1>1, <2>1
<1>5. CASE EngineCommand \/ \E q \in Mode : EngineDirect(q)
  <2>1. Still /\ \E q : EngineObeys(q)
    BY <1>5 DEF EngineCommand, EngineDirect
  <2> QED BY <1>1, <1>3, <2>1
<1>6. CASE EngineRun
  <2>1. Still
    BY <1>6 DEF EngineRun
  <2>2. player.phase \in {"opening", "playing"} /\ player'.track = player.track
    BY <1>6 DEF EngineRun, EngineRuns, TypeOK
  <2> QED BY <2>1, <2>2, VlcSteady DEF VlcEnded, VlcParts, VlcTracks
<1>7. CASE SessionExpires
  <2>1. /\ gone \subseteq gone' /\ player' = player
        /\ UNCHANGED <<track, started, vlcMode, polling, generation, advancing, rewound, timer,
                       retryTimers, requests, polls>>
    BY <1>7 DEF SessionExpires
  <2> QED BY <2>1, VlcSteady DEF VlcEnded, VlcParts, VlcTracks
<1>8. CASE \E t \in Regions : SeekCall(t)
  BY <1>8, VlcSteady DEF SeekCall, SeekTo, VlcEnded
<1>24. CASE \E t \in resumes : Resume(t)
  <2>1. /\ player' = player /\ (timer' # None => vlcMode \/ timer' = timer)
        /\ UNCHANGED <<gone, track, started, vlcMode, polling, generation, advancing, rewound,
                       retryTimers, requests, polls>>
    BY <1>24 DEF Resume, SeekTo
  <2> QED BY <2>1, VlcSteady DEF VlcEnded, VlcParts, VlcTracks
<1>9. CASE SeekTimer
  <2>1. track <= started
    BY VlcRanges
  <2> QED BY <1>9, <2>1, VlcSteady DEF SeekTimer, VlcEnded
<1>10. ASSUME NEW r \in requests, EngineSeek(r)
       PROVE  VlcParts'
  <2>1. r.kind = "seek" /\ player'.track = player.track /\ (VlcEnded => player' = player)
    BY <1>10 DEF EngineSeek, TypeOK, VlcEnded
  <2>2. \E s : requests' = (requests \ {r}) \union {[r EXCEPT !.st = s]}
    BY <1>10 DEF EngineSeek, Swap
  <2>3. \A s : [r EXCEPT !.st = s].kind = "seek" /\ [r EXCEPT !.st = s].track = r.track
    BY <2>1 DEF TypeOK, Request
  <2>4. r.track <= started /\ (timer # None => vlcMode)
    BY DEF VlcParts, VlcTracks
  <2>5. \A q \in requests' : q \in requests \/ (q.kind = "seek" /\ q.track <= started)
    BY <2>2, <2>3, <2>4
  <2>6. UNCHANGED <<gone, track, started, vlcMode, polling, generation, advancing, rewound, timer,
                    retryTimers, polls>>
    BY <1>10 DEF EngineSeek
  <2> QED BY <2>1, <2>4, <2>5, <2>6, VlcSteady DEF VlcEnded
<1>11. ASSUME NEW r \in requests, SeekReply(r) \/ RewindReply(r) \/ RewindFails(r) \/ SetupFails(r)
       PROVE  VlcParts'
  <2>1. /\ requests' \subseteq requests /\ player' = player
        /\ UNCHANGED <<gone, track, started, vlcMode, polling, generation, advancing, rewound, timer,
                       retryTimers, polls>>
    BY <1>11 DEF SeekReply, RewindReply, RewindFails, SetupFails
  <2> QED BY <2>1, VlcSteady DEF VlcEnded, VlcParts, VlcTracks
<1>12. CASE TrackLeft \/ TrackReopened
  BY <1>12, VlcLeaves DEF TrackLeft, TrackReopened, Reopen
<1>13. CASE Setup
  BY <1>13, VlcSetup
<1>14. ASSUME NEW r \in requests, EngineLoad(r)
       PROVE  VlcParts'
  BY <1>14, VlcEngineLoads
<1>15. ASSUME NEW r \in requests, SetupLoaded(r)
       PROVE  VlcParts'
  <2>1. r \in VlcLoads
    BY <1>15 DEF SetupLoaded, VlcLoads
  <2> QED BY <1>15, <2>1, VlcPollBegins DEF SetupLoaded
<1>16. CASE PollRestart
  <2>1. /\ polling /\ polling' = TRUE /\ generation' = generation + 1 /\ player' = player
        /\ UNCHANGED <<gone, track, started, vlcMode, advancing, rewound, timer, retryTimers, requests,
                       polls>>
    BY <1>16 DEF PollRestart, StartPoll
  <2>2. VlcLoads' = VlcLoads /\ VlcTimers' = VlcTimers
    BY <2>1 DEF VlcLoads, VlcTimers
  <2>3. VlcTracks' /\ VlcTurns' /\ VlcOwns'
    BY <2>1, <2>2 DEF VlcParts, VlcTracks, VlcTurns, VlcOwns, VlcHas
  <2>4. VlcPolls'
    BY <2>1, VlcRanges DEF VlcParts, VlcPolls, VlcTurns
  <2> QED BY <2>3, <2>4 DEF VlcParts
<1>17. CASE PollTick
  <2>1. /\ polling /\ player' = player
        /\ UNCHANGED <<gone, track, started, vlcMode, polling, generation, advancing, rewound, timer,
                       retryTimers, requests>>
        /\ \A p \in polls' : p \in polls \/ (p.gen = generation /\ p.state = "none")
    BY <1>17 DEF PollTick
  <2> QED BY <2>1, VlcRanges, VlcSteady DEF VlcEnded, VlcParts, VlcTracks
<1>18. ASSUME NEW p \in polls, PollSample(p)
       PROVE  VlcParts'
  <2> DEFINE new == [p EXCEPT !.state = Reported, !.pos = player.pos, !.eof = player.eof]
  <2>1. /\ player' = player /\ polls' = (polls \ {p}) \union {new}
        /\ UNCHANGED <<gone, track, started, vlcMode, polling, generation, advancing, rewound, timer,
                       retryTimers, requests>>
    BY <1>18 DEF PollSample
  <2>2. new.gen = p.gen /\ new.state = Reported
    BY DEF TypeOK, Poll
  <2>3. Reported \in {"ended", "error"} => VlcEnded
    BY DEF Reported, VlcEnded
  <2>4. p.gen <= generation /\ (p.gen = generation => polling)
    BY DEF VlcParts, VlcPolls
  <2> HIDE DEF new
  <2> QED BY <2>1, <2>2, <2>3, <2>4, VlcSteady DEF VlcEnded, VlcParts, VlcTracks
<1>19. ASSUME NEW p \in polls, PollReply(p)
       PROVE  VlcParts'
  BY <1>19, VlcPollReplies
<1>20. ASSUME NEW p \in polls, PollFails(p)
       PROVE  VlcParts'
  BY <1>20, VlcSteady DEF PollFails, VlcEnded, VlcParts, VlcTracks
<1>21. ASSUME NEW t \in retryTimers, RetryFires(t)
       PROVE  VlcParts'
  BY <1>21, VlcRetryFires
<1>22. ASSUME NEW r \in requests, RetryReply(r)
       PROVE  VlcParts'
  <2>1. requests' = requests \ {r} /\ player' = player
    BY <1>22 DEF RetryReply
  <2>2. CASE r.st = "refused" /\ track # 0
    BY <1>22, <2>1, <2>2, VlcLeaves DEF RetryReply, Reopen
  <2>4. CASE r.st = "refused" /\ track = 0
    <3>1. UNCHANGED <<gone, track, started, vlcMode, polls, advancing, rewound, timer, retryTimers,
                      polling, generation>>
      BY <1>22, <2>4 DEF RetryReply
    <3> QED BY <2>1, <3>1, VlcSteady DEF VlcEnded, VlcParts, VlcTracks
  <2>3. CASE r.st # "refused"
    <3>1. UNCHANGED <<gone, track, started, vlcMode, polls, advancing, rewound, timer, retryTimers>>
      BY <1>22, <2>3 DEF RetryReply
    <3>2. CASE r.track # track
      <4>1. UNCHANGED <<polling, generation>>
        BY <1>22, <2>3, <3>2 DEF RetryReply
      <4> QED BY <2>1, <3>1, <4>1, VlcSteady DEF VlcEnded, VlcParts, VlcTracks
    <3>3. CASE r.track = track
      <4>1. StartPoll /\ r.kind = "retry"
        BY <1>22, <2>3, <3>3 DEF RetryReply
      <4>2. r \in VlcLoads
        BY <3>3, <4>1 DEF VlcLoads
      <4> QED BY <2>1, <3>1, <4>1, <4>2, VlcPollBegins
    <3> QED BY <3>2, <3>3
  <2> QED BY <2>2, <2>3, <2>4
<1>23. ASSUME NEW r \in requests, RetryFails(r)
       PROVE  VlcParts'
  <2>1. /\ requests' = requests \ {r} /\ player' = player /\ r.kind = "retry"
        /\ UNCHANGED <<gone, track, started, vlcMode, polls, advancing, rewound, timer, retryTimers>>
    BY <1>23 DEF RetryFails
  <2>2. CASE r.track # track
    <3>1. UNCHANGED <<polling, generation>>
      BY <1>23, <2>2 DEF RetryFails
    <3> QED BY <2>1, <3>1, VlcSteady DEF VlcEnded, VlcParts, VlcTracks
  <2>3. CASE r.track = track
    <3>1. StartPoll /\ r \in VlcLoads
      BY <1>23, <2>1, <2>3 DEF RetryFails, VlcLoads
    <3> QED BY <2>1, <3>1, VlcPollBegins
  <2> QED BY <2>2, <2>3
<1> QED
  BY <1>4, <1>5, <1>6, <1>7, <1>8, <1>9, <1>10, <1>11, <1>12, <1>13, <1>14, <1>15, <1>16, <1>17,
     <1>18, <1>19, <1>20, <1>21, <1>22, <1>23, <1>24
  DEF Next, Renderer, Reply, Engine, PollStep

\* No sample, reply or retry, in whatever order they come, moves the queue on from
\* a track that plays on, whatever the number of tracks, presses and faults: it moves
\* on only when the player of that track has ended or broken, unless a seek had the
\* track loaded again.
THEOREM NothingIsEverSkipped == Spec => []NothingIsSkipped
<1>1. Init => VlcInv
  BY VlcAssumption, VlcInitEstablishes
<1>2. VlcInv /\ [Next]_vars => VlcInv'
  <2>1. CASE Next
    BY <2>1, VlcAssumption, VlcTypes, VlcStepKeeps DEF VlcInv, VlcParts
  <2>2. CASE UNCHANGED vars
    <3>1. VlcInv => TypeOK'
      BY <2>2 DEF vars, session, ui, mkit, transport, seeks, poll,
                  ends, lost, bounds, TypeOK, VlcInv
    <3>2. VlcInv => VlcParts'
      BY <2>2, VlcAssumption, VlcSteady
      DEF vars, session, seeks, poll, ends, lost, VlcInv, VlcParts,
                             VlcEnded, VlcTracks
    <3> QED BY <3>1, <3>2 DEF VlcInv, VlcParts
  <2> QED BY <2>1, <2>2
<1>3. VlcInv => NothingIsSkipped
  <2>1. VlcInv /\ advancing => player.track = track
    BY DEF VlcInv, VlcOwns, VlcHas
  <2> QED BY <2>1 DEF VlcInv, VlcPolls, VlcEnded, NothingIsSkipped, AdvanceIsEarned
<1> QED BY <1>1, <1>2, <1>3, PTL DEF Spec
=============================================================================
