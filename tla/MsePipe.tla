------------------------------- MODULE MsePipe -------------------------------
(***************************************************************************)
(* One AAC track in the renderer (electron/src/engine-playback.js): a pipe *)
(* reads the engine's stream and appends it to a SourceBuffer; a seek      *)
(* outside the buffer replaces the pipe, either by appending the chunks    *)
(* kept in _chunkCache again and resuming the stream after them, or by a   *)
(* stream that starts at the target.  Seeks may overlap: each is an        *)
(* operation, "pc" says at which await it stands.                          *)
(* The track is a sequence of Last chunks; time is counted in chunks.      *)
(***************************************************************************)
EXTENDS Integers, FiniteSets, FiniteSetsExt

CONSTANTS
  Last,       \* the number of chunks of the track
  Forward,    \* chunks kept ahead of the playhead (FORWARD_SECS)
  Backward,   \* chunks kept behind it (BACKWARD_SECS)
  CacheCap,   \* chunks the cache takes (80 MB)
  MaxOps,     \* bound: the first pipe and the seeks
  None

Chunks == 1 .. Last
Ops    == 1 .. MaxOps

PipeAssumption == /\ Last \in Nat \ {0} /\ MaxOps \in Nat \ {0} /\ None \notin Int
                  /\ Forward \in Nat /\ Backward \in Nat /\ CacheCap \in Nat

VARIABLES
  ops,             \* the operations begun
  used,            \* how many
  pipeCtrl,        \* the operation that owns _pipeCtrl, 0 for none
  seekCtrl,        \* the one that owns _seekFetchCtrl
  buffered,        \* chunks in the SourceBuffer
  window,          \* appendWindowStart
  ended,           \* ms.readyState is "ended", else "open"
  current,         \* the chunk at audio.currentTime
  cache,           \* _chunkCache
  streamComplete, seekTarget,
  left             \* the track was reset (_resetPlaybackState)

media == <<buffered, window, ended, current>>
owners == <<pipeCtrl, seekCtrl>>
vars == <<ops, used, pipeCtrl, seekCtrl, buffered, window, ended, current, cache,
          streamComplete, seekTarget, left>>

Pcs == {"none", "fetch",       \* the stream is asked for
        "idle", "remove",      \* a network seek waits for the SourceBuffer
        "clear", "inject",     \* a cache seek empties the buffer and appends the cache
        "finish",              \* it waits for its last append
        "resume",              \* it asks for the rest of the stream
        "read", "append",      \* the loop of pipeToSourceBuffer
        "end"}
Op == [kind : {"first", "cache", "net"}, pc : Pcs, target : Chunks, pos : 1 .. Last + 1,
       aborted : BOOLEAN,      \* its pipe controller
       complete : BOOLEAN,     \* wasStreamComplete
       todo : SUBSET Chunks,   \* cached chunks not appended yet
       canplay : BOOLEAN,      \* its canplay listener is waiting
       overtaken : BOOLEAN]    \* another seek had begun when it claimed the player
NoOp == [kind |-> "first", pc |-> "none", target |-> 1, pos |-> 1, aborted |-> FALSE,
         complete |-> FALSE, todo |-> {}, canplay |-> FALSE, overtaken |-> FALSE]

TypeOK ==
  /\ ops \in [Ops -> Op] /\ used \in Ops
  /\ pipeCtrl \in 0 .. MaxOps /\ seekCtrl \in 0 .. MaxOps
  /\ buffered \subseteq Chunks /\ window \in 0 .. Last /\ current \in Chunks
  /\ cache \subseteq Chunks /\ Cardinality(cache) <= CacheCap
  /\ seekTarget \in Chunks \union {None}
  /\ {ended, streamComplete, left} \subseteq BOOLEAN

\* _setupMSEPath has opened the MediaSource and starts the first pipe.
Init ==
  /\ ops = [o \in Ops |-> IF o = 1 THEN [NoOp EXCEPT !.pc = "fetch"] ELSE NoOp]
  /\ used = 1 /\ pipeCtrl = 1 /\ seekCtrl = 0
  /\ buffered = {} /\ window = 0 /\ ended = FALSE /\ current = 1 /\ cache = {}
  /\ streamComplete = FALSE /\ seekTarget = None /\ left = FALSE

------------------------------------------------------------------------------
\* The pipe.

Go(o, pc) == ops' = [ops EXCEPT ![o].pc = pc]
Stop(o)   == ops' = [ops EXCEPT ![o] = [@ EXCEPT !.pc = "end", !.todo = {}, !.target = 1]]

\* The answer to the first fetch, to a resumed one, or an error.
Fetched(o) ==
  /\ ops[o].kind = "first" /\ ops[o].pc = "fetch"
  /\ IF ops[o].aborted THEN Stop(o) ELSE Go(o, "read")
  /\ UNCHANGED <<used, owners, media, cache, streamComplete, seekTarget, left>>

\* _mseRecoverPipe after a failed pipe: the stream is asked for again from the
\* end of the buffer, once; else the track stays as it is.
BufferEnd(default) == IF buffered = {} THEN default ELSE Max(buffered) + 1
ReadFails(o) ==
  /\ ops[o].kind = "first" /\ ops[o].pc = "read" /\ ~ops[o].aborted /\ ~ops[o].complete
  /\ ops' = [ops EXCEPT ![o] = [@ EXCEPT
       !.complete = TRUE, !.pos = IF BufferEnd(1) > 2 THEN BufferEnd(1) ELSE 1]]
  /\ UNCHANGED <<used, owners, media, cache, streamComplete, seekTarget, left>>

\* A chunk arrives and is kept in the cache of its session, up to its limit.
CacheChunk(c) ==
  cache' = IF left \/ Cardinality(cache) >= CacheCap THEN cache ELSE cache \union {c}

\* What lies further than Backward behind the playhead is removed from the buffer.
Evicted == {c \in buffered : c < current - Backward}

Read(o) ==
  /\ ops[o].pc = "read" /\ ops[o].pos <= Last
  /\ IF ops[o].aborted THEN Stop(o) /\ UNCHANGED <<cache, buffered>>
     ELSE /\ CacheChunk(ops[o].pos) /\ Go(o, "append")
          /\ buffered' = buffered \ Evicted
  /\ UNCHANGED <<used, owners, window, ended, current, streamComplete, seekTarget, left>>

\* _throttleForward: enough is buffered ahead of the playhead.
Throttled == ~ended /\ buffered # {} /\ Max(buffered) - current > Forward

\* appendBuffer, which opens an ended MediaSource again.
AppendChunk(c) ==
  /\ buffered' = IF c >= window THEN buffered \union {c} ELSE buffered
  /\ ended' = FALSE

\* Mutant: the abort is not looked at while the pipe is throttled.
AppendDeaf(o) ==
  /\ ops[o].pc = "append" /\ ~Throttled
  /\ IF ops[o].aborted THEN Stop(o) /\ UNCHANGED <<buffered, ended>>
     ELSE AppendChunk(ops[o].pos)
          /\ ops' = [ops EXCEPT ![o] = [@ EXCEPT !.pc = "read", !.pos = ops[o].pos + 1]]
  /\ UNCHANGED <<used, owners, window, current, cache, streamComplete, seekTarget, left>>

Append(o) ==
  /\ ops[o].pc = "append"
  /\ IF ops[o].aborted THEN Stop(o) /\ UNCHANGED <<buffered, ended>>
     ELSE /\ ~Throttled
          /\ AppendChunk(ops[o].pos)
          /\ ops' = [ops EXCEPT ![o] = [@ EXCEPT !.pc = "read", !.pos = ops[o].pos + 1]]
  /\ UNCHANGED <<used, owners, window, current, cache, streamComplete, seekTarget, left>>

\* Mutant: the end of the stream is not held back by the abort.
StreamEndBlind(o) ==
  /\ ops[o].pc = "read" /\ ops[o].pos > Last /\ Stop(o)
  /\ ended' = TRUE /\ streamComplete' = TRUE
  /\ UNCHANGED <<used, owners, buffered, window, current, cache, seekTarget, left>>

\* The stream is read to its end.
StreamEnd(o) ==
  /\ ops[o].pc = "read" /\ ops[o].pos > Last /\ Stop(o)
  /\ IF ~ops[o].aborted /\ ~ended
     THEN ended' = TRUE /\ streamComplete' = TRUE
     ELSE UNCHANGED <<ended, streamComplete>>
  /\ UNCHANGED <<used, owners, buffered, window, current, cache, seekTarget, left>>

\* The element plays what is buffered.
Play ==
  /\ current \in buffered /\ current + 1 \in buffered /\ ~left
  /\ current' = current + 1
  /\ UNCHANGED <<ops, used, owners, buffered, window, ended, cache, streamComplete, seekTarget,
                 left>>

------------------------------------------------------------------------------
\* Seeks.

\* Mutant: the pipe of the previous operation is left running.
AbortNone == [o \in Ops |-> ops[o]]
\* _pipeCtrl.abort()
AbortPipe == [o \in Ops |-> IF o = pipeCtrl THEN [ops[o] EXCEPT !.aborted = TRUE] ELSE ops[o]]

\* mk.seekToTime moves the playhead; its seeking event calls mseSeekToTime.
SeekBuffered(t) ==
  /\ t \in buffered
  /\ current' = t /\ seekTarget' = None
  /\ UNCHANGED <<ops, used, owners, buffered, window, ended, cache, streamComplete>>

\* The same target again is taken for the seek under way.
Guarded(t) ==
  /\ seekTarget = t /\ current' = t
  /\ UNCHANGED <<ops, used, owners, buffered, window, ended, cache, streamComplete, seekTarget>>

\* _mseCacheSeek
CacheSeek(t) ==
  LET o == used + 1 IN
  /\ cache # {} /\ seekTarget # t /\ used < MaxOps
  /\ used' = o /\ pipeCtrl' = o /\ seekCtrl' = o
  /\ ops' = [AbortPipe EXCEPT ![o] = [NoOp EXCEPT
       !.kind = "cache", !.pc = "clear", !.target = t, !.complete = streamComplete,
       !.todo = cache, !.canplay = TRUE]]
  /\ streamComplete' = FALSE /\ seekTarget' = t /\ current' = t
  /\ UNCHANGED <<buffered, window, ended, cache>>

\* _mseNetworkSeek up to its fetch: the pipe goes on until the answer.
NetworkSeek(t) ==
  LET o == used + 1 IN
  /\ cache = {} /\ (streamComplete \/ seekTarget # t) /\ used < MaxOps
  /\ used' = o /\ seekCtrl' = o /\ UNCHANGED pipeCtrl
  /\ ops' = [ops EXCEPT ![o] = [NoOp EXCEPT !.kind = "net", !.pc = "fetch", !.target = t]]
  /\ streamComplete' = FALSE /\ seekTarget' = t /\ current' = t
  /\ UNCHANGED <<buffered, window, ended, cache>>

Seek(t) ==
  /\ ~left /\ UNCHANGED left
  /\ \/ SeekBuffered(t)
     \/ t \notin buffered /\ (Guarded(t) \/ CacheSeek(t) \/ NetworkSeek(t))

\* The answer to a network seek, an error, or the abort by a later seek, which
\* leaves seekTarget as it is.
SeekFetched(o) ==
  /\ ops[o].kind = "net" /\ ops[o].pc = "fetch"
  /\ \/ /\ seekCtrl = o /\ ~left
        /\ ops' = [AbortPipe EXCEPT ![o].pc = "idle"] /\ pipeCtrl' = 0
     \/ /\ Stop(o) /\ UNCHANGED pipeCtrl
  /\ UNCHANGED <<used, seekCtrl, media, cache, streamComplete, seekTarget, left>>

\* The buffer is idle: everything is removed from it.
SeekRemove(o) ==
  /\ ops[o].pc = "idle"
  /\ buffered' = (IF ended THEN buffered ELSE {})
  /\ Go(o, "remove")
  /\ UNCHANGED <<used, owners, window, ended, current, cache, streamComplete, seekTarget, left>>

\* Idle again: the seek claims window, playhead and pipe without looking whether
\* another seek began while it waited.
SeekClaims(o) ==
  /\ ops[o].pc = "remove"
  /\ window' = ops[o].target /\ current' = ops[o].target /\ pipeCtrl' = o
  /\ ops' = [ops EXCEPT ![o] = [@ EXCEPT !.pc = "read", !.pos = ops[o].target, !.canplay = TRUE,
                                         !.overtaken = seekCtrl # o \/ left]]
  /\ UNCHANGED <<used, seekCtrl, buffered, ended, cache, streamComplete, seekTarget, left>>

\* A stream whose own request was aborted by a later seek fails at its next read.
ReadAborted(o) ==
  /\ ops[o].kind = "net" /\ ops[o].pc = "read" /\ (seekCtrl # o \/ left)
  /\ Stop(o)
  /\ UNCHANGED <<used, owners, media, cache, streamComplete, seekTarget, left>>

\* Seeks that wait for the same append go on in turn: none empties the buffer before
\* one that it replaced during the last append went on.
NobodyFinishes == \A p \in Ops : ops[p].pc # "finish"

\* _mseCacheReInjectBody: an aborted seek, or one in a MediaSource that is not
\* open, returns here.
CacheClear(o) ==
  /\ ops[o].pc = "clear" /\ NobodyFinishes
  /\ IF ops[o].aborted \/ ended
     THEN Stop(o) /\ UNCHANGED <<buffered, window>>
     ELSE /\ buffered' = {} /\ window' = ops[o].target /\ Go(o, "inject")
  /\ UNCHANGED <<used, owners, ended, current, cache, streamComplete, seekTarget, left>>

\* Cached chunks are appended in order; a buffer that is full ends the seek.
CacheInject(o) ==
  /\ ops[o].pc = "inject" /\ ops[o].todo # {}
  /\ IF ops[o].aborted \/ ended THEN Stop(o) /\ UNCHANGED <<buffered, ended>>
     ELSE /\ AppendChunk(Min(ops[o].todo))
          /\ ops' = [ops EXCEPT ![o].todo = @ \ {Min(@)}]
  /\ UNCHANGED <<used, owners, window, current, cache, streamComplete, seekTarget, left>>

\* An append that fails ends the seek, too.
InjectFull(o) ==
  /\ (ops[o].pc = "inject" /\ ops[o].todo # {}) \/ ops[o].pc = "finish"
  /\ Stop(o)
  /\ UNCHANGED <<used, owners, media, cache, streamComplete, seekTarget, left>>

\* _mseFinalizeCacheInject: everything is appended; the seek sees whether it still
\* owns the player, and then waits until the last append is done.
CacheFinalize(o) ==
  /\ ops[o].pc = "inject" /\ ops[o].todo = {}
  /\ IF ops[o].aborted \/ seekCtrl # o THEN Stop(o) ELSE Go(o, "finish")
  /\ UNCHANGED <<used, owners, media, cache, streamComplete, seekTarget, left>>

\* The append is done: the end of a stream that was complete, whoever owns the player
\* by now, else the rest of the stream after what is buffered.
CacheFinish(o) ==
  /\ ops[o].pc = "finish"
  /\ IF ops[o].complete
     THEN Stop(o) /\ ended' = TRUE /\ streamComplete' = (streamComplete \/ ~ended)
     ELSE /\ ops' = [ops EXCEPT ![o] = [@ EXCEPT !.pc = "resume", !.pos = BufferEnd(ops[o].target)]]
          /\ UNCHANGED <<ended, streamComplete>>
  /\ UNCHANGED <<used, owners, buffered, window, current, cache, seekTarget, left>>

CacheResume(o) ==
  /\ ops[o].pc = "resume"
  /\ \/ ~ops[o].aborted /\ seekCtrl = o /\ Go(o, "read")
     \/ Stop(o)
  /\ UNCHANGED <<used, owners, media, cache, streamComplete, seekTarget, left>>

\* The element can play at the playhead: the listeners of the seeks run, and
\* those that were not aborted give the window and the guard free.
CanPlay ==
  LET L == {o \in Ops : ops[o].canplay} IN
  /\ current \in buffered /\ L # {}
  /\ ops' = [o \in Ops |-> [ops[o] EXCEPT !.canplay = FALSE]]
  /\ IF \E o \in L : ~ops[o].aborted THEN window' = 0 /\ seekTarget' = None
     ELSE UNCHANGED <<window, seekTarget>>
  /\ UNCHANGED <<used, owners, buffered, ended, current, cache, streamComplete, left>>

\* The track is left: what is registered as pipe and as seek is aborted.
Leave ==
  /\ ~left /\ left' = TRUE
  /\ ops' = AbortPipe /\ pipeCtrl' = 0 /\ seekCtrl' = 0
  /\ cache' = {} /\ streamComplete' = FALSE /\ seekTarget' = None
  /\ UNCHANGED <<used, media>>

OpStep(o) ==
  \/ Fetched(o) \/ Read(o) \/ Append(o) \/ StreamEnd(o)
  \/ SeekFetched(o) \/ SeekRemove(o) \/ SeekClaims(o) \/ ReadAborted(o)
  \/ CacheClear(o) \/ CacheInject(o) \/ CacheFinalize(o) \/ CacheFinish(o) \/ CacheResume(o)

Next ==
  \/ \E o \in Ops : OpStep(o) \/ ReadFails(o) \/ InjectFull(o)
  \/ \E t \in Chunks : Seek(t)
  \/ Play \/ CanPlay \/ Leave

\* Requests are answered, the SourceBuffer gets idle, the element plays.
Spec == Init /\ [][Next]_vars /\ (\A o \in Ops : WF_vars(OpStep(o)))
             /\ WF_vars(CanPlay) /\ WF_vars(Play)

------------------------------------------------------------------------------
Feeds(o) == ops[o].pc \in {"read", "append", "inject", "finish", "resume"} /\ ~ops[o].aborted

\* Overlapping seeks never leave two operations that append to the buffer, and
\* none goes on in a track that was left, except when a network seek claimed the
\* player after a later seek had begun.
OneFeeder ==
  \A o \in Ops : Feeds(o) /\ (\A p \in Ops : ~ops[p].overtaken) =>
    ~left /\ \A p \in Ops : Feeds(p) => p = o

\* The buffer and the cache behind it are of one track, fed by one operation.
FeedIsSafe == TypeOK /\ OneFeeder

\* A track is declared complete because the operation that owns the pipe read its
\* stream to the end: a pipe that a seek replaced never ends the stream for its
\* successor, which would cut the track.  One operation may: a seek out of the cache of
\* a complete stream, which was replaced while it waited for its last append (1648).
\* Then its successor has not begun to feed the buffer.
CompletesAsOwner ==
  (ended' /\ ~ended) \/ (streamComplete' /\ ~streamComplete) =>
    \/ \E o \in Ops : ops[o].overtaken
    \/ /\ pipeCtrl # 0 /\ ops[pipeCtrl].pc = "read" /\ ops'[pipeCtrl].pc = "end"
       /\ ops[pipeCtrl].pos > Last
    \/ \E o \in Ops : /\ ops[o].pc = "finish" /\ ops'[o].pc = "end" /\ ops[o].complete
                       /\ \A p \in Ops : Feeds(p) => p = o
CompleteByItsOwner == [][CompletesAsOwner]_vars

Begun(o) == ops[o].pc # "none"
Rests(o) == ops[o].pc = "end" \/ (ops[o].pc = "append" /\ Throttled /\ ~ops[o].aborted)

\* Every pipe and every seek ends, or waits only for the playhead to move on, and
\* one that was aborted does not wait even for that.
EveryOperationEnds == \A o \in Ops : Begun(o) ~> Rests(o)
=============================================================================
