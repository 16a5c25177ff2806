----------------------------- MODULE TrackChange -----------------------------
(***************************************************************************)
(* How the renderer changes tracks (electron/src/engine-playback.js).      *)
(* MusicKit announces an item (NPIDF) and handleTrackChange runs; a click  *)
(* on a play button may start _triggerDirectPlay before that.  Both open a *)
(* session of the engine and hand it to one of three players: MSE for AAC, *)
(* libvlc for ALAC, the music video pipeline.  Every await may be overtaken*)
(* by a newer change: a change is an attempt, numbered by _generation, and *)
(* "pc" says at which await it stands.  Warm sessions (next track, hover)  *)
(* are opened in the background and claimed by the attempt that needs them.*)
(*                                                                         *)
(* The engine is external: a POST answers with the live session of the     *)
(* same asset and capabilities when there is one, a DELETE releases it,    *)
(* and both travel on connections of their own, in no order.               *)
(***************************************************************************)
EXTENDS Integers, Sequences, FiniteSets, FiniteSetsExt, SequencesExt

CONSTANTS
  Aac, Alac, Mv,   \* catalog tracks: without, with a lossless version; videos
  MaxGen,          \* bound: attempts
  MaxSessions,     \* bound: sessions the engine opens
  MaxWarm,         \* bound: background opens
  HoverCap,        \* hover sessions kept (4 in the code)
  None

Tracks == Aac \union Alac \union Mv
Gens   == 1 .. MaxGen
Sids   == 1 .. MaxSessions
Slots  == {"alac", "aac", "mv"}
Paths  == {"aac", "alac", "mv"}
Opened == [track : Tracks, path : Paths]
Warmth == [track : Tracks, sid : Sids]

TrackAssumption == /\ None \notin Tracks /\ Aac \intersect Alac = {}
                   /\ Mv \intersect (Aac \union Alac) = {}
                   /\ MaxGen \in Nat /\ MaxSessions \in Nat /\ MaxWarm \in Nat
                   /\ HoverCap \in Nat \ {0} /\ None \notin Int
                   /\ None \notin Opened /\ None \notin Warmth

VARIABLES
  opened,      \* engine: per session, the track and the path it plays through
  live,        \* engine: the sessions not released
  deletes,     \* DELETE requests on their way
  vlcPlays,    \* libvlc: silent, playing, playing what a client that had gone asked for
               \* (late), or with _vlcLive cleared since (forgotten)
  generation, attempts, ctrl,               \* _generation, one record each, owner of _abortCtrl
  sessionId, assetId, playState, vlcLive, vlcMode,
  lossless,                                 \* _engineCaps.lossless
  gate, direct, directGen,                  \* _allowCDNTransition, _directPlay*
  slots, tried, warming, warmed, hover,     \* _next*Session, _next*Tried, opens in flight, _hoverSessions
  streamOf                                  \* session of _nextAacStreamResp

engine  == <<opened, live, vlcPlays>>
clicks  == <<gate, direct, directGen>>
warmVars == <<slots, tried, warming, warmed, hover, streamOf>>
current == <<sessionId, assetId, playState, vlcMode, generation, ctrl>>
vars == <<opened, live, deletes, vlcPlays, generation, attempts, ctrl, sessionId, assetId,
          playState, vlcLive, vlcMode, lossless, gate, direct, directGen,
          slots, tried, warming, warmed, hover, streamOf>>

PlayStates == {"idle", "opening", "streaming", "complete"}
Pcs == {"none", "lossless",  \* in waitForLossless
        "post", "reply",     \* POST /playback on its way; its answer on its way back
        "handoff",           \* in leaveLossless: the stop is on its way
        "stopped",           \* its answer is
        "attach",            \* in _setupMSEPath, until sourceopen
        "load", "loaded",    \* in _setupVLCPath: vlc/load on its way; answered
        "run",               \* the player has the track
        "recheck",           \* overtaken: the 5 s timer that looks at the session again
        "done"}
Attempt == [kind : {"htc", "direct"}, track : Tracks \union {None}, pc : Pcs,
            sid : Sids \union {None}, path : Paths, aborted : BOOLEAN, failed : BOOLEAN]
NoAttempt == [kind |-> "htc", track |-> None, pc |-> "none", sid |-> None, path |-> "aac",
              aborted |-> FALSE, failed |-> FALSE]

TypeOK ==
  /\ opened \in [Sids -> Opened \union {None}]
  /\ live \subseteq Sids /\ deletes \subseteq Sids /\ vlcPlays \in {"silent", "playing", "late", "forgotten"}
  /\ generation \in 0 .. MaxGen /\ ctrl \in 0 .. MaxGen /\ directGen \in 0 .. MaxGen
  /\ attempts \in [Gens -> Attempt]
  /\ sessionId \in Sids \union {None} /\ playState \in PlayStates
  /\ {assetId, direct} \subseteq Tracks \union {None}
  /\ {vlcLive, vlcMode, lossless, gate} \subseteq BOOLEAN
  /\ slots \in [Slots -> Warmth \union {None}] /\ tried \in [Slots -> BOOLEAN]
  /\ warming \subseteq [slot : Slots \union {"hover"}, track : Tracks, path : Paths,
                        sid : Sids \union {None}]
  /\ warmed \in 0 .. MaxWarm
  /\ hover \in Seq(Warmth) /\ Len(hover) <= HoverCap
  /\ streamOf \in Sids \union {None}

Init ==
  /\ opened = [s \in Sids |-> None] /\ live = {} /\ deletes = {} /\ vlcPlays = "silent"
  /\ generation = 0 /\ ctrl = 0 /\ attempts = [g \in Gens |-> NoAttempt]
  /\ sessionId = None /\ assetId = None /\ playState = "idle"
  /\ vlcLive = FALSE /\ vlcMode = FALSE /\ lossless = FALSE
  /\ gate = FALSE /\ direct = None /\ directGen = 0
  /\ slots = [w \in Slots |-> None] /\ tried = [w \in Slots |-> FALSE]
  /\ warming = {} /\ warmed = 0 /\ hover = <<>> /\ streamOf = None

\* Mutant: answers are not checked against the newest change.
NeverStale(g) == FALSE

genStale(g) == g # generation

\* deleteSession posts a DELETE for the sessions in S, once each.
Delete(S) == deletes' = deletes \union (S \intersect live)

------------------------------------------------------------------------------
\* The engine.

\* The path a session for t plays through, by the capabilities it was asked for.
PathOf(t, wantLossless) ==
  IF t \in Mv THEN "mv" ELSE IF wantLossless /\ t \in Alac THEN "alac" ELSE "aac"

\* POST /api/v1/playback: the live session of the same key, else a new one.
OpenSession(t, path, s) ==
  LET same == {x \in live : opened[x] = [track |-> t, path |-> path]}
      free == {x \in Sids : opened[x] = None}
  IN  IF same # {} THEN s \in same /\ UNCHANGED <<opened, live>>
      ELSE /\ free # {} /\ s = Min(free)
           /\ opened' = [opened EXCEPT ![s] = [track |-> t, path |-> path]]
           /\ live' = live \union {s}

EngineDelete ==
  \E s \in deletes :
    /\ deletes' = deletes \ {s} /\ live' = live \ {s}
    /\ UNCHANGED <<opened, vlcPlays, attempts, vlcLive>>
    /\ UNCHANGED <<current, clicks, warmVars, lossless>>

\* The DRM backend reports that lossless is available.
CapsReport ==
  /\ ~lossless /\ lossless' = TRUE
  /\ UNCHANGED <<engine, deletes, attempts, vlcLive, current, clicks, warmVars>>

------------------------------------------------------------------------------
\* A new attempt.

\* _resetPlaybackState and the start of an attempt at track t: the previous
\* player is aborted and its session deleted; warm sessions are kept.
Begin(kind, t, discarded) ==
  LET g == generation + 1 IN
  /\ generation < MaxGen
  /\ generation' = g
  /\ attempts' = [i \in Gens |->
       IF i = g THEN [NoAttempt EXCEPT !.kind = kind, !.track = t, !.pc = "lossless"]
       ELSE IF i = ctrl THEN [attempts[i] EXCEPT !.aborted = TRUE] ELSE attempts[i]]
  /\ ctrl' = 0 /\ sessionId' = None /\ vlcMode' = FALSE
  /\ tried' = [w \in Slots |-> FALSE]
  /\ playState' = "opening"
  /\ Delete({sessionId} \union discarded)

\* A click on a play button while the gate is closed and libvlc is not playing
\* opens the CDN gate; a song is started at once by _triggerDirectPlay.
Click(t) ==
  /\ ~vlcMode /\ ~gate
  /\ gate' = TRUE
  /\ IF t \in Mv
     THEN UNCHANGED <<deletes, attempts, current, direct, directGen, tried>>
     ELSE /\ Begin("direct", t, {})
          /\ assetId' = None
          /\ direct' = t /\ directGen' = generation'
  /\ UNCHANGED <<engine, vlcLive, lossless, slots, warming, warmed, hover, streamOf>>

\* The safety timeout of the gate.
GateTimeout ==
  /\ gate /\ gate' = FALSE
  /\ UNCHANGED <<engine, deletes, attempts, vlcLive, current, lossless, warmVars,
                 direct, directGen>>

\* _htcConfirmDirectPlay: the item announced is the one a click started.
Confirmed(t) == direct # None /\ direct = t /\ directGen = generation

\* _htcDiscardStalePrewarms: warm sessions of other tracks are given up.
Stale(t) == {w \in Slots : slots[w] # None /\ slots[w].track # t}

\* _closeCDNGate restores MusicKit's methods and forgets the pending click.
CloseCDNGate == gate' = FALSE

\* handleTrackChange up to its first await, for the item t that MusicKit plays
\* now.  A handler that found no item waits 200 ms for one and goes on unless
\* another change began: that is this step too, taken at the later time.
TrackChange(t) ==
  /\ CloseCDNGate
  /\ IF Confirmed(t)
     THEN /\ directGen' = 0 /\ assetId' = t
          /\ UNCHANGED <<deletes, attempts, direct, sessionId, playState, vlcMode, generation,
                         ctrl, tried, slots, streamOf>>
     ELSE /\ Begin("htc", t, {slots[w].sid : w \in Stale(t)})
          /\ direct' = None /\ directGen' = 0 /\ assetId' = t
          /\ slots' = [w \in Slots |-> IF w \in Stale(t) THEN None ELSE slots[w]]
          /\ streamOf' = IF "aac" \in Stale(t) THEN None ELSE streamOf
  /\ UNCHANGED <<engine, vlcLive, lossless, warming, warmed, hover>>

------------------------------------------------------------------------------
\* From the wait for lossless to the session.

\* What a finished attempt held is forgotten.
Step(g, pc) ==
  attempts' = [attempts EXCEPT ![g] = IF pc = "done"
    THEN [NoAttempt EXCEPT !.pc = "done", !.aborted = attempts[g].aborted] ELSE [@ EXCEPT !.pc = pc]]

\* The wait ends: at once when it is already known, by the report, by the deadline.
LosslessWaited(g) ==
  /\ attempts[g].pc = "lossless" /\ UNCHANGED lossless

\* A session the renderer has ready for track t, and what is left of the rest.
SlotFor(t) == PathOf(t, lossless)
WarmHit(t) ==
  /\ slots[SlotFor(t)] # None /\ slots[SlotFor(t)].track = t
HoverHit(t) == {i \in DOMAIN hover : hover[i].track = t}

Claim(g, s) == attempts' = [attempts EXCEPT ![g].pc = "reply", ![g].sid = s,
                                            ![g].path = opened[s].path]
Post(g) == attempts' = [attempts EXCEPT ![g].pc = "post",
                                        ![g].path = PathOf(attempts[g].track, lossless)]

\* _resolveSession for a live handler: a warm session, a hovered one, or a POST.
Resolve(g) ==
  LET t == attempts[g].track IN
  /\ LosslessWaited(g) /\ attempts[g].kind = "htc"
  /\ IF genStale(g) THEN Step(g, "done") /\ UNCHANGED <<slots, hover>>
     ELSE IF WarmHit(t)
     THEN /\ Claim(g, slots[SlotFor(t)].sid)
          /\ slots' = [slots EXCEPT ![SlotFor(t)] = None] /\ UNCHANGED hover
     ELSE IF HoverHit(t) # {}
     THEN LET i == Min(HoverHit(t)) IN
          /\ Claim(g, hover[i].sid)
          /\ hover' = RemoveAt(hover, i) /\ UNCHANGED slots
     ELSE Post(g) /\ UNCHANGED <<slots, hover>>
  /\ UNCHANGED <<engine, deletes, vlcLive, current, clicks, tried, warming, warmed, streamOf>>

\* A direct play does not look at the warm sessions.
ResolveDirect(g) ==
  /\ LosslessWaited(g) /\ attempts[g].kind = "direct"
  /\ IF genStale(g) THEN Step(g, "done") ELSE Post(g)
  /\ UNCHANGED <<engine, deletes, vlcLive, current, clicks, warmVars>>

EnginePost(g) ==
  /\ attempts[g].pc = "post"
  /\ \E s \in Sids :
       /\ OpenSession(attempts[g].track, attempts[g].path, s)
       /\ attempts' = [attempts EXCEPT ![g].pc = "reply", ![g].sid = s]
  /\ UNCHANGED <<vlcPlays, deletes, vlcLive, current, lossless, clicks, warmVars>>

EngineFails(g) ==
  /\ attempts[g].pc = "post"
  /\ attempts' = [attempts EXCEPT ![g].pc = "reply", ![g].failed = TRUE]
  /\ UNCHANGED <<engine, deletes, vlcLive, current, lossless, clicks, warmVars>>

\* The catch of handleTrackChange: it does not ask whether g is still current.
HtcError(g) ==
  /\ Step(g, "done") /\ playState' = "idle"
  /\ UNCHANGED <<deletes, sessionId, assetId, vlcMode, generation, ctrl>>

\* The session arrives at an attempt that was overtaken: it is deleted when the
\* live attempt has another one, else looked at again five seconds later.
HtcOvertaken(g) ==
  LET s == attempts[g].sid IN
  /\ attempts[g].kind = "htc" /\ attempts[g].pc = "reply" /\ genStale(g) /\ ~attempts[g].failed
  /\ Step(g, IF sessionId = None THEN "recheck" ELSE "done")
  /\ Delete(IF sessionId \in {None, s} THEN {} ELSE {s})
  /\ UNCHANGED <<engine, vlcLive, current, lossless, clicks, warmVars>>

Recheck(g) ==
  /\ attempts[g].pc = "recheck" /\ Step(g, "done")
  /\ Delete(IF sessionId = attempts[g].sid THEN {} ELSE {attempts[g].sid})
  /\ UNCHANGED <<engine, vlcLive, current, lossless, clicks, warmVars>>

HtcOpenFailed(g) ==
  /\ attempts[g].kind = "htc" /\ attempts[g].pc = "reply" /\ attempts[g].failed
  /\ HtcError(g)
  /\ UNCHANGED <<engine, vlcLive, lossless, clicks, warmVars>>

\* Prewarming the next track: once per track, unless a warm one is there.
MayWarm(w) == ~tried[w] /\ slots[w] = None
ArmWarm(W) == tried' = [w \in Slots |-> tried[w] \/ (w \in W /\ MayWarm(w))]

\* The new player starts.
Start(g) ==
  LET path == attempts[g].path IN
  /\ attempts' = [attempts EXCEPT
       ![g].pc = CASE path = "mv" -> "run" [] path = "aac" -> "attach" [] OTHER -> "load"]
  /\ ctrl' = g /\ playState' = "streaming"
  /\ sessionId' = attempts[g].sid
  /\ vlcLive' = (vlcLive \/ path = "alac") /\ vlcMode' = (path = "alac")
  /\ IF path = "aac" THEN ArmWarm({"aac", "mv"}) ELSE UNCHANGED tried
  /\ streamOf' = IF path = "aac" THEN None ELSE streamOf
  /\ UNCHANGED <<assetId, generation>>

\* Mutant: libvlc is taken to be live only while the page is in its mode.
NeedsStopByMode(g) == vlcMode /\ attempts[g].path # "alac"

NeedsStop(g) == vlcLive /\ attempts[g].path # "alac"

\* The session arrives: libvlc is stopped first when it plays and must not.
HtcSession(g) ==
  /\ attempts[g].kind = "htc" /\ attempts[g].pc = "reply" /\ ~genStale(g) /\ ~attempts[g].failed
  /\ IF NeedsStop(g)
     THEN /\ sessionId' = attempts[g].sid /\ Step(g, "handoff")
          /\ UNCHANGED <<assetId, playState, vlcMode, generation, ctrl, tried, vlcLive,
                         streamOf>>
     ELSE Start(g)
  /\ gate' = IF attempts[g].path = "alac" THEN FALSE ELSE gate
  /\ UNCHANGED <<engine, deletes, lossless, direct, directGen,
                 slots, warming, warmed, hover>>

\* POST vlc/stop at the engine.
EngineStop(g) ==
  /\ attempts[g].pc = "handoff"
  /\ Step(g, "stopped") /\ vlcPlays' = "silent"
  /\ UNCHANGED <<opened, live, deletes, vlcLive, current, lossless, clicks, warmVars>>

\* leaveLossless returns: the engine stopped libvlc, or failed, or took too long
\* (a stop on its way may then still happen, or not).  A stop that succeeded is
\* noted whoever plays by now.
Handoff(g) ==
  /\ attempts[g].pc \in {"handoff", "stopped"}
  /\ \E ok \in BOOLEAN :
       /\ ok => attempts[g].pc = "stopped"
       /\ \/ vlcPlays' = IF ok /\ vlcPlays = "playing" THEN "forgotten" ELSE vlcPlays
          \/ attempts[g].pc = "handoff" /\ vlcPlays' = "silent"
       /\ IF genStale(g)
          THEN /\ Step(g, "done") /\ vlcLive' = (vlcLive /\ ~ok)
               /\ UNCHANGED <<current, tried, streamOf>>
          ELSE /\ attempts' = [attempts EXCEPT ![g].failed = ~ok,
                     ![g].pc = IF attempts[g].path = "mv" THEN "run" ELSE "attach"]
               /\ vlcLive' = (vlcLive /\ ~ok)
               /\ ctrl' = g /\ playState' = "streaming"
               /\ IF attempts[g].path = "aac" THEN ArmWarm({"aac", "mv"}) ELSE UNCHANGED tried
               /\ streamOf' = IF attempts[g].path = "aac" THEN None ELSE streamOf
               /\ UNCHANGED <<sessionId, assetId, vlcMode, generation>>
  /\ UNCHANGED <<opened, live, deletes, lossless, clicks, slots, warming, warmed, hover>>

------------------------------------------------------------------------------
\* Direct play after its POST.

\* Overtaken: the session it opened is left to the engine's idle timeout.
DirectOvertaken(g) ==
  /\ attempts[g].kind = "direct" /\ attempts[g].pc = "reply" /\ genStale(g)
  /\ Step(g, "done")
  /\ UNCHANGED <<engine, deletes, vlcLive, current, lossless, clicks, warmVars>>

\* Not AAC, or no session: the attempt ends and leaves the track to the NPIDF.
\* (An item confirmed in the meantime is passed to handleTrackChange in place of
\* the MusicKit instance: it has no nowPlayingItem, and nothing comes of it.)
DirectGivesUp(g) ==
  /\ attempts[g].kind = "direct" /\ attempts[g].pc = "reply" /\ ~genStale(g)
  /\ ~attempts[g].failed => attempts[g].path # "aac"
  /\ Step(g, "done") /\ direct' = None /\ playState' = "idle"
  /\ Delete(IF attempts[g].failed THEN {} ELSE {attempts[g].sid})
  /\ UNCHANGED <<engine, vlcLive, sessionId, assetId, vlcMode, generation, ctrl, lossless,
                 gate, directGen, warmVars>>

DirectSession(g) ==
  /\ attempts[g].kind = "direct" /\ attempts[g].pc = "reply" /\ ~genStale(g) /\ ~attempts[g].failed
  /\ attempts[g].path = "aac"
  /\ Step(g, "attach") /\ ctrl' = g
  /\ sessionId' = attempts[g].sid /\ assetId' = attempts[g].track
  /\ direct' = None /\ gate' = FALSE /\ playState' = "streaming" /\ streamOf' = None
  /\ UNCHANGED <<engine, deletes, vlcLive, vlcMode, generation, lossless, directGen,
                 slots, tried, warming, warmed, hover>>

------------------------------------------------------------------------------
\* The players.

\* sourceopen: _setupMSEPath goes on; a direct play then prewarms the next track.
SourceOpen(g) ==
  /\ attempts[g].pc = "attach" /\ ~attempts[g].aborted
  /\ Step(g, "run")
  /\ IF attempts[g].kind = "direct" /\ ~genStale(g)
     THEN playState' = "complete" /\ ArmWarm({"aac", "mv"})
     ELSE UNCHANGED <<playState, tried>>
  /\ UNCHANGED <<engine, deletes, vlcLive, sessionId, assetId, vlcMode, generation, ctrl,
                 lossless, clicks, slots, warming, warmed, hover, streamOf>>

\* Mutant: nobody listens for the abort.
AttachDeaf(g) == FALSE

\* The abort of a newer change ends the wait.
AttachAborted(g) ==
  /\ attempts[g].pc = "attach" /\ attempts[g].aborted
  /\ IF attempts[g].kind = "htc" THEN HtcError(g)
     ELSE Step(g, "done") /\ UNCHANGED <<deletes, current>>
  /\ UNCHANGED <<engine, vlcLive, lossless, clicks, warmVars>>

\* vlc/load at the engine, which does not notice that the client has gone: 404
\* for a released session, else libvlc plays.
EngineLoad(g) ==
  /\ attempts[g].pc = "load"
  /\ IF attempts[g].sid \in live
     THEN /\ vlcPlays' = (IF attempts[g].aborted THEN "late"
                           ELSE IF vlcLive THEN "playing" ELSE "forgotten")
          /\ Step(g, "loaded")
     ELSE /\ attempts' = [attempts EXCEPT ![g].pc = "loaded", ![g].failed = TRUE]
          /\ UNCHANGED vlcPlays
  /\ UNCHANGED <<opened, live, deletes, vlcLive, current, lossless, clicks, warmVars>>

Loaded(g) ==
  /\ attempts[g].pc = "loaded"
  /\ IF attempts[g].aborted \/ attempts[g].failed THEN HtcError(g)
     ELSE Step(g, "run") /\ UNCHANGED <<deletes, current>>
  /\ UNCHANGED <<engine, vlcLive, lossless, clicks, warmVars>>

------------------------------------------------------------------------------
\* Warm sessions.

\* The next track of the queue may be opened ahead: as ALAC from the poll of
\* libvlc, as AAC or a music video once the current track has armed it.
MayWarmAlac(t) == t \notin Mv /\ lossless /\ vlcMode /\ MayWarm("alac")
MayWarmAac(t)  == t \notin Mv /\ ~lossless /\ tried["aac"]
MayWarmMv(t)   == t \in Mv /\ tried["mv"]
\* So may a track the pointer rests on, when it is neither playing nor warm.
MayHover(t) == /\ t # assetId /\ HoverHit(t) = {}
               /\ \A r \in warming : ~(r.slot = "hover" /\ r.track = t)

WarmOpen(w, t) ==
  /\ warmed < MaxWarm /\ warmed' = warmed + 1
  /\ CASE w = "alac"  -> MayWarmAlac(t)
       [] w = "aac"   -> MayWarmAac(t)
       [] w = "mv"    -> MayWarmMv(t)
       [] w = "hover" -> MayHover(t)
  /\ tried' = IF w = "alac" THEN [tried EXCEPT !["alac"] = TRUE] ELSE tried
  /\ \/ \E s \in Sids :
          /\ OpenSession(t, PathOf(t, lossless), s)
          /\ warming' = warming \union
               {[slot |-> w, track |-> t, path |-> PathOf(t, lossless), sid |-> s]}
     \/ UNCHANGED <<opened, live, warming>>   \* the engine answers with an error
  /\ UNCHANGED <<vlcPlays, deletes, attempts, vlcLive, current, lossless, clicks,
                 slots, hover, streamOf>>

\* The answer: stored without asking whether the track is still the next one.
WarmReply(r) ==
  /\ warming' = warming \ {r}
  /\ IF r.slot = "hover"
     THEN LET full == Len(hover) >= HoverCap
              kept == IF full THEN Tail(hover) ELSE hover
          IN  /\ hover' = Append(kept, [track |-> r.track, sid |-> r.sid])
              /\ Delete(IF full THEN {Head(hover).sid} ELSE {})
              /\ UNCHANGED slots
     ELSE IF r.slot = "alac" /\ r.path # "alac"
     THEN Delete({r.sid}) /\ UNCHANGED <<slots, hover>>
     ELSE /\ slots' = [slots EXCEPT ![r.slot] = [track |-> r.track, sid |-> r.sid]]
          /\ UNCHANGED <<deletes, hover>>
  /\ UNCHANGED <<engine, attempts, vlcLive, current, lossless, clicks, tried, warmed, streamOf>>

\* Near the end of an AAC track the stream of the next one is opened ahead.
PrefetchStream ==
  /\ slots["aac"] # None /\ streamOf = None
  /\ opened[slots["aac"].sid].path = "aac"
  /\ ctrl # 0 /\ attempts[ctrl].pc = "run" /\ opened[attempts[ctrl].sid].path = "aac"
  /\ streamOf' = slots["aac"].sid
  /\ UNCHANGED <<engine, deletes, attempts, vlcLive, current, lossless, clicks,
                 slots, tried, warming, warmed, hover>>

AttemptStep(g) ==
  \/ Resolve(g) \/ ResolveDirect(g) \/ EnginePost(g) \/ EngineFails(g)
  \/ HtcOvertaken(g) \/ Recheck(g) \/ HtcOpenFailed(g) \/ HtcSession(g) \/ EngineStop(g)
  \/ Handoff(g)
  \/ DirectOvertaken(g) \/ DirectGivesUp(g) \/ DirectSession(g)
  \/ SourceOpen(g) \/ AttachAborted(g) \/ EngineLoad(g) \/ Loaded(g)

Next ==
  \/ EngineDelete \/ CapsReport \/ GateTimeout
  \/ PrefetchStream
  \/ \E t \in Tracks : Click(t)
  \/ \E t \in Tracks : TrackChange(t)
  \/ \E g \in Gens : AttemptStep(g)
  \/ \E w \in Slots \union {"hover"}, t \in Tracks : WarmOpen(w, t)
  \/ \E r \in warming : WarmReply(r)

\* Timers fire, requests are answered and aborts are delivered.
Spec == /\ Init /\ [][Next]_vars
        /\ \A g \in Gens : WF_vars(AttemptStep(g))

------------------------------------------------------------------------------
\* An attempt has the page's player.
Streams(g) == attempts[g].pc \in {"attach", "load", "loaded", "run"} /\ ~attempts[g].aborted

\* However the answers of overtaken changes are interleaved, at most one attempt
\* streams: the newest, with the session the rest of the page acts on (seeks,
\* touches, the next deletion), for the track the page shows.
LastChangeStreams ==
  \A g \in Gens : Streams(g) =>
    /\ g = generation /\ g = ctrl
    /\ attempts[g].sid = sessionId /\ opened[sessionId].track = assetId

\* A track started by handleTrackChange outside libvlc is not heard over the
\* previous one: libvlc is silent, unless the engine refused to stop it, a load
\* whose client had gone reached it late, or the answer to the stop of an overtaken
\* change made the page forget a newer track (LiveIsKnown).
HandoffIsSilent ==
  \A g \in Gens :
    Streams(g) /\ attempts[g].kind = "htc" /\ attempts[g].path # "alac" =>
      vlcPlays # "playing" \/ attempts[g].failed

\* Whoever starts to play, only one is heard, in every order of the answers.
HandoffIsSafe == TypeOK /\ HandoffIsSilent

\* engine/handoff.js:5-7 says that a track change that is superseded before it
\* reaches the stop cannot lose the obligation to stop libvlc: whatever plays
\* outside libvlc has met it, or the engine refused.
SupersededStillStops ==
  \A g \in Gens :
    attempts[g].pc = "run" /\ Streams(g) /\ attempts[g].path # "alac" =>
      ~vlcLive \/ attempts[g].failed

\* engine-playback.js:733 says of _vlcLive that it is set when a track starts on the
\* ALAC path and cleared once libvlc stopped: while libvlc plays what the page asked
\* for, the page knows that it has to be stopped.
LiveIsKnown == vlcPlays \in {"playing", "forgotten"} => vlcLive

\* engine/playstate.js: the edges of the design.
Legal == {<<"idle", "opening">>, <<"opening", "streaming">>, <<"opening", "idle">>,
          <<"streaming", "complete">>, <<"streaming", "idle">>, <<"complete", "idle">>}

\* A reset passes through idle, so a change that begins may leave any state.
StateFollowsDesign ==
  [][playState' # playState => generation' # generation \/ <<playState, playState'>> \in Legal]_vars

Begun(g)   == attempts[g].pc # "none"
Settled(g) == attempts[g].pc \in {"run", "done"}

\* Every attempt ends or plays: none waits for ever for an answer, a player that
\* was taken away, or a timer.
EveryChangeSettles == \A g \in Gens : Begun(g) ~> Settled(g)
=============================================================================
