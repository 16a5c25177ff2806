---------------------------- MODULE VlcPlayback ----------------------------
(***************************************************************************)
(* ALAC playback seen from the renderer (electron/src/engine-playback.js). *)
(* libvlc plays in the engine; the renderer sends it loads, pause and      *)
(* resume commands and seeks over HTTP, asks for its state every 250 ms    *)
(* and keeps the page's player in step.  Each request is sent, handled by  *)
(* the engine and answered in steps of their own.                          *)
(* A position is one of three regions, all that the end of a track is      *)
(* classified by (engine/vlc-end.js).                                      *)
(***************************************************************************)
EXTENDS Integers, Sequences, FiniteSets

CONSTANTS
  MaxTracks,   \* bound: tracks started
  MaxUser,     \* bound: presses, seeks, skips and clicks by the user, and the seeks
               \* of tracks that are opened again
  MaxFaults,   \* bound: requests that fail, early ends of a stream, lost sessions
  Retries,     \* VLC_MAX_RETRIES
  None

ASSUME VlcAssumption == MaxTracks \in Nat \ {0} /\ Retries \in Nat /\ None \notin Int

Tracks  == 1 .. MaxTracks
Regions == {"start", "mid", "end"}
Phases  == {"opening", "playing", "ended", "error"}
Mode    == BOOLEAN   \* TRUE: paused
NotLost == [track |-> 0, to |-> "start"]
Idle    == [track |-> 0, phase |-> "ended", paused |-> FALSE, pos |-> "end", eof |-> TRUE]

VARIABLES
  player,      \* libvlc: [track, phase, paused, pos, eof]
  gone,        \* sessions the engine no longer has
  track,       \* _sessionId, 0 for none; tracks are numbered as they start
  started,     \* how many were started
  vlcMode, paused, loading, prevState, frozen, postSeek, wasPlaying, posMs, seekTarget,
  burst,       \* _seekBurstLog > 0
  mk, note,    \* MusicKit's state, and a playbackStateDidChange to come
  desired, revision, epoch, cmds,   \* _vlcTransport, its queue of commands
  direct,      \* commands sent without it
  pendingIntent,
  seekRevision, timer,              \* _vlcSeekRevision, that of _vlcSeekTimer
  rewound,                          \* history: the track was loaded again after a seek
  requests,    \* loads and seeks under way
  polling, generation, fetching, polls,
  retryTimers, retries, advancing,
  sessionLost, resumes,             \* _sessionLost, and the positions that reopened
                                    \* tracks wait to be put to
  yielded,                          \* its end was left to a click that had the gate open
  deaf,                             \* history: its end was reported during a reload that failed
  user, faults

session   == <<track, started, vlcMode>>
ui        == <<paused, loading, prevState, frozen, postSeek, wasPlaying, posMs, seekTarget, burst>>
mkit      == <<mk, note>>
transport == <<desired, revision, epoch, cmds>>
seeks     == <<seekRevision, timer, rewound>>
poll      == <<polling, generation, fetching, polls>>
lost      == <<sessionLost, resumes>>
ends      == <<retryTimers, retries, advancing, lost, yielded, deaf>>
bounds    == <<user, faults>>
vars == <<player, gone, session, ui, mkit, transport, direct, pendingIntent, seeks, requests,
          poll, ends, bounds>>

States == {"none", "opening", "playing", "paused", "ended", "error"}
Command == [paused : Mode, owner : 0 .. MaxTracks, epoch : Nat, rev : Nat,
            st : {"queued", "sent", "done"}]
Request == [kind : {"setup", "retry", "rewind", "seek"}, track : Tracks, to : Regions,
            rev : Nat, st : {"sent", "ok", "refused"}]
Poll == [gen : Nat, track : Tracks, rev : Nat, state : States, pos : Regions, eof : BOOLEAN]

TypeOK ==
  /\ player \in [track : 0 .. MaxTracks, phase : Phases, paused : Mode, pos : Regions,
                 eof : BOOLEAN]
  /\ gone \subseteq Tracks /\ track \in 0 .. started /\ started \in 0 .. MaxTracks
  /\ {vlcMode, paused, loading, frozen, postSeek, wasPlaying, burst, note, polling, fetching,
      advancing, rewound, yielded, deaf} \subseteq BOOLEAN
  /\ prevState \in States /\ posMs \in Regions /\ seekTarget \in Regions
  /\ mk \in Mode /\ desired \in Mode \union {None} /\ pendingIntent \in Mode \union {None}
  /\ revision \in Nat /\ epoch \in Nat /\ cmds \in Seq(Command) /\ direct \subseteq Mode
  /\ seekRevision \in Nat /\ timer \in Nat \union {None}
  /\ requests \subseteq Request /\ polls \subseteq Poll /\ generation \in Nat
  /\ retryTimers \subseteq [track : Tracks, to : Regions]
  /\ retries \in 0 .. Retries /\ resumes \subseteq Regions
  /\ sessionLost \in [track : 0 .. MaxTracks, to : Regions]
  /\ (fetching => polling) /\ (polling => vlcMode)

Init ==
  /\ player = Idle /\ gone = {} /\ track = 0 /\ started = 0 /\ vlcMode = FALSE
  /\ paused = FALSE /\ loading = FALSE /\ prevState = "none" /\ frozen = FALSE
  /\ postSeek = FALSE /\ wasPlaying = FALSE /\ posMs = "start" /\ seekTarget = "start"
  /\ burst = FALSE /\ mk = TRUE /\ note = FALSE
  /\ desired = None /\ revision = 0 /\ epoch = 0 /\ cmds = <<>> /\ direct = {}
  /\ pendingIntent = None /\ seekRevision = 0 /\ timer = None /\ rewound = FALSE /\ requests = {}
  /\ polling = FALSE /\ generation = 0 /\ fetching = FALSE /\ polls = {}
  /\ retryTimers = {} /\ retries = 0 /\ advancing = FALSE /\ sessionLost = NotLost
  /\ resumes = {} /\ yielded = FALSE /\ deaf = FALSE
  /\ user = 0 /\ faults = 0

User  == user < MaxUser /\ user' = user + 1
Fault == faults < MaxFaults /\ faults' = faults + 1

------------------------------------------------------------------------------
\* The transport controller (engine/transport.js).

\* A queued command is sent only for the track and the epoch it was issued in.
MaySend(c) == c.owner = track /\ c.epoch = epoch

\* request(paused)
RequestTransport(p) ==
  IF desired = p THEN UNCHANGED transport
  ELSE /\ desired' = p /\ revision' = revision + 1 /\ UNCHANGED epoch
       /\ cmds' = Append(cmds, [paused |-> p, owner |-> track, epoch |-> epoch,
                                rev |-> revision + 1, st |-> "queued"])

\* reset(paused)
ResetTransport(p) == desired' = p /\ revision' = revision + 1 /\ epoch' = epoch + 1

CommandTurn ==
  /\ cmds # <<>> /\ Head(cmds).st = "queued"
  /\ cmds' = IF MaySend(Head(cmds)) THEN [cmds EXCEPT ![1].st = "sent"] ELSE Tail(cmds)
  /\ UNCHANGED <<player, gone, session, ui, mkit, desired, revision, epoch, direct,
                 pendingIntent, seeks, requests, poll, ends, bounds>>

\* The engine pauses or resumes what libvlc plays.
EngineObeys(p) ==
  player' = [player EXCEPT !.paused = IF player.phase \in {"opening", "playing"} THEN p ELSE @]

EngineCommand ==
  /\ cmds # <<>> /\ Head(cmds).st = "sent"
  /\ EngineObeys(Head(cmds).paused) /\ cmds' = [cmds EXCEPT ![1].st = "done"]
  /\ UNCHANGED <<gone, session, ui, mkit, desired, revision, epoch, direct, pendingIntent,
                 seeks, requests, poll, ends, bounds>>

CommandReply ==
  /\ cmds # <<>> /\ Head(cmds).st = "done" /\ cmds' = Tail(cmds)
  /\ UNCHANGED <<player, gone, session, ui, mkit, desired, revision, epoch, direct,
                 pendingIntent, seeks, requests, poll, ends, bounds>>

\* An error or a timeout: the intent is forgotten, unless a newer one was given.
CommandFails ==
  /\ cmds # <<>> /\ Head(cmds).st \in {"sent", "done"} /\ Fault /\ cmds' = Tail(cmds)
  /\ IF revision = Head(cmds).rev THEN ResetTransport(None)
     ELSE UNCHANGED <<desired, revision, epoch>>
  /\ UNCHANGED <<player, gone, session, ui, mkit, direct, pendingIntent, seeks, requests, poll,
                 ends, user>>

\* MusicKit goes to a state and will say so.
MkGoes(p) == mk' = p /\ note' = (note \/ mk # p)

\* mk.pause and mk.play of a track that is set up.
PressNow(p) ==
  /\ vlcMode /\ MkGoes(p) /\ UNCHANGED pendingIntent
  /\ IF p \/ paused THEN paused' = p /\ RequestTransport(p) ELSE UNCHANGED <<paused, transport>>

\* The page's controls between two tracks: the press is kept for the next one.
PressKept(p) ==
  ~vlcMode /\ pendingIntent' = p /\ UNCHANGED <<mkit, paused, transport>>

Press(p) ==
  /\ User /\ started > 0 /\ UNCHANGED faults
  /\ PressNow(p) \/ PressKept(p)
  /\ UNCHANGED <<player, gone, session, loading, prevState, frozen, postSeek, wasPlaying, posMs,
                 seekTarget, burst, direct, seeks, requests, poll, ends>>

\* playbackStateDidChange: MusicKit's state is taken over with a command that
\* does not go through the controller.
MkNotifies ==
  /\ note /\ note' = FALSE
  /\ IF vlcMode /\ (mk \/ paused)
     THEN paused' = mk /\ direct' = direct \union {mk}
     ELSE UNCHANGED <<paused, direct>>
  /\ UNCHANGED <<player, gone, session, loading, prevState, frozen, postSeek, wasPlaying, posMs,
                 seekTarget, burst, mk, transport, pendingIntent, seeks, requests, poll, ends,
                 bounds>>

EngineDirect(p) ==
  /\ p \in direct /\ direct' = direct \ {p} /\ EngineObeys(p)
  /\ UNCHANGED <<gone, session, ui, mkit, transport, pendingIntent, seeks, requests, poll, ends,
                 bounds>>

------------------------------------------------------------------------------
\* Tracks.

\* stopVLCPoll
StopPoll == generation' = generation + 1 /\ polling' = FALSE /\ fetching' = FALSE
\* startVLCPoll
StartPoll == generation' = generation + 1 /\ polling' = TRUE /\ fetching' = FALSE
             /\ prevState' = "none" /\ deaf' = FALSE

\* _resetPlaybackState: a track is left for the next one.
Reset ==
  /\ StopPoll
  /\ vlcMode' = FALSE /\ posMs' = "start" /\ paused' = FALSE /\ frozen' = FALSE /\ retries' = 0
  /\ prevState' = "none" /\ loading' = FALSE /\ burst' = FALSE /\ postSeek' = FALSE
  /\ wasPlaying' = FALSE /\ seekTarget' = "start" /\ timer' = None /\ rewound' = FALSE
  /\ gone' = IF track = 0 THEN gone ELSE gone \union {track}
  /\ track' = 0 /\ advancing' = FALSE /\ yielded' = FALSE /\ deaf' = FALSE
  /\ UNCHANGED <<started, polls, seekRevision, retryTimers>>

\* The queue moves on by itself, or at the user's click; a position that waited for
\* the track to be opened again waits in vain.
TrackLeft ==
  /\ track # 0 /\ started < MaxTracks /\ Reset /\ resumes' = {}
  /\ IF advancing \/ yielded THEN UNCHANGED bounds ELSE User /\ UNCHANGED faults
  /\ UNCHANGED <<player, mkit, transport, direct, pendingIntent, requests, sessionLost>>

\* _reopenCurrentTrack: the current track, whichever it is, is opened again and put
\* to a position.
Reopen(to) == Reset /\ sessionLost' = NotLost /\ resumes' = resumes \union to

\* A session that is gone is opened again when MusicKit plays.
TrackReopened ==
  /\ track # 0 /\ sessionLost.track = track /\ ~mk /\ started < MaxTracks
  /\ Reopen({sessionLost.to} \ {"start"})
  /\ UNCHANGED <<player, mkit, transport, direct, pendingIntent, requests, bounds>>

\* _setupVLCPath up to its load request.
Setup ==
  /\ track = 0 /\ started < MaxTracks
  /\ started' = started + 1 /\ track' = started + 1 /\ vlcMode' = TRUE
  /\ ResetTransport(FALSE) /\ UNCHANGED cmds
  /\ paused' = FALSE /\ posMs' = "start" /\ loading' = TRUE
  /\ requests' = requests \union {[kind |-> "setup", track |-> started + 1, to |-> "start",
                                   rev |-> 0, st |-> "sent"]}
  /\ UNCHANGED <<player, gone, prevState, frozen, postSeek, wasPlaying, seekTarget, burst, mkit,
                 direct, pendingIntent, seeks, poll, ends, user, faults>>

Swap(r, s) == requests' = (requests \ {r}) \union {[r EXCEPT !.st = s]}

\* The engine loads the session into libvlc, or does not know it.
EngineLoad(r) ==
  /\ r.kind # "seek" /\ r.st = "sent"
  /\ IF r.track \in gone THEN Swap(r, "refused") /\ UNCHANGED player
     ELSE /\ Swap(r, "ok")
          /\ player' = [track |-> r.track, phase |-> "opening", paused |-> FALSE, pos |-> r.to,
                        eof |-> FALSE]
  /\ UNCHANGED <<gone, session, ui, mkit, transport, direct, pendingIntent, seeks, poll, ends,
                 bounds>>

\* The answer to the load of a track: unless it was left, the press that waited for it is sent, and
\* the state is polled.
SetupLoaded(r) ==
  /\ r.kind = "setup" /\ r.st = "ok" /\ r.track = track /\ requests' = requests \ {r}
  /\ StartPoll /\ pendingIntent' = None
  /\ IF pendingIntent = None THEN paused' = FALSE /\ MkGoes(FALSE) /\ UNCHANGED transport
     ELSE paused' = pendingIntent /\ RequestTransport(pendingIntent) /\ MkGoes(pendingIntent)
  /\ UNCHANGED <<player, gone, session, loading, frozen, postSeek, wasPlaying, posMs, seekTarget,
                 burst, direct, seeks, polls, retryTimers, retries, advancing, lost, yielded, bounds>>

\* A load that failed leaves the track idle until the user acts; one of a track
\* that was left is dropped.
SetupFails(r) ==
  /\ r.kind = "setup" /\ requests' = requests \ {r}
  /\ IF r.track # track \/ r.st = "refused" THEN UNCHANGED faults ELSE r.st = "sent" /\ Fault
  /\ UNCHANGED <<player, gone, session, ui, mkit, transport, direct, pendingIntent, seeks, poll,
                 ends, user>>

\* libvlc: a stream opens, plays through the track and ends; it may break.
EngineRuns ==
  \/ /\ player.phase = "opening" /\ player' = [player EXCEPT !.phase = "playing"]
     /\ UNCHANGED bounds
  \/ /\ player.phase = "playing" /\ ~player.paused /\ UNCHANGED bounds
     /\ player' = IF player.pos = "end" THEN [player EXCEPT !.phase = "ended", !.eof = TRUE]
                  ELSE [player EXCEPT !.pos = IF @ = "start" THEN "mid" ELSE "end"]
  \/ /\ player.phase \in {"opening", "playing"} /\ Fault /\ UNCHANGED user
     /\ \E ph \in {"ended", "error"} : player' = [player EXCEPT !.phase = ph]
EngineRun ==
  EngineRuns /\ UNCHANGED <<gone, session, ui, mkit, transport, direct, pendingIntent, seeks,
                            requests, poll, ends>>

\* The engine restarts, or drops a session that was not used for hours.
SessionExpires ==
  /\ track # 0 /\ track \notin gone /\ Fault /\ gone' = gone \union {track}
  /\ UNCHANGED <<player, session, ui, mkit, transport, direct, pendingIntent, seeks, requests,
                 poll, ends, user>>

\* _touchSession finds out, unless a session that was lost before is still noted.
Touch ==
  /\ track \in gone /\ sessionLost = NotLost /\ sessionLost' = [track |-> track, to |-> posMs]
  /\ UNCHANGED <<player, gone, session, ui, mkit, transport, direct, pendingIntent, seeks,
                 requests, poll, retryTimers, retries, advancing, resumes, yielded, deaf, bounds>>

------------------------------------------------------------------------------
\* Seeks.

\* mk.seekToTime: the position is shown at once, the engine hears of it when the
\* scrubbing has stopped.
SeekTo(t) ==
  /\ vlcMode
  /\ seekRevision' = seekRevision + 1 /\ timer' = seekRevision + 1
  /\ posMs' = t /\ frozen' = TRUE
  /\ wasPlaying' = IF timer = None THEN ~paused ELSE wasPlaying
  /\ UNCHANGED <<player, gone, session, paused, loading, prevState, postSeek, seekTarget, burst,
                 mkit, transport, direct, pendingIntent, rewound, requests, poll, retryTimers,
                 retries, advancing, sessionLost, yielded, deaf>>

SeekCall(t) == SeekTo(t) /\ User /\ UNCHANGED <<resumes, faults>>

\* _resumeSeekWhenReady: a track that was opened again goes to its position, or it
\* was not ready in time.
Resume(t) ==
  /\ t \in resumes /\ resumes' = resumes \ {t} /\ UNCHANGED faults
  /\ \/ SeekTo(t) /\ User
     \/ UNCHANGED <<user, player, gone, session, ui, mkit, transport, direct, pendingIntent, seeks,
                    requests, poll, retryTimers, retries, advancing, sessionLost, yielded, deaf>>

SeekTimer ==
  /\ timer # None /\ timer' = None /\ seekTarget' = posMs
  /\ requests' = requests \union {[kind |-> "seek", track |-> track, to |-> posMs,
                                   rev |-> timer, st |-> "sent"]}
  /\ UNCHANGED <<player, gone, session, paused, loading, prevState, frozen, postSeek, wasPlaying,
                 posMs, burst, mkit, transport, direct, pendingIntent, seekRevision, rewound, poll,
                 ends, bounds>>

\* Only the session that owns the player may seek; libvlc may fail to and go back
\* to the start.
EngineSeek(r) ==
  /\ r.kind = "seek" /\ r.st = "sent"
  /\ IF player.track = r.track /\ player.phase \in {"opening", "playing"}
     THEN /\ Swap(r, "ok") /\ UNCHANGED user
          /\ \/ player' = [player EXCEPT !.pos = r.to] /\ UNCHANGED faults
             \/ player' = [player EXCEPT !.pos = "start"] /\ Fault
     ELSE Swap(r, "refused") /\ UNCHANGED <<player, bounds>>
  /\ UNCHANGED <<gone, session, ui, mkit, transport, direct, pendingIntent, seeks, poll, ends>>

\* Mutant: only the answer of a seek that went well counts.
LatestOk(r) == r.rev = seekRevision /\ r.st = "ok"
Latest(r) == r.rev = seekRevision

\* The answer to the last seek, refusals and errors alike: the state is shown
\* again, and what played when the scrubbing began is resumed.
SeekReply(r) ==
  /\ r.kind = "seek" /\ r.st # "sent" /\ requests' = requests \ {r}
  /\ IF Latest(r)
     THEN /\ posMs' = r.to /\ prevState' = "none" /\ frozen' = FALSE /\ burst' = TRUE
          /\ deaf' = FALSE
          /\ IF wasPlaying THEN paused' = FALSE /\ postSeek' = TRUE /\ RequestTransport(FALSE)
             ELSE UNCHANGED <<paused, postSeek, transport>>
     ELSE UNCHANGED <<posMs, prevState, frozen, burst, paused, postSeek, deaf, transport>>
  /\ UNCHANGED <<player, gone, session, loading, wasPlaying, seekTarget, mkit, direct,
                 pendingIntent, seeks, poll, retryTimers, retries, advancing, lost, yielded,
                 bounds>>

\* The answer to a reload after a seek that went back to the start, whatever its
\* status.
RewindReply(r) ==
  /\ r.kind = "rewind" /\ r.st # "sent" /\ requests' = requests \ {r}
  /\ IF Latest(r)
     THEN frozen' = FALSE /\ burst' = TRUE /\ prevState' = "none" /\ deaf' = FALSE
     ELSE UNCHANGED <<frozen, burst, prevState, deaf>>
  /\ UNCHANGED <<player, gone, session, paused, loading, postSeek, wasPlaying, posMs, seekTarget,
                 mkit, transport, direct, pendingIntent, seeks, poll, retryTimers, retries,
                 advancing, lost, yielded, bounds>>

\* The reload, or its answer, is lost: what was reported meanwhile is not heard
\* again.
RewindFails(r) ==
  /\ r.kind = "rewind" /\ Fault /\ requests' = requests \ {r}
  /\ IF Latest(r) THEN frozen' = FALSE /\ deaf' = (prevState \in {"ended", "error"})
     ELSE UNCHANGED <<frozen, deaf>>
  /\ UNCHANGED <<player, gone, session, paused, loading, prevState, burst, postSeek, wasPlaying,
                 posMs, seekTarget, mkit, transport, direct, pendingIntent, seeks, poll,
                 retryTimers, retries, advancing, lost, yielded, user>>

------------------------------------------------------------------------------
\* The poll.

\* The interval changes with the power mode: polling starts over.
PollRestart ==
  /\ polling /\ User /\ StartPoll
  /\ UNCHANGED <<player, gone, session, paused, loading, frozen, postSeek, wasPlaying, posMs,
                 seekTarget, burst, mkit, transport, direct, pendingIntent, seeks, requests,
                 polls, retryTimers, retries, advancing, lost, yielded, faults>>

PollTick ==
  /\ polling /\ ~fetching /\ fetching' = TRUE
  /\ polls' = polls \union {[gen |-> generation, track |-> track, rev |-> revision,
                             state |-> "none", pos |-> "start", eof |-> FALSE]}
  /\ UNCHANGED <<player, gone, session, ui, mkit, transport, direct, pendingIntent, seeks,
                 requests, polling, generation, ends, bounds>>

\* The state the engine reports.
Reported == IF player.phase = "playing" /\ player.paused THEN "paused" ELSE player.phase
PollSample(p) ==
  /\ p.state = "none"
  /\ polls' = (polls \ {p}) \union
       {[p EXCEPT !.state = Reported, !.pos = player.pos, !.eof = player.eof]}
  /\ UNCHANGED <<player, gone, session, ui, mkit, transport, direct, pendingIntent, seeks,
                 requests, polling, generation, fetching, ends, bounds>>

\* Mutant: replies are not told apart by the polling they belong to.
FreshAnyPoll(p) == p.track = track /\ p.rev = revision /\ cmds = <<>>
\* A reply counts unless the track, the poll or a command went on without it.
Fresh(p) == p.track = track /\ p.gen = generation /\ p.rev = revision /\ cmds = <<>>

\* The furthest of what is shown and what is reported.
Furthest(a, b) == IF "end" \in {a, b} THEN "end" ELSE IF "mid" \in {a, b} THEN "mid" ELSE "start"

\* classifyVlcEnd
Retried(pos, p) ==
  /\ retries < Retries
  /\ pos = "start" \/ (pos = "mid" /\ ~(p.eof /\ p.state # "error"))

\* Mutant: the poll is left stopped when the track is loaded again.
RetryReplyQuiet(r) ==
  /\ r.kind = "retry" /\ r.st # "sent" /\ requests' = requests \ {r}
  /\ posMs' = IF r.track = track THEN r.to ELSE posMs
  /\ loading' = (loading \/ r.track = track)
  /\ UNCHANGED <<player, gone, session, paused, prevState, frozen, postSeek, wasPlaying,
                 seekTarget, burst, mkit, transport, direct, pendingIntent, seeks, poll, ends,
                 bounds>>

\* _vlcHandleEnded: the track is loaded again from where it broke, or over; the end
\* is left to a click, if one has the gate open (_allowCDNTransition).
HandleEnded(p) ==
  LET pos == Furthest(p.pos, posMs) IN
  /\ StopPoll
  /\ IF Retried(pos, p)
     THEN /\ retries' = retries + 1 /\ UNCHANGED <<advancing, yielded, user>>
          /\ retryTimers' = retryTimers \union {[track |-> track, to |-> pos]}
     ELSE /\ UNCHANGED <<retries, retryTimers>>
          /\ \/ advancing' = TRUE /\ UNCHANGED <<yielded, user>>
             \/ yielded' = TRUE /\ User /\ UNCHANGED advancing

\* _vlcHandleStateChange
StateChanges(p) ==
  /\ CASE p.state = "playing" ->
            /\ paused' = FALSE /\ loading' = FALSE /\ postSeek' = FALSE
            /\ IF prevState # "paused" \/ postSeek \/ loading THEN MkGoes(FALSE)
               ELSE UNCHANGED mkit
       [] p.state = "paused" /\ ~postSeek /\ ~loading ->
            paused' = TRUE /\ MkGoes(TRUE) /\ UNCHANGED <<loading, postSeek>>
       [] OTHER -> UNCHANGED <<paused, loading, postSeek, mkit>>
  /\ IF p.state \in {"ended", "error"} THEN HandleEnded(p)
     ELSE /\ UNCHANGED <<polling, generation, retries, retryTimers, advancing, yielded, user>>
          /\ fetching' = FALSE

\* A seek went wrong: libvlc is back at the start.
Rewound(p) == burst /\ ~frozen /\ p.pos = "start" /\ seekTarget # "start"

\* _vlcUpdatePosition: a position that is frozen by a seek stays.
Shown(p) == IF frozen THEN posMs
            ELSE IF Rewound(p) THEN seekTarget
            ELSE IF p.state = "opening" THEN posMs ELSE p.pos

PollReply(p) ==
  /\ p.state # "none" /\ polls' = polls \ {p}
  /\ UNCHANGED <<player, gone, session, wasPlaying, seekTarget, transport, direct,
                 pendingIntent, seekRevision, timer, lost, faults>>
  /\ rewound' = (rewound \/ (Fresh(p) /\ Rewound(p)))
  /\ IF ~Fresh(p)
     THEN /\ fetching' = (fetching /\ p.gen # generation)
          /\ UNCHANGED <<paused, loading, prevState, frozen, postSeek, posMs, burst, mkit,
                         requests, polling, generation, retryTimers, retries, advancing,
                         yielded, deaf, user>>
     ELSE /\ frozen' = (frozen \/ Rewound(p))
          /\ posMs' = Shown(p)
          /\ burst' \in {FALSE, burst /\ ~Rewound(p)}
          /\ requests' = IF ~Rewound(p) THEN requests
                         ELSE requests \union {[kind |-> "rewind", track |-> track,
                                to |-> seekTarget, rev |-> seekRevision, st |-> "sent"]}
          /\ prevState' = p.state /\ deaf' = (deaf /\ p.state = prevState)
          /\ IF p.state = prevState \/ frozen'
             THEN /\ fetching' = FALSE
                  /\ UNCHANGED <<paused, loading, postSeek, mkit, polling, generation,
                                 retryTimers, retries, advancing, yielded, user>>
             ELSE StateChanges(p)

\* A request that fails is asked again at the next tick.
PollFails(p) ==
  /\ Fault /\ polls' = polls \ {p} /\ fetching' = (fetching /\ p.gen # generation)
  /\ UNCHANGED <<player, gone, session, ui, mkit, transport, direct, pendingIntent, seeks,
                 requests, polling, generation, ends, user>>

\* _vlcRetryFrom, when its delay is over.
RetryFires(t) ==
  /\ retryTimers' = retryTimers \ {t}
  /\ requests' = IF t.track # track THEN requests
                 ELSE requests \union {[kind |-> "retry", track |-> track, to |-> t.to, rev |-> 0,
                                        st |-> "sent"]}
  /\ UNCHANGED <<player, gone, session, ui, mkit, transport, direct, pendingIntent, seeks, poll,
                 retries, advancing, lost, yielded, deaf, bounds>>

\* The answer to the reload.  When the engine no longer has the session, the current
\* track is opened again, which need not be the one that was to be reloaded.
RetryReply(r) ==
  /\ r.kind = "retry" /\ r.st # "sent" /\ requests' = requests \ {r}
  /\ UNCHANGED <<player, mkit, transport, direct, pendingIntent, bounds>>
  /\ CASE r.st = "refused" /\ track # 0 -> Reopen({r.to} \ {"start"})
       [] r.st = "refused" /\ track = 0 ->
            /\ sessionLost' = NotLost
            /\ UNCHANGED <<gone, session, ui, seeks, poll, retryTimers, retries, advancing, resumes,
                           yielded, deaf>>
       [] OTHER ->
            /\ UNCHANGED <<gone, session, paused, frozen, postSeek, wasPlaying, seekTarget, burst,
                           seeks, polls, retryTimers, retries, advancing, lost, yielded>>
            /\ IF r.track = track THEN StartPoll /\ posMs' = r.to /\ loading' = TRUE
               ELSE UNCHANGED <<posMs, loading, prevState, poll, deaf>>

RetryFails(r) ==
  /\ r.kind = "retry" /\ Fault /\ requests' = requests \ {r}
  /\ IF r.track = track THEN StartPoll
     ELSE UNCHANGED <<prevState, polling, generation, fetching, deaf>>
  /\ UNCHANGED <<player, gone, session, paused, loading, frozen, postSeek, wasPlaying, posMs,
                 seekTarget, burst, mkit, transport, direct, pendingIntent, seeks, polls,
                 retryTimers, retries, advancing, lost, yielded, user>>

------------------------------------------------------------------------------
Reply(r) == SetupLoaded(r) \/ SeekReply(r) \/ RewindReply(r) \/ RetryReply(r)

\* What the renderer and the engine do of their own accord.
Renderer ==
  \/ CommandTurn \/ CommandReply \/ MkNotifies \/ Setup \/ TrackReopened \/ Touch \/ SeekTimer
  \/ \E t \in resumes : Resume(t)
  \/ \E r \in requests : Reply(r)
  \/ \E t \in retryTimers : RetryFires(t)
Engine ==
  \/ EngineCommand \/ \E p \in Mode : EngineDirect(p)
  \/ \E r \in requests : EngineLoad(r) \/ EngineSeek(r)
PollStep == PollTick \/ \E p \in polls : PollSample(p) \/ PollReply(p)

Next ==
  \/ Renderer \/ Engine \/ PollStep \/ EngineRun
  \/ \E p \in Mode : Press(p)
  \/ \E t \in Regions : SeekCall(t)
  \/ TrackLeft \/ PollRestart \/ SessionExpires \/ CommandFails
  \/ \E r \in requests : SetupFails(r) \/ RewindFails(r) \/ RetryFails(r)
  \/ \E p \in polls : PollFails(p)

PollSamples == \E p \in polls : PollSample(p)
PollReplies == \E p \in polls : PollReply(p)

\* Requests are answered and timers fire; a poll does not keep the others from it.
Spec == Init /\ [][Next]_vars /\ WF_vars(Renderer) /\ WF_vars(Engine)
             /\ WF_vars(PollTick) /\ WF_vars(PollSamples)
             /\ WF_vars(PollReplies)

\* The queue moves on only when the player ended: no reply that a reload of the
\* track has overtaken skips what plays.  A track that was loaded again after a seek
\* is left out: such a reply does skip it.
AdvanceIsEarned ==
  advancing /\ ~rewound => player.track = track /\ player.phase \in {"ended", "error"}

\* No sample, reply or retry, in whatever order they come, moves the queue on from a track that
\* plays on, but from one that was loaded again after a seek.
NothingIsSkipped == TypeOK /\ AdvanceIsEarned

EndReached == vlcMode /\ player.track = track /\ player.phase \in {"ended", "error"}
EndHandled == \/ advancing \/ track # player.track \/ player.phase \notin {"ended", "error"}
              \/ yielded \/ deaf

\* A track that ended or broke is loaded again or left, whatever was lost, or its end
\* is left to the click that has the gate open.  An end that is reported while a
\* reload after a seek is under way, and that reload fails, is left out: nobody hears
\* of it (3896).
EndIsHandled == EndReached ~> EndHandled

SeekFrozen == frozen

\* The scrubber never stays frozen: the position follows the player again after
\* the last seek.
SeekSettles == SeekFrozen ~> ~SeekFrozen
=============================================================================
