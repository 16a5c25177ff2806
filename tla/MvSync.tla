------------------------------- MODULE MvSync -------------------------------
(***************************************************************************)
(* A music video's picture and sound, which are two media elements, and    *)
(* the handlers that keep them together (electron/src/engine-playback.js,  *)
(* startMVPipeline and _setupVsegVideo): the start, play and pause from    *)
(* either side, stalls, seeks and mutes.                                   *)
(* An element changes at once when it is told to; the events come later,   *)
(* one after another (Chromium queues those of all elements of a page in   *)
(* one queue), and find whatever the other handlers have made of it.       *)
(***************************************************************************)
EXTENDS Naturals, Sequences

CONSTANTS
  MaxUser,     \* bound: presses of play or pause, mutes and seeks
  MaxStalls    \* bound: times the picture runs out of data

VARIABLES
  vPaused, vData,         \* the video: paused, has data to play on
  aPaused, aMuted, aData, \* the audio
  events,                 \* events to come: <<element, name>>
  onCan,                  \* onVideoPlay waits for the audio to be able to play
  videoCan, started, gate,       \* _videoCanPlay, _avStarted, _mvGateOpen
  vsegStalled, mutedForStall,    \* _vsegStalled, _vsegMutedForStall
  videoStalled,                  \* _videoStalled
  active, resume,                \* _seekHandlerActive, tryResume is waiting
  busy,                          \* _playMirrorBusy
  user, stalls, muteKey   \* muteKey: what the user last set by m or the volume slider

video  == <<vPaused, vData>>
audio  == <<aPaused, aMuted, aData>>
start  == <<videoCan, started>>
stall  == <<vsegStalled, mutedForStall, videoStalled, gate>>
bounds == <<user, stalls, muteKey>>
vars   == <<video, audio, events, onCan, start, stall, active, resume, busy, bounds>>

Init ==
  /\ vPaused = TRUE /\ aPaused = TRUE /\ vData = FALSE /\ aData = FALSE
  /\ events = <<>>
  /\ aMuted = FALSE /\ muteKey = FALSE
  /\ onCan = FALSE /\ busy = FALSE
  /\ videoCan = FALSE /\ started = FALSE /\ gate = FALSE
  /\ vsegStalled = FALSE /\ mutedForStall = FALSE /\ videoStalled = FALSE
  /\ active = FALSE /\ resume = FALSE
  /\ user = 0 /\ stalls = 0

-----------------------------------------------------------------------------
(* The elements.  Each operator says what an element is after a call and which events *)
(* follow those of es that are due already.  "played" is the 'playing' with which the  *)
(* play() of mvPlay (video) or of onVideoPlay (audio) settles.                         *)

VideoPlays(es, last) ==
  /\ vPaused' = FALSE
  /\ events' = IF ~vPaused THEN es
               ELSE es \o <<<<"v", "play">>, IF vData THEN <<"v", last>> ELSE <<"v", "waiting">>>>
VideoPauses(es) ==
  /\ vPaused' = TRUE
  /\ events' = IF vPaused THEN es ELSE Append(es, <<"v", "pause">>)
AudioPlays(es, last) ==
  /\ aPaused' = FALSE
  /\ events' = IF ~aPaused THEN es ELSE es \o <<<<"a", "play">>, <<"a", last>>>>
AudioPauses(es) ==
  /\ aPaused' = TRUE
  /\ events' = IF aPaused THEN es ELSE Append(es, <<"a", "pause">>)

-----------------------------------------------------------------------------
(* The start. *)

\* doPlay plays the audio; the mirror is held off until that play settles.
BusyWhile == aPaused

\* tryStart, before the events es.
TryStart(can, es) ==
  IF started \/ ~can THEN events' = es /\ UNCHANGED <<started, gate, aPaused>>
  ELSE started' = TRUE /\ gate' = TRUE /\ AudioPlays(es, "playing")

\* The video's first 'canplay', which plays it too.
VideoCanPlay ==
  /\ ~videoCan /\ videoCan' = TRUE /\ vData' = TRUE /\ vPaused' = FALSE
  /\ TryStart(aData, events \o <<<<"v", "play">>, <<"v", "playing">>>>)
  /\ UNCHANGED <<aMuted, aData, onCan, vsegStalled, mutedForStall, videoStalled, active,
                 resume, busy, bounds>>

\* The audio's first 'canplay': tryStart, then what onVideoPlay waits to play.
AudioCanPlay ==
  /\ ~aData /\ aData' = TRUE /\ onCan' = FALSE
  /\ TryStart(videoCan, events)
  /\ busy' = (onCan /\ ~started')
  /\ UNCHANGED <<video, aMuted, videoCan, vsegStalled, mutedForStall, videoStalled, active,
                 resume, bounds>>

-----------------------------------------------------------------------------
(* The video's events. *)

Due(element, name) == events # <<>> /\ Head(events) = <<element, name>>
Rest == Tail(events)

\* onVideoPlay
OnVideoPlay ==
  /\ Due("v", "play")
  /\ IF aData THEN AudioPlays(Rest, "played") /\ busy' = (busy \/ BusyWhile) /\ UNCHANGED onCan
     ELSE onCan' = TRUE /\ events' = Rest /\ UNCHANGED <<aPaused, busy>>
  /\ UNCHANGED <<video, aMuted, aData, start, stall, active, resume, bounds>>

\* Mutant: only the stall that was noticed outside a seek lifts the mute.
UnmuteOwn == mutedForStall

\* What the end of a stall unmutes.
Unmutes == mutedForStall \/ videoStalled

\* 'playing': both of its handlers; after mvPlay the audio is played.
OnVideoPlaying ==
  /\ Due("v", "playing") \/ Due("v", "played")
  /\ vsegStalled' = FALSE /\ mutedForStall' = (mutedForStall /\ ~vsegStalled)
  /\ videoStalled' = FALSE
  /\ gate' = IF videoStalled THEN started ELSE gate
  /\ aMuted' = (aMuted /\ ~Unmutes)
  /\ IF Due("v", "played") THEN AudioPlays(Rest, "playing")
     ELSE events' = Rest /\ UNCHANGED aPaused
  /\ UNCHANGED <<video, aData, onCan, start, active, resume, busy, bounds>>

\* The picture's pause is mirrored, whoever paused it.
PauseIsMirrored == TRUE

\* onVideoPause
OnVideoPause ==
  /\ Due("v", "pause")
  /\ IF PauseIsMirrored THEN AudioPauses(Rest) ELSE events' = Rest /\ UNCHANGED aPaused
  /\ UNCHANGED <<video, aMuted, aData, onCan, start, stall, active, resume, busy, bounds>>

\* 'waiting': both of its handlers mute; the first not during a seek.
OnVideoWait ==
  /\ Due("v", "waiting") /\ events' = Rest
  /\ IF ~started THEN UNCHANGED <<stall, aMuted>>
     ELSE LET first == ~active /\ ~vsegStalled
          IN /\ vsegStalled' = (vsegStalled \/ first)
             /\ mutedForStall' = (mutedForStall \/ (first /\ ~aMuted))
             /\ videoStalled' = TRUE
             /\ gate' = (gate /\ videoStalled)
             /\ aMuted' = (aMuted \/ first \/ ~videoStalled)
  /\ UNCHANGED <<video, aPaused, aData, onCan, start, active, resume, busy, bounds>>

\* 'seeked': the audio is resumed once the video has a lead.
OnSeeked ==
  /\ Due("v", "seeked") /\ events' = Rest
  /\ active' = FALSE /\ resume' = (resume \/ (~vPaused /\ aPaused))
  /\ UNCHANGED <<video, audio, onCan, start, stall, busy, bounds>>

\* tryResume, every 200 ms until the video is paused or has data.
TryResume ==
  /\ resume /\ (vPaused \/ vData) /\ resume' = FALSE
  /\ IF vPaused THEN UNCHANGED <<aPaused, events>> ELSE AudioPlays(events, "playing")
  /\ UNCHANGED <<video, aMuted, aData, onCan, start, stall, active, busy, bounds>>

-----------------------------------------------------------------------------
(* The audio's events, mirrored to the video. *)

OnAudioPlay ==
  /\ Due("a", "play")
  /\ IF active \/ busy \/ ~vPaused THEN events' = Rest /\ UNCHANGED vPaused
     ELSE VideoPlays(Rest, "playing")
  /\ UNCHANGED <<vData, audio, onCan, start, stall, active, resume, busy, bounds>>

\* 'playing', with which the play() of onVideoPlay may settle.
OnAudioPlaying ==
  /\ \/ Due("a", "playing") /\ busy' = busy
     \/ Due("a", "played") /\ busy' = FALSE
  /\ events' = Rest
  /\ UNCHANGED <<video, audio, onCan, start, stall, active, resume, bounds>>

OnAudioPause ==
  /\ Due("a", "pause")
  /\ IF active THEN events' = Rest /\ UNCHANGED vPaused ELSE VideoPauses(Rest)
  /\ UNCHANGED <<vData, audio, onCan, start, stall, active, resume, busy, bounds>>

-----------------------------------------------------------------------------
(* The user and the network. *)

Acts == user < MaxUser /\ user' = user + 1

\* mvPlay
MvPlay ==
  /\ Acts /\ started /\ vPaused /\ VideoPlays(events, "played")
  /\ UNCHANGED <<vData, audio, onCan, start, stall, active, resume, busy, stalls, muteKey>>

\* mvPause: the video, then the audio.
MvPause ==
  /\ Acts /\ started /\ ~vPaused /\ vPaused' = TRUE
  /\ AudioPauses(Append(events, <<"v", "pause">>))
  /\ UNCHANGED <<vData, aMuted, aData, onCan, start, stall, active, resume, busy, stalls, muteKey>>

\* m, or the volume slider at 0.
Mute ==
  /\ Acts /\ started /\ aMuted' = ~aMuted /\ muteKey' = ~aMuted
  /\ UNCHANGED <<video, aPaused, aData, events, onCan, start, stall, active, resume, busy, stalls>>

\* A seek to where nothing is buffered: the handler holds the audio.
Seek ==
  /\ Acts /\ started /\ ~active
  /\ active' = TRUE /\ vData' = FALSE
  /\ AudioPauses(IF vData /\ ~vPaused THEN Append(events, <<"v", "waiting">>) ELSE events)
  /\ UNCHANGED <<vPaused, aMuted, aData, onCan, start, stall, resume, busy, stalls, muteKey>>

\* The picture runs out of data.
Starve ==
  /\ stalls < MaxStalls /\ stalls' = stalls + 1
  /\ videoCan /\ vData /\ vData' = FALSE
  /\ events' = IF vPaused THEN events ELSE Append(events, <<"v", "waiting">>)
  /\ UNCHANGED <<vPaused, audio, onCan, start, stall, active, resume, busy, user, muteKey>>

\* Data comes, which ends a seek too.
Data ==
  /\ videoCan /\ ~vData /\ vData' = TRUE
  /\ LET playing == IF vPaused THEN <<>> ELSE <<<<"v", "playing">>>>
         seeked  == IF active THEN <<<<"v", "seeked">>>> ELSE <<>>
     IN events' \in {events \o seeked \o playing, events \o playing \o seeked}
  /\ UNCHANGED <<vPaused, audio, onCan, start, stall, active, resume, busy, bounds>>

VideoEvents == OnVideoPlay \/ OnVideoPlaying \/ OnVideoPause \/ OnVideoWait \/ OnSeeked
AudioEvents == OnAudioPlay \/ OnAudioPlaying \/ OnAudioPause
Next == VideoEvents \/ AudioEvents \/ TryResume \/ VideoCanPlay \/ AudioCanPlay
        \/ MvPlay \/ MvPause \/ Mute \/ Seek \/ Starve \/ Data

\* Events are delivered, timers fire and data comes.
Fairness == /\ WF_vars(VideoEvents \/ AudioEvents) /\ WF_vars(TryResume)
            /\ WF_vars(VideoCanPlay) /\ WF_vars(AudioCanPlay) /\ WF_vars(Data)

Spec == Init /\ [][Next]_vars /\ Fairness

-----------------------------------------------------------------------------
(* Properties. *)

EventNames == ({"v"} \X {"play", "playing", "played", "pause", "waiting", "seeked"})
              \union ({"a"} \X {"play", "playing", "played", "pause"})
TypeOK ==
  /\ vPaused \in BOOLEAN /\ vData \in BOOLEAN
  /\ aPaused \in BOOLEAN /\ aMuted \in BOOLEAN /\ aData \in BOOLEAN
  /\ onCan \in BOOLEAN /\ busy \in BOOLEAN
  /\ videoCan \in BOOLEAN /\ started \in BOOLEAN /\ gate \in BOOLEAN
  /\ vsegStalled \in BOOLEAN /\ mutedForStall \in BOOLEAN /\ videoStalled \in BOOLEAN
  /\ active \in BOOLEAN /\ resume \in BOOLEAN /\ muteKey \in BOOLEAN
  /\ events \in Seq(EventNames)
  /\ started => videoCan /\ aData

\* Nothing is to come: no event, no retry, no seek, and the picture has its data.
AtRest == events = <<>> /\ ~resume /\ ~active /\ started /\ vData

\* At rest the picture and the sound are both paused or both playing, whichever was told
\* first and whatever overtook what (onVideoPlay, onVideoPause and the mkAudio mirrors).
PictureAndSoundAgree == AtRest => vPaused = aPaused

\* A picture that plays again has its sound and its seek bar back, unless the user muted it
\* (the two 'waiting' and 'playing' handlers, which keep flags of their own).
StallLeavesNoTrace == AtRest /\ ~vPaused => gate /\ (aMuted => muteKey)

Settled == events = <<>> /\ ~resume

\* The elements do not drive each other for ever (_playMirrorBusy).
Settles == []<>Settled
=============================================================================
