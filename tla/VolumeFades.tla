----------------------------- MODULE VolumeFades -----------------------------
(***************************************************************************)
(* The crossfade of engine-playback.js: volume ramps on the one audio element *)
(* the page has, down at the tail of a track and up at the head of the next.  *)
(* AAC tracks play on the element; a lossless (VLC) track replaces its volume *)
(* property by one that posts to the player.  A volumechange event is a task  *)
(* of its own: it is read after the code that wrote the volume has run on.    *)
(***************************************************************************)
EXTENDS Integers, FiniteSets

CONSTANTS Full,       \* volume levels: 0 to Full, which a ramp passes in Full steps
          MaxTracks,  \* bound: tracks played
          MaxUser     \* bound: volume and mode changes by the user

FadesAssumption == Full \in Nat \ {0} /\ MaxTracks \in Nat /\ MaxUser \in Nat

Levels == 0..Full
None == Full + 1

VARIABLES
  path,     \* how the current track plays: "mse", "vlc", or "none" between two tracks
  replaced, \* the element's volume property is the lossless path's
  volume, vlcVolume, \* the element's and the player's
  noticed,  \* no volumechange event of the element is unread
  on,       \* _crossfadeSec > 0
  base,     \* _xfBaseVol
  ramps,    \* the interval timers of the ramps
  timer,    \* _xfTimer: the ramp the code knows (_xfRamping with it), or 0
  fadedOut, skipIn, \* _xfFadedOut, _xfSkipNextFadeIn
  fadedIn,  \* history: since this track's head began to fade in, nothing else has set the volume
  chosen,   \* history: the volume the user chose last
  track, changes

vars == <<path, replaced, volume, vlcVolume, noticed, on, base, ramps, timer, fadedOut, skipIn, fadedIn, chosen, track, changes>>

Init ==
  /\ path = "none" /\ replaced = FALSE /\ volume = Full /\ vlcVolume = Full /\ noticed = TRUE
  /\ on = TRUE /\ base = None /\ ramps = {} /\ timer = 0 /\ fadedOut = FALSE /\ skipIn = FALSE
  /\ fadedIn = FALSE /\ chosen = Full /\ track = 0 /\ changes = 0

\* A write to the element's volume property.
Write(v) ==
  IF replaced THEN vlcVolume' = v /\ UNCHANGED <<volume, noticed>>
  ELSE volume' = v /\ noticed' = (noticed /\ v = volume) /\ UNCHANGED vlcVolume

Cancelled == {r \in ramps : r.id # timer}   \* _xfCancel

\* _xfRamp
Ramp(to, from) ==
  LET id == IF timer = 1 THEN 2 ELSE 1 IN
  /\ timer' = id /\ ramps' = Cancelled \union {[id |-> id, from |-> from, to |-> to, step |-> 0]}

-----------------------------------------------------------------------------
(* Tracks. *)

\* _resetPlaybackState aborts the track that plays: its listeners and the lossless path's volume go,
\* unless its load had not ended (4843-4881).  The ramp is left to run.
Leave ==
  /\ path # "none" /\ path' = "none" /\ fadedIn' = FALSE
  /\ replaced' \in (IF path = "vlc" /\ replaced THEN BOOLEAN ELSE {replaced})
  /\ UNCHANGED <<volume, vlcVolume, noticed, on, base, ramps, timer, fadedOut, skipIn, chosen, track, changes>>

\* _setupMSEPath and _xfFadeIn.
EnterMse ==
  /\ path = "none" /\ track < MaxTracks /\ track' = track + 1 /\ path' = "mse" /\ fadedOut' = FALSE
  /\ IF ~on \/ skipIn
     THEN /\ skipIn' = (skipIn /\ ~on) /\ UNCHANGED <<volume, vlcVolume, noticed, base, ramps, timer, fadedIn>>
     ELSE LET cur == IF replaced THEN vlcVolume ELSE volume IN
          /\ base' = (IF base # None THEN base ELSE IF cur = 0 THEN Full ELSE cur)
          /\ Write(0) /\ Ramp(base', 0) /\ fadedIn' = TRUE /\ UNCHANGED skipIn
  /\ UNCHANGED <<replaced, on, chosen, changes>>

\* _setupVLCPath
EnterVlc ==
  /\ path = "none" /\ track < MaxTracks /\ track' = track + 1 /\ path' = "vlc" /\ replaced' = TRUE
  /\ UNCHANGED <<volume, vlcVolume, noticed, on, base, ramps, timer, fadedOut, skipIn, fadedIn, chosen, changes>>

Decisions == {"fade", "skip-gapless", "skip"}   \* _xfDecision; "wait" comes back at the next tick

\* onGaplessTick in the tail.
Tail ==
  /\ path = "mse" /\ on /\ ~fadedOut /\ fadedOut' = TRUE /\ fadedIn' = FALSE
  /\ \E d \in Decisions :
       /\ IF d = "fade" THEN Ramp(0, IF replaced THEN vlcVolume ELSE volume) ELSE UNCHANGED <<ramps, timer>>
       /\ skipIn' = (skipIn \/ d = "skip-gapless")
  /\ UNCHANGED <<path, replaced, volume, vlcVolume, noticed, on, base, chosen, track, changes>>

\* The level a ramp passes at its next tick.
Passed(r) ==
  IF r.to >= r.from THEN r.from + ((r.step + 1) * (r.to - r.from)) \div Full
  ELSE r.from - ((r.step + 1) * (r.from - r.to)) \div Full

\* One tick of a ramp's interval; the last one cancels the ramp the code knows.
Step(r) ==
  /\ r \in ramps /\ Write(Passed(r))
  /\ IF r.step + 1 = Full THEN ramps' = Cancelled /\ timer' = 0
     ELSE ramps' = (ramps \ {r}) \union {[r EXCEPT !.step = @ + 1]} /\ UNCHANGED timer
  /\ UNCHANGED <<path, replaced, on, base, fadedOut, skipIn, fadedIn, chosen, track, changes>>

-----------------------------------------------------------------------------
(* The user, and the event. *)

UserVolume(v) ==
  /\ changes < MaxUser /\ changes' = changes + 1 /\ Write(v) /\ chosen' = v /\ fadedIn' = FALSE
  /\ UNCHANGED <<path, replaced, on, base, ramps, timer, fadedOut, skipIn, track>>

\* onXfVol: the volume outside the ramps is taken for the user's.
VolumeChange ==
  /\ ~noticed /\ noticed' = TRUE
  /\ base' = IF path = "mse" /\ timer = 0 THEN (IF replaced THEN vlcVolume ELSE volume) ELSE base
  /\ UNCHANGED <<path, replaced, volume, vlcVolume, on, ramps, timer, fadedOut, skipIn, fadedIn, chosen, track, changes>>

\* _xfSetMode, _xfRecompute
SetMode ==
  /\ changes < MaxUser /\ changes' = changes + 1 /\ on' = ~on /\ fadedIn' = FALSE
  /\ IF on THEN /\ ramps' = Cancelled /\ timer' = 0
                /\ IF base # None THEN Write(base) ELSE UNCHANGED <<volume, vlcVolume, noticed>>
     ELSE UNCHANGED <<ramps, timer, volume, vlcVolume, noticed>>
  /\ UNCHANGED <<path, replaced, base, fadedOut, skipIn, chosen, track>>

Next ==
  \/ Leave \/ EnterMse \/ EnterVlc \/ Tail \/ VolumeChange \/ SetMode
  \/ (\E r \in ramps : Step(r)) \/ (\E v \in Levels : UserVolume(v))

Spec == Init /\ [][Next]_vars

-----------------------------------------------------------------------------
(* Properties. *)

TypeOK ==
  /\ path \in {"none", "mse", "vlc"} /\ replaced \in BOOLEAN /\ noticed \in BOOLEAN /\ on \in BOOLEAN
  /\ fadedOut \in BOOLEAN /\ skipIn \in BOOLEAN /\ fadedIn \in BOOLEAN
  /\ volume \in Levels /\ vlcVolume \in Levels /\ chosen \in Levels /\ base \in Levels \union {None}
  /\ ramps \subseteq [id : {1, 2}, from : Levels, to : Levels, step : 0..(Full - 1)] /\ timer \in 0..2

\* A head that fades in arrives: when its ramp is over and nothing else has set the volume since, the
\* track is at the volume the fade was for.  The tail of the track before, whose ramp may still run when
\* the next one starts (_xfRamp, 5965-5979), does not pull it down again.
HeadIsHeard == fadedIn /\ timer = 0 => (IF replaced THEN vlcVolume ELSE volume) = base

\* The inductive invariant: at most the ramp the code knows runs, and while a head fades in that
\* ramp leads from silence to the volume the fade is for.
OneRamp == \A r \in ramps : r.id = timer
HeadRamps ==
  fadedIn =>
    /\ path = "mse" /\ base # None
    /\ timer # 0 => /\ ramps # {}
                    /\ \A r \in ramps : r.from = 0 /\ r.to = base
IInv == TypeOK /\ OneRamp /\ HeadRamps /\ HeadIsHeard

\* The comment at 5778: a fade never touches the VLC/lossless path.
FadesStayOnAac == [][path = "vlc" /\ ramps' # ramps => vlcVolume' = vlcVolume]_vars

\* The comment at _xfBaseVol: the user's chosen volume, tracked outside our ramps.
BaseIsTheUsers == noticed /\ base # None /\ base = 0 => chosen = 0
=============================================================================
