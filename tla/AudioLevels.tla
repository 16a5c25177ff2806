---------------------------- MODULE AudioLevels ----------------------------
(***************************************************************************)
(* Two readings of a track's own sound (engine-playback.js).  Sound Check     *)
(* fetches the start of the stream for its loudness and attenuates the track, *)
(* with libvlc's volume for a lossless one and a gain node for the others.     *)
(* The adaptive crossfade decodes the cached bytes to learn how the track      *)
(* ends.  Both answers come back while tracks and settings change.             *)
(***************************************************************************)
EXTENDS Naturals, FiniteSets

CONSTANTS Tracks,      \* the tracks played, 1..n in this order
          Lossless,    \* those that play through libvlc
          Soft,        \* those that are not louder than the reference, and need no attenuation
          MaxUser,     \* bound: changes of the setting or the volume
          MaxPosts     \* bound: volume posts

LevelsAssumption == /\ Cardinality(Tracks) \in Nat /\ Tracks = 1..Cardinality(Tracks)
                    /\ MaxUser \in Nat /\ MaxPosts \in Nat

Unity == 0             \* a factor of 1.0; any other factor is named after its track
None == 0
Distorted == 0

VARIABLES
  track, path,    \* the track whose session is current; "none", "vlc" or "mse" once its path is set up
  enabled,        \* _soundCheckEnabled
  factor, gain,   \* _scFactor and _audioGain.gain.value
  graph,          \* the WebAudio graph: "none", "made", "failed"
  fetches,        \* _scFetchLoudness and the context's resume under way: [id, track, pc]
  volume,         \* _vlcVolume: a number of the user's, or Distorted
  loads,          \* tracks libvlc is loading, and the volume they remember: [track, volume]
  posts,          \* volumes posted to libvlc on their way: [n, volume, factor]
  heard,          \* the one libvlc plays with
  posted,         \* posts made so far
  user, calls,    \* the user's changes; _scApplyForTrack calls so far
  strayed,        \* history: since the factor was reset, a reading came that was another
                  \* track's, or one of a time when Sound Check was on
  decodes,        \* _xfPlanAdaptive decodes under way, by track
  planned, planSession, armed, fade, \* _xfPlannedSec and _xfPlanSession; _gaplessArmed; the length used, by track
  untold          \* history: the last post crossed another, or was that of a track that was left,
                  \* or the factor was reset without one

soundVars == <<path, enabled, factor, gain, graph, fetches, volume, loads, posts, heard, posted, user, calls, strayed, untold>>
planVars == <<decodes, planned, planSession, armed, fade>>
vars == <<track, soundVars, planVars>>

Init ==
  /\ track = 0 /\ path = "none" /\ enabled \in BOOLEAN
  /\ factor = Unity /\ gain = Unity /\ graph = "none" /\ fetches = {} /\ volume = 1 /\ loads = {}
  /\ posts = {} /\ heard = [volume |-> 1, factor |-> Unity] /\ posted = 0
  /\ user = 0 /\ calls = 0 /\ strayed = FALSE /\ untold = FALSE
  /\ decodes = {} /\ planned = None /\ planSession = None /\ armed = FALSE /\ fade = None

\* _postVlcVol: a request of its own; two of them may arrive in any order.
Post(v, f) ==
  /\ posted < MaxPosts /\ posted' = posted + 1
  /\ posts' = posts \union {[n |-> posted + 1, volume |-> v, factor |-> f]}
Crosses == posts # {}

\* _scVlcReapply, which exists once the VLC path's closures do.
Reapply(f) ==
  IF path = "vlc" THEN Post(volume, f) /\ untold' = Crosses
  ELSE UNCHANGED <<posts, posted, untold>>

\* _scApplyForTrack begins with no attenuation.
Unattenuated == Unity

\* _scApplyForTrack, up to its fetch.
Apply(on, t) ==
  /\ factor' = Unattenuated /\ gain' = IF graph = "made" THEN Unity ELSE gain
  /\ IF on /\ t # 0
     THEN fetches' = fetches \union {[id |-> calls + 1, track |-> t, pc |-> "fetch"]} /\ calls' = calls + 1
     ELSE UNCHANGED <<fetches, calls>>

\* The next track: its session is resolved and announced, its path not set up yet.
NextTrack ==
  /\ track < Cardinality(Tracks) /\ track' = track + 1
  /\ path' = "none" /\ strayed' = FALSE
  /\ Apply(enabled, track')
  /\ armed' = FALSE /\ planned' = None /\ planSession' = None /\ fade' = None
  /\ UNCHANGED <<enabled, graph, volume, loads, posts, heard, posted, user, untold, decodes>>

\* The path is set up: libvlc is asked to load, or the stream is attached.
SetUp ==
  /\ track # 0 /\ path = "none"
  /\ path' = IF track \in Lossless THEN "vlc" ELSE "mse"
  /\ loads' = IF path' = "vlc" THEN loads \union {[track |-> track, volume |-> volume]} ELSE loads
  /\ UNCHANGED <<track, enabled, factor, gain, graph, fetches, volume, posts, heard, posted, user, calls, strayed, untold, planVars>>

\* libvlc has loaded: the remembered volume is posted, by an older track's load too, if it was not
\* aborted in time.
VlcLoaded(l) ==
  /\ l \in loads /\ loads' = loads \ {l}
  /\ \/ Post(l.volume, factor) /\ untold' = (Crosses \/ l.track # track)
     \/ l.track # track /\ UNCHANGED <<posts, posted, untold>>
  /\ UNCHANGED <<track, path, enabled, factor, gain, graph, fetches, volume, heard, user, calls, strayed, planVars>>

\* _vlcSyncVolume: a poll's reply, 1.5 s after the last post, that differs from what was posted.
SyncVolume ==
  /\ path = "vlc" /\ loads = {} /\ posts = {} /\ heard # [volume |-> volume, factor |-> factor]
  /\ volume' = IF heard.factor = factor THEN heard.volume ELSE Distorted
  /\ heard' = [volume |-> volume', factor |-> factor] /\ untold' = FALSE
  /\ UNCHANGED <<track, path, enabled, factor, gain, graph, fetches, loads, posts, posted, user, calls, strayed, planVars>>

\* _ensureAudioGraph: made once, or never.
GraphMade == IF graph = "none" THEN {"made", "failed"} ELSE {graph}

\* The reading is that of the track, and wanted.
Mine(f) == f.track = track /\ enabled

\* Loudness known: libvlc's volume is posted again, or the gain is set, the context running first.
Loudness(f) ==
  /\ f \in fetches /\ f.pc = "fetch"
  /\ \/ /\ fetches' = fetches \ {f}     \* no loudness, or the fetch failed
        /\ UNCHANGED <<factor, gain, graph, posts, posted, strayed, untold>>
     \/ /\ f.track \in Soft /\ fetches' = fetches \ {f} /\ factor' = Unity
        /\ untold' = (untold \/ (path = "vlc" /\ factor # Unity))
        /\ UNCHANGED <<gain, graph, posts, posted, strayed>>
     \/ /\ f.track \notin Soft /\ factor' = f.track /\ strayed' = (strayed \/ ~Mine(f))
        /\ CASE path = "vlc" -> /\ Reapply(f.track) /\ fetches' = fetches \ {f}
                                       /\ UNCHANGED <<gain, graph>>
             [] OTHER ->
                  /\ graph' \in GraphMade
                  /\ fetches' = (fetches \ {f}) \union
                        (IF graph' = "made" THEN {[f EXCEPT !.pc = "resume"]} ELSE {})
                  /\ UNCHANGED <<gain, posts, posted, untold>>
  /\ UNCHANGED <<track, path, enabled, volume, loads, heard, user, calls, planVars>>

\* The audio context runs: the gain is set.
Resumed(f) ==
  /\ f \in fetches /\ f.pc = "resume"
  /\ fetches' = fetches \ {f} /\ gain' = f.track
  /\ strayed' = (strayed \/ ~Mine(f))
  /\ UNCHANGED <<track, path, enabled, factor, graph, volume, loads, posts, heard, posted, user, calls, untold, planVars>>

\* _scSetEnabled.
Toggle ==
  /\ user < MaxUser /\ user' = user + 1 /\ enabled' = ~enabled
  /\ IF enabled'
     THEN /\ Apply(TRUE, track) /\ UNCHANGED <<posts, posted>>
          /\ untold' = (untold \/ (path = "vlc" /\ factor # factor'))
     ELSE /\ factor' = Unity /\ gain' = IF graph = "made" THEN Unity ELSE gain
          /\ Reapply(Unity) /\ UNCHANGED <<fetches, calls>>
  /\ strayed' = FALSE
  /\ UNCHANGED <<track, path, graph, volume, loads, heard, planVars>>

\* The user moves the volume of a lossless track: it is posted, scaled.
SetVolume ==
  /\ path = "vlc" /\ user < MaxUser
  /\ user' = user + 1 /\ volume' = volume + 1
  /\ loads' = {IF l.track = track THEN [l EXCEPT !.volume = volume'] ELSE l : l \in loads}
  /\ Post(volume', factor) /\ untold' = Crosses
  /\ UNCHANGED <<track, path, enabled, factor, gain, graph, fetches, heard, calls, strayed, planVars>>

\* The engine sets a volume posted.
VolumeSet(p) ==
  /\ p \in posts
  /\ posts' = posts \ {p} /\ heard' = [volume |-> p.volume, factor |-> p.factor]
  /\ UNCHANGED <<track, path, enabled, factor, gain, graph, fetches, volume, loads, posted, user, calls, strayed, untold, planVars>>

-----------------------------------------------------------------------------
\* Near the end of a track the next stream is fetched, and its own ending is read (_xfPlanAdaptive).
ArmGapless ==
  /\ path = "mse" /\ ~armed /\ armed' = TRUE
  /\ decodes' = IF planSession = track /\ planned # None THEN decodes ELSE decodes \union {track}
  /\ UNCHANGED <<track, soundVars, planned, planSession, fade>>

\* The ending is known, or the decode failed.
Decoded(t) ==
  /\ t \in decodes /\ decodes' = decodes \ {t}
  /\ \/ planned' = t /\ planSession' = t
     \/ UNCHANGED <<planned, planSession>>
  /\ UNCHANGED <<track, soundVars, armed, fade>>

\* The plan is used for the session it belongs to only.
OwnPlan == planSession = track /\ planned # None

\* The crossfade's window: the plan's length, else the level just sampled (_xfAdaptiveDuration),
\* which makes the graph.
FadeOut ==
  /\ path = "mse" /\ armed /\ fade = None
  /\ IF OwnPlan THEN fade' = planned /\ UNCHANGED graph
     ELSE fade' = track /\ graph' \in GraphMade
  /\ UNCHANGED <<track, path, enabled, factor, gain, fetches, volume, loads, posts, heard, posted, user, calls, strayed, untold>>
  /\ UNCHANGED <<decodes, planned, planSession, armed>>

Answers ==
  \/ \E f \in fetches : Loudness(f) \/ Resumed(f)
  \/ \E l \in loads : VlcLoaded(l)
  \/ \E p \in posts : VolumeSet(p)
  \/ \E t \in decodes : Decoded(t)
Next == NextTrack \/ SetUp \/ SyncVolume \/ Toggle \/ SetVolume \/ Answers \/ ArmGapless \/ FadeOut
Spec == Init /\ [][Next]_vars

-----------------------------------------------------------------------------
\* The types of the variables.
TypeOK ==
  /\ track \in 0..Cardinality(Tracks) /\ path \in {"none", "vlc", "mse"}
  /\ factor \in {Unity} \union Tracks /\ gain \in {Unity} \union Tracks /\ planned \in {None} \union Tracks
  /\ planSession \in {None} \union Tracks /\ fade \in {None} \union Tracks
  /\ graph \in {"none", "made", "failed"} /\ volume \in Nat /\ calls \in Nat
  /\ enabled \in BOOLEAN /\ armed \in BOOLEAN /\ strayed \in BOOLEAN /\ untold \in BOOLEAN
  /\ fetches \subseteq [id : Nat, track : Tracks, pc : {"fetch", "resume"}]
  /\ loads \subseteq [track : Tracks, volume : Nat]
  /\ posts \subseteq [n : Nat, volume : Nat, factor : {Unity} \union Tracks]
  /\ heard \in [volume : Nat, factor : {Unity} \union Tracks]
  /\ posted \in 0..MaxPosts /\ user \in 0..MaxUser /\ decodes \subseteq Tracks

\* A track is played with its own attenuation or with none, and with none while Sound Check is
\* off, but for a reading that came too late since the factor was last reset (5738-5753 do not
\* look whose it is): what such a reading did is over with the next track or switch.
FactorIsOwn ==
  ~strayed => /\ factor \in {Unity, track} /\ gain \in {Unity, track}
              /\ ~enabled => factor = Unity /\ gain = Unity

\* Once its load and its posts are done, libvlc plays a lossless track with the volume and the
\* factor of now, whatever readings, late ones among them, changed the factor meanwhile, but for
\* the posts that crossed, and until the next poll of its volume.
VolumeIsTold ==
  path = "vlc" /\ loads = {} /\ posts = {} /\ ~untold => heard = [volume |-> volume, factor |-> factor]
LevelIsOwn == FactorIsOwn /\ VolumeIsTold

\* A track fades out by the reading of its own ending.
FadeIsOwn == fade \in {None, track}

\* The inductive invariant.  libvlc plays with the volume and the factor of now, or will: the load
\* under way or the post on its way carries them.
GainNeedsGraph == /\ gain # Unity => graph = "made"
                  /\ \A f \in fetches : f.pc = "resume" => graph = "made"
PostsAreNew ==
  /\ \A l \in loads : l.track <= track /\ (l.track = track => path = "vlc" /\ l.volume = volume)
  /\ path = "vlc" /\ ~untold /\ (\A l \in loads : l.track # track) =>
       /\ \A p \in posts : p.volume = volume /\ p.factor = factor
       /\ posts = {} => heard = [volume |-> volume, factor |-> factor]
PostsNumbered == \A p \in posts : p.n <= posted
IInv == /\ TypeOK /\ FactorIsOwn /\ GainNeedsGraph /\ PostsAreNew /\ PostsNumbered
        /\ planned = planSession /\ FadeIsOwn /\ (path # "none" => track # 0)

(* Expected to fail: with Sound Check off the factor is 1.0 (engine-playback.js:5640-5641); an
   answer on its way when it is turned off attenuates the track all the same. *)
OffIsUnattenuated == ~enabled => factor = Unity
=============================================================================
