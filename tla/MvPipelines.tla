---------------------------- MODULE MvPipelines ----------------------------
(***************************************************************************)
(* The pipelines of music videos, one after another (startMVPipeline in    *)
(* electron/src/engine-playback.js): what each puts on the page, how it    *)
(* leaves, and the track changes, timers and late events around it.        *)
(* A pipeline takes over functions of the whole page and gives them back   *)
(* in cleanup, which exists only once the pipeline has come to its end.    *)
(***************************************************************************)
EXTENDS Naturals, Sequences, FiniteSets

CONSTANTS
  MaxPipes,      \* bound: videos opened
  MaxChanges     \* bound: track changes by the user or by MusicKit

Pipes == 1..MaxPipes
None  == 0
Song  == MaxPipes + 1     \* the abort controller of a track without a picture

VARIABLES
  pc,          \* "new", "container", "audio", "video", "run", "gone", "early"
  put,         \* what pipeline p has put on the page and not taken down
  started,     \* _avStarted
  sound,       \* p's mkAudio plays
  leave,       \* p's exit-click timer runs (after 'ended' or an error)
  gate,        \* _mvGateOpen
  icept,       \* whose Function.prototype.call and apply are in place
  fs, savedFs, \* whose requestFullscreen is in place; p's _origReqFS
  ctrl,        \* _abortCtrl: None, Song or a pipeline
  opening,     \* the track change that resolves its session: "none", "song", "mv"
  gen,         \* _generation
  quality      \* after a quality change: its timer, the generation it saw, and the track
               \* changes since, its own one included

page    == <<gate, icept, fs, savedFs>>
session == <<ctrl, opening, gen>>
vars    == <<pc, put, started, sound, leave, page, session, quality>>

NoQuality == [timer |-> FALSE, gen |-> 0, restarts |-> 0]

Init ==
  /\ pc = [p \in Pipes |-> "new"] /\ put = [p \in Pipes |-> {}]
  /\ started = [p \in Pipes |-> FALSE] /\ sound = [p \in Pipes |-> FALSE]
  /\ leave = [p \in Pipes |-> FALSE]
  /\ gate = TRUE /\ icept = None /\ fs = None /\ savedFs = [p \in Pipes |-> None]
  /\ ctrl = None /\ opening = "none" /\ gen = 0
  /\ quality = NoQuality

-----------------------------------------------------------------------------
(* What a pipeline puts on the page and takes down. *)

Picture   == {"video"}                       \* myVid, in the container's styles
Native    == {"native play"}                 \* nativeVidEl.play and pause drive the pipeline
Captions  == {"captions", "spinner"}
Layout    == {"layout"}
Scrim     == {"scrim"}
Exit      == {"exit"}                        \* the exit button's listener
Quality   == {"quality button"}
Menu      == {"menu"}
MenuKeys  == {"menu keys"}                   \* gone with the menu and its button
Scrubber  == {"scrubber"}                    \* listeners of the native scrubber
PlayButton == {"play button"}
Volume    == {"volume"}                      \* listener of the native slider
AutoHide  == {"hide timer"}
Keys      == {"keys"}                        \* keydown of the document
Clicks    == {"clicks"}
Progress  == {"progress"}                    \* the interval that moves the scrubber
Overlay   == Picture \union Native \union Captions \union Layout \union Scrim \union Exit
             \union Quality \union Menu \union MenuKeys \union Scrubber \union PlayButton
             \union Volume \union AutoHide \union Keys \union Clicks \union Progress

\* What cleanup does not take down.
Stays == Native \union Scrubber \union Volume

-----------------------------------------------------------------------------
(* Leaving. *)

\* Mutant: cleanup leaves the redirect of requestFullscreen in place.
FullscreenKept(p) == fs

\* cleanup puts back what the pipeline found.
FullscreenBack(p) == savedFs[p]

\* The abort of the current session: a running pipeline cleans up; one that still waits for
\* the container, or for a media source to open, drops its elements and returns.
AbortSession ==
  LET p == ctrl
  IN IF p \notin {q \in Pipes : pc[q] \notin {"gone", "early"}} THEN UNCHANGED <<pc, put, sound, page>>
     ELSE IF pc[p] = "run"
     THEN /\ pc' = [pc EXCEPT ![p] = "gone"]
          /\ put' = [put EXCEPT ![p] = @ \intersect Stays]
          /\ sound' = [sound EXCEPT ![p] = FALSE]
          /\ gate' = TRUE /\ icept' = None /\ fs' = FullscreenBack(p)
          /\ UNCHANGED savedFs
     ELSE pc' = [pc EXCEPT ![p] = "early"] /\ UNCHANGED <<put, sound, page>>

-----------------------------------------------------------------------------
(* Track changes. *)

\* handleTrackChange: the old session is aborted, the new one is being resolved.
HandleTrackChange(kind) ==
  /\ AbortSession
  /\ ctrl' = None /\ gen' = gen + 1 /\ opening' = kind

UnusedPipe == CHOOSE p \in Pipes : pc[p] = "new" /\ \A q \in Pipes : q < p => pc[q] # "new"
MayOpen == \E p \in Pipes : pc[p] = "new"

\* Another track is chosen, or the queue goes on.
Change ==
  /\ gen < MaxChanges
  /\ \E kind \in {"song", "mv"} : HandleTrackChange(kind)
  /\ quality' = [quality EXCEPT !.restarts = IF quality.timer THEN 1 ELSE 0]
  /\ UNCHANGED <<started, leave>>

\* The session is there: its abort controller is made, and a video's pipeline entered.
Opened ==
  /\ opening # "none" /\ opening' = "none"
  /\ IF opening = "mv" /\ MayOpen
     THEN /\ ctrl' = UnusedPipe /\ gate' = FALSE
          /\ pc' = [pc EXCEPT ![UnusedPipe] = "container"]
     ELSE ctrl' = Song /\ UNCHANGED <<gate, pc>>
  /\ UNCHANGED <<put, started, sound, leave, icept, fs, savedFs, gen, quality>>

-----------------------------------------------------------------------------
(* The way of a pipeline. *)

Live(p) == ctrl = p

\* The container is there: everything up to the wait for the audio's media source.
ContainerFound(p) ==
  /\ pc[p] = "container" /\ pc' = [pc EXCEPT ![p] = "audio"]
  /\ icept' = p /\ fs' = p /\ savedFs' = [savedFs EXCEPT ![p] = fs]
  /\ put' = [put EXCEPT ![p] = Overlay]
  /\ UNCHANGED <<started, sound, leave, gate, session, quality>>

\* The container is waited for ten seconds only.
GivesUp(p) == pc[p] = "container"

\* No container: the elements are removed and the pipeline returns.
ContainerMissing(p) ==
  /\ GivesUp(p) /\ pc' = [pc EXCEPT ![p] = "early"]
  /\ UNCHANGED <<put, started, sound, leave, page, session, quality>>

AudioOpens(p) ==
  /\ pc[p] = "audio" /\ pc' = [pc EXCEPT ![p] = "video"]
  /\ UNCHANGED <<put, started, sound, leave, page, session, quality>>

\* The video's media source is open: _activeMvControls, _setupVsegVideo, the listeners and
\* cleanup are in place.
VideoOpens(p) ==
  /\ pc[p] = "video" /\ pc' = [pc EXCEPT ![p] = "run"]
  /\ UNCHANGED <<put, started, sound, leave, page, session, quality>>

\* tryStart, which asks the current session whether it is aborted: also for a pipeline
\* that has been left, when its elements find data late.
TryStart(p) ==
  /\ pc[p] \in {"run", "gone"} /\ ~started[p]
  /\ pc[p] = "gone" => ctrl # p
  /\ started' = [started EXCEPT ![p] = TRUE] /\ gate' = TRUE
  /\ sound' = [sound EXCEPT ![p] = TRUE]
  /\ UNCHANGED <<pc, put, leave, icept, fs, savedFs, session, quality>>

\* Apple's player plays its own element, which is forwarded to the pipeline.
NativePlay(p) ==
  /\ Native \subseteq put[p] /\ started[p] /\ ~sound[p]
  /\ sound' = [sound EXCEPT ![p] = TRUE]
  /\ UNCHANGED <<pc, put, started, leave, page, session, quality>>

NativePause(p) ==
  /\ Native \subseteq put[p] /\ started[p] /\ sound[p]
  /\ sound' = [sound EXCEPT ![p] = FALSE]
  /\ UNCHANGED <<pc, put, started, leave, page, session, quality>>

-----------------------------------------------------------------------------
(* Leaving, by whom. *)

\* Escape or the exit button: of any pipeline whose listener is still there.
Escape(p) ==
  /\ Keys \subseteq put[p] /\ ctrl # None /\ AbortSession
  /\ UNCHANGED <<started, leave, session, quality>>

\* onEnded, onVideoError: the next track is asked for, and the exit button is clicked later.
Ended(p) ==
  /\ pc[p] = "run" /\ Live(p) /\ AbortSession
  /\ leave' = [leave EXCEPT ![p] = TRUE]
  /\ UNCHANGED <<started, session, quality>>

\* The exit button is clicked after 200 ms, whoever listens to it then.
ExitClicked(p) ==
  /\ leave[p] /\ leave' = [leave EXCEPT ![p] = FALSE]
  /\ IF \E q \in Pipes : Exit \subseteq put[q] THEN AbortSession
     ELSE UNCHANGED <<pc, put, sound, page>>
  /\ UNCHANGED <<started, session, quality>>

\* Another quality is chosen in the menu of a running pipeline.
ChooseQuality(p) ==
  /\ Menu \subseteq put[p] /\ pc[p] = "run" /\ Live(p) /\ ~quality.timer /\ AbortSession
  /\ quality' = [timer |-> TRUE, gen |-> gen, restarts |-> 0]
  /\ UNCHANGED <<started, leave, session>>

\* MusicKit may report the track anew when call and apply are given back.
NaturalRestart ==
  /\ quality.timer /\ quality.gen = gen /\ quality.restarts = 0
  /\ HandleTrackChange("mv")
  /\ quality' = [quality EXCEPT !.restarts = 1]
  /\ UNCHANGED <<started, leave>>

\* The timer restarts the track unless a track change came first.
StillWanted == gen = quality.gen

\* The timer of the quality change (T().qualityRace).
QualityTimer ==
  /\ quality.timer
  /\ IF StillWanted
     THEN HandleTrackChange("mv")
          /\ quality' = [timer |-> FALSE, gen |-> quality.gen, restarts |-> quality.restarts + 1]
     ELSE quality' = [quality EXCEPT !.timer = FALSE]
          /\ UNCHANGED <<pc, put, sound, page, session>>
  /\ UNCHANGED <<started, leave>>

-----------------------------------------------------------------------------
Leaves(p) == Escape(p) \/ Ended(p) \/ ExitClicked(p) \/ ChooseQuality(p)
Goes(p)   == ContainerFound(p) \/ ContainerMissing(p) \/ AudioOpens(p) \/ VideoOpens(p)
Plays(p)  == TryStart(p) \/ NativePlay(p) \/ NativePause(p)
Next == Change \/ Opened \/ NaturalRestart \/ QualityTimer
        \/ \E p \in Pipes : Goes(p) \/ Plays(p) \/ Leaves(p)

\* Sessions are resolved, timers fire, and a media source opens; the container may never
\* show, but its wait has an end.
Fairness ==
  /\ WF_vars(Opened) /\ WF_vars(QualityTimer)
  /\ \A p \in Pipes : /\ WF_vars(ContainerMissing(p)) /\ WF_vars(AudioOpens(p) \/ VideoOpens(p))
                      /\ WF_vars(ExitClicked(p))

Spec == Init /\ [][Next]_vars /\ Fairness

-----------------------------------------------------------------------------
(* Properties. *)

TypeOK ==
  /\ pc \in [Pipes -> {"new", "container", "audio", "video", "run", "gone", "early"}]
  /\ put \in [Pipes -> SUBSET Overlay]
  /\ started \in [Pipes -> BOOLEAN] /\ sound \in [Pipes -> BOOLEAN]
  /\ leave \in [Pipes -> BOOLEAN] /\ gate \in BOOLEAN
  /\ {icept, fs} \subseteq Pipes \union {None} /\ savedFs \in [Pipes -> Pipes \union {None}]
  /\ ctrl \in 0..Song /\ opening \in {"none", "song", "mv"} /\ gen \in Nat
  /\ quality \in [timer : BOOLEAN, gen : Nat, restarts : 0..2]

Alive(p) == pc[p] \in {"container", "audio", "video", "run"}

\* Unless a pipeline left early, the page is its own again once no pipeline lives, in
\* whatever order tracks, timers, clicks and quality changes ended them.
PageIsGivenBack ==
  (\A p \in Pipes : ~Alive(p) /\ pc[p] # "early") =>
    /\ gate /\ icept = None /\ fs = None
    /\ \A p \in Pipes : put[p] \subseteq Stays

\* While a pipeline lives it is the one of the current session, and call and apply are its
\* own: a pipeline left late never takes them from its successor.
OnePipelineLives ==
  \A p \in Pipes : Alive(p) => ctrl = p /\ (pc[p] # "container" => icept = p)

\* A quality change is followed by one track change: by the user, by MusicKit or, if there
\* was none, by the timer (_genSnap).
QualityRestartsOnce == quality.restarts <= 1

Begun(p)   == pc[p] = "container"
Settled(p) == pc[p] \in {"run", "gone", "early"}

\* Every pipeline comes to run, or is left (getMVContainer's deadline).
EveryVideoSettles == \A p \in Pipes : Begun(p) ~> Settled(p)
=============================================================================
