------------------------------ MODULE MvOverlay -----------------------------
(***************************************************************************)
(* The overlay of one music video: captions, controls that hide            *)
(* themselves, the quality menu, the scrubber, the keys and the clicks     *)
(* (startMVPipeline in electron/src/engine-playback.js). The overlay is    *)
(* built before the pipeline waits for its media sources, and cleanup is   *)
(* registered after: a session aborted in between leaves it on the page.   *)
(* An event runs every listener on its way, in one step.                   *)
(***************************************************************************)
EXTENDS Naturals

CONSTANTS
  Tiers,         \* the heights of _allTiers
  VariantLists,  \* the sets of heights a video's playlist may offer
  MaxInputs,     \* bound: what the user does
  MaxOthers      \* bound: what Apple's player, the stream and other sessions do

\* Heights are positive, and there is a greatest one.
OverlayAssumption ==
  /\ Tiers # {}
  /\ \E n \in Tiers \union UNION VariantLists :
       n \in Nat /\ Tiers \subseteq 1..n /\ \A s \in VariantLists : s \subseteq 1..n

VARIABLES
  phase,      \* "up" (no cleanup yet), "run", "gone" (cleaned up), "left" (aborted while "up")
  bound,      \* the audio's media source was awaited: _userPaused and _avStarted exist
  started,    \* _avStarted
  ui,         \* scrim; may: _scrimAllowHide; timer: _hideTimer; open: _qualityMenuOpen;
              \* menu: it is displayed; focus, item: the focused element
  vid,        \* myVid.paused, the play button's icon, and whether an event is on its way
  full,       \* document.fullscreenElement
  fit, refit, \* the scrim fits the picture; what will fit it again: "event", "pass"
  caps,       \* on: _ccEnabled; wired; cue: an active cue; news: a cuechange; subs: shown
  lyrics,     \* "asked", "text", "none", "track", "revoked", "late" (its URL is never revoked)
  changed,    \* _generation is another
  scrubbing, thumb,  \* _userScrubbing; what the scrubber shows
  heights, height,   \* _mvVideoHeights, _mvMaxHeight
  hold, race, \* after a quality change: the interval that holds the scrubber, the timer
  ref,        \* whose _mvResetScrubberRef is set: "mine", "none", "next"
  inputs, others

session == <<phase, bound, started, changed>>
screen  == <<full, fit, refit>>
quality == <<heights, height, hold, race, ref>>
vars == <<session, ui, vid, screen, caps, lyrics, scrubbing, thumb, quality, inputs, others>>

-----------------------------------------------------------------------------
(* The qualities on offer. *)

Highest(S) == CHOOSE h \in S : \A k \in S : k <= h

\* _bestForMax: the variant a limit gives.
Best(s, max) == Highest({0} \union {h \in s : h <= max})

\* A tier is offered if it gives a variant the next lower tier does not.
Options(s) ==
  IF s = {} THEN Tiers
  ELSE {t \in Tiers : /\ Best(s, t) # 0
                      /\ LET lower == {u \in Tiers : u < t}
                         IN lower # {} => Best(s, t) > Best(s, Highest(lower))}

\* A limit that is not on offer becomes the highest tier that is.
Snapped(s, h) == IF Options(s) = {} \/ h \in Options(s) THEN h ELSE Highest(Options(s))

-----------------------------------------------------------------------------
(* The controls and the menu. *)

ShowControls(u) == [u EXCEPT !.scrim = "shown", !.may = FALSE, !.timer = TRUE]

\* The focus of an element that is no longer displayed falls back to the page.
Hidden(u) == [u EXCEPT !.menu = FALSE, !.focus = IF @ = "item" THEN "page" ELSE @]

HideControls(u) == [Hidden(u) EXCEPT !.scrim = "hidden", !.may = TRUE, !.timer = FALSE, !.open = FALSE]

OpenMenu(u) ==
  LET o == Options(heights)
  IN [u EXCEPT !.open = TRUE, !.menu = TRUE, !.focus = IF o = {} THEN @ ELSE "item",
               !.item = IF o = {} THEN @ ELSE IF height \in o THEN height ELSE Highest(o)]

CloseMenu(u, restoreFocus) ==
  LET closed == [Hidden(u) EXCEPT !.open = FALSE]
  IN IF restoreFocus THEN [closed EXCEPT !.focus = "button"] ELSE closed

ClickButton(u) == ShowControls(IF u.open THEN CloseMenu(u, FALSE) ELSE OpenMenu(u))

\* keydown of the quality button.
ButtonKey(k, u) ==
  CASE k \in {"Enter", "space"} -> ClickButton(u)
    [] k = "Escape"             -> CloseMenu(u, TRUE)
    [] k = "volume"             -> OpenMenu(u)        \* the arrows up and down
    [] OTHER                    -> u

\* keydown of the menu: the arrows go round its items.
MenuKey(k, u) ==
  CASE k \in {"Escape", "Tab"} -> {CloseMenu(u, TRUE)}
    [] k = "volume"            -> {[u EXCEPT !.item = t] : t \in Options(heights)}
    [] OTHER                   -> {u}

FocusKey(k, u) ==
  CASE u.focus = "button" -> {ButtonKey(k, u)}
    [] u.focus = "item"   -> MenuKey(k, u)
    [] OTHER              -> {u}

-----------------------------------------------------------------------------
Init ==
  /\ phase = "up" /\ bound = FALSE /\ started = FALSE /\ changed = FALSE
  /\ ui = [scrim |-> "shown", may |-> FALSE, timer |-> TRUE, open |-> FALSE, menu |-> FALSE,
           focus |-> "page", item |-> 0]
  /\ vid = [paused |-> TRUE, icon |-> TRUE, news |-> FALSE]
  /\ full = FALSE /\ fit = TRUE /\ refit = {}
  /\ caps = [on |-> TRUE, wired |-> FALSE, cue |-> FALSE, news |-> FALSE, subs |-> FALSE]
  /\ lyrics \in {"asked", "none"}
  /\ scrubbing = FALSE /\ thumb = "mine"
  /\ heights \in VariantLists /\ height \in {Snapped(heights, h) : h \in Tiers}
  /\ hold = FALSE /\ race = FALSE /\ ref = "mine"
  /\ inputs = 0 /\ others = 0

Input == inputs < MaxInputs /\ inputs' = inputs + 1 /\ UNCHANGED others
Other == others < MaxOthers /\ others' = others + 1 /\ UNCHANGED inputs
Quiet == UNCHANGED <<inputs, others>>
There == phase # "gone"

\* togglePlayPause throws until the binding it assigns exists.
Toggled == IF bound THEN [vid EXCEPT !.paused = ~@, !.news = TRUE] ELSE vid

-----------------------------------------------------------------------------
(* Leaving. *)

\* cleanup puts the page back; a session without one yet returns and leaves everything.
\* u, v and m are the controls, the picture and the scrubber a session without one is left with.
Abort(u, v, m) ==
  /\ thumb' = m
  /\ IF phase = "run"
     THEN /\ phase' = "gone"
          /\ ui' = [Hidden(u) EXCEPT !.scrim = "theirs", !.timer = FALSE, !.focus = "page"]
          /\ vid' = [vid EXCEPT !.paused = TRUE, !.news = FALSE]
          /\ full' = FALSE /\ refit' = refit \ {"event"} /\ UNCHANGED fit
          /\ caps' = [caps EXCEPT !.news = FALSE, !.subs = FALSE]
          /\ lyrics' = IF lyrics = "track" THEN "revoked" ELSE lyrics
          /\ ref' = IF ref = "mine" THEN "none" ELSE ref
     ELSE /\ phase' = (IF phase = "up" THEN "left" ELSE phase)
          /\ lyrics' = IF phase = "up" /\ lyrics = "track" THEN "revoked" ELSE lyrics
          /\ ui' = u /\ vid' = v /\ UNCHANGED <<screen, caps, ref>>

\* The exit button.
ExitClick ==
  /\ There /\ Input /\ Abort(ui, vid, thumb)
  /\ UNCHANGED <<bound, started, changed, scrubbing, heights, height, hold, race>>

\* Another track: the generation goes on, and the session is aborted.
TrackChange ==
  /\ ~changed /\ changed' = TRUE /\ Other /\ Abort(ui, vid, thumb)
  /\ UNCHANGED <<bound, started, scrubbing, heights, height, hold, race>>

-----------------------------------------------------------------------------
(* The session's way. *)

AudioOpens ==
  /\ phase = "up" /\ ~bound /\ bound' = TRUE /\ Quiet
  /\ UNCHANGED <<phase, started, changed, ui, vid, screen, caps, lyrics, scrubbing, thumb, quality>>

VideoOpens ==
  /\ phase = "up" /\ bound /\ phase' = "run" /\ Quiet
  /\ UNCHANGED <<bound, started, changed, ui, vid, screen, caps, lyrics, scrubbing, thumb, quality>>

\* tryStart: both streams can play, and the page takes clicks again.
Start ==
  /\ phase = "run" /\ ~started /\ started' = TRUE /\ Quiet
  /\ UNCHANGED <<phase, bound, changed, ui, vid, screen, caps, lyrics, scrubbing, thumb, quality>>

\* The sound's player, a stall or Apple's own button plays or pauses the picture. That button
\* keeps doing so when the session is gone, whose listeners do not hear of it.
Moved ==
  /\ started /\ Other /\ vid' = [vid EXCEPT !.paused = ~@, !.news = There]
  /\ UNCHANGED <<session, ui, screen, caps, lyrics, scrubbing, thumb, quality>>

SyncPlayIcon ==
  /\ vid.news /\ vid' = [vid EXCEPT !.icon = vid.paused, !.news = FALSE] /\ Quiet
  /\ UNCHANGED <<session, ui, screen, caps, lyrics, scrubbing, thumb, quality>>

-----------------------------------------------------------------------------
(* Captions and lyrics. *)

\* _renderSubs. The element is off the page once the session is gone.
RenderSubs(c) == [c EXCEPT !.subs = c.on /\ c.cue /\ There]

CueChanges ==
  /\ There /\ Other /\ caps' = [caps EXCEPT !.cue = ~@, !.news = TRUE]
  /\ UNCHANGED <<session, ui, vid, screen, lyrics, scrubbing, thumb, quality>>

CueChange ==
  /\ caps.news /\ caps' = RenderSubs([caps EXCEPT !.news = FALSE]) /\ Quiet
  /\ UNCHANGED <<session, ui, vid, screen, lyrics, scrubbing, thumb, quality>>

\* _wireCCBtn tries again every 300 ms until the button is there.
WireCCBtn ==
  /\ ~caps.wired /\ caps' = [caps EXCEPT !.wired = TRUE] /\ Quiet
  /\ UNCHANGED <<session, ui, vid, screen, lyrics, scrubbing, thumb, quality>>

ToggleCC ==
  /\ caps.wired /\ Input /\ caps' = RenderSubs([caps EXCEPT !.on = ~@])
  /\ UNCHANGED <<session, ui, vid, screen, lyrics, scrubbing, thumb, quality>>

\* The answer to the request for lyrics, then its text. The URL of a track is revoked by an
\* abort still to come: not by one that has been.
LyricsAnswer ==
  /\ lyrics \in {"asked", "text"} /\ Quiet
  /\ lyrics' \in IF changed THEN {"none"}
                 ELSE {"none", IF lyrics = "asked" THEN "text"
                               ELSE IF phase \in {"up", "run"} THEN "track" ELSE "late"}
  /\ UNCHANGED <<session, ui, vid, screen, caps, scrubbing, thumb, quality>>

-----------------------------------------------------------------------------
(* The size of the picture. *)

\* fullscreenchange fits the scrim once now and once after the reflow.
FullscreenChange ==
  /\ "event" \in refit /\ refit' = {"pass"} /\ fit' \in BOOLEAN /\ Quiet
  /\ UNCHANGED <<session, ui, vid, full, caps, lyrics, scrubbing, thumb, quality>>

SecondPass ==
  /\ "pass" \in refit /\ refit' = refit \ {"pass"} /\ fit' = TRUE /\ Quiet
  /\ UNCHANGED <<session, ui, vid, full, caps, lyrics, scrubbing, thumb, quality>>

-----------------------------------------------------------------------------
(* The scrim and the mouse. *)

\* Apple's player hides its scrim; the observer shows it again unless it may be hidden.
AppleHides ==
  /\ There /\ Other /\ ui' = [ui EXCEPT !.scrim = IF ui.may THEN @ ELSE "shown"]
  /\ UNCHANGED <<session, vid, screen, caps, lyrics, scrubbing, thumb, quality>>

HideTimer ==
  /\ ui.timer /\ ui' = (IF vid.paused THEN [ui EXCEPT !.timer = FALSE] ELSE HideControls(ui)) /\ Quiet
  /\ UNCHANGED <<session, vid, screen, caps, lyrics, scrubbing, thumb, quality>>

\* Until the session has started the container takes no mouse events, but its scrim does.
MouseMove ==
  /\ There /\ Input /\ ui' = ShowControls(ui)
  /\ UNCHANGED <<session, vid, screen, caps, lyrics, scrubbing, thumb, quality>>

\* A click on the picture, or on play or pause in the footer: it stops there, and the menu
\* stays open. The footer's listener toggles first, and a throw ends it.
ScrimClick ==
  /\ There /\ Input /\ vid' = Toggled
  /\ LET clicked == [ui EXCEPT !.focus = "page"]
     IN \/ ui' = ShowControls(clicked)
        \/ ~bound /\ ui' = clicked
  /\ UNCHANGED <<session, screen, caps, lyrics, scrubbing, thumb, quality>>

\* A click elsewhere in the container.
ContainerClick ==
  /\ There /\ Input
  /\ ui' = IF ui.open THEN CloseMenu(ui, FALSE) ELSE ui
  /\ UNCHANGED <<session, vid, screen, caps, lyrics, scrubbing, thumb, quality>>

QualityClick ==
  /\ There /\ Input /\ ui' = ClickButton([ui EXCEPT !.focus = "button"])
  /\ UNCHANGED <<session, vid, screen, caps, lyrics, scrubbing, thumb, quality>>

-----------------------------------------------------------------------------
(* The keys: the focused element's listener, then the document's. *)

\* The document's listener, for the state of the controls the focused element's has left.
DocumentKey(k, u) ==
  CASE k = "full" \/ (k = "Escape" /\ full) ->
         /\ full' = ~full /\ refit' = refit \union {"event"} /\ fit' = FALSE
         /\ ui' = u /\ UNCHANGED <<session, vid, caps, lyrics, thumb, ref>>
    [] k = "Escape" /\ ~full -> Abort(u, vid, thumb) /\ UNCHANGED <<bound, started, changed>>
    [] k = "space" ->
         /\ vid' = Toggled /\ ui' = IF bound THEN ShowControls(u) ELSE u
         /\ UNCHANGED <<session, screen, caps, lyrics, thumb, ref>>
    [] OTHER -> ui' = ShowControls(u) /\ UNCHANGED <<session, vid, screen, caps, lyrics, thumb, ref>>

\* Tab moves the focus, unless it closed the menu.
Focused(k, u) ==
  IF k = "Tab" /\ ui.focus # "item" THEN {[u EXCEPT !.focus = f] : f \in {"page", "button"}} ELSE {u}

Key(k) ==
  /\ There /\ Input /\ ~(ui.focus = "item" /\ k \in {"Enter", "space"})
  /\ \E u \in FocusKey(k, ui) : \E f \in Focused(k, u) : DocumentKey(k, f)
  /\ UNCHANGED <<scrubbing, heights, height, hold, race>>

-----------------------------------------------------------------------------
(* The quality. *)

\* An item is clicked: the limit is set, the scrubber blanked and the session aborted; the
\* scrubber is held at 0 and the restart timed.
ChooseQuality(t, u, v) ==
  /\ height' = t /\ hold' = TRUE /\ race' = TRUE
  /\ Abort([Hidden(u) EXCEPT !.open = FALSE], v, "zero")
  /\ UNCHANGED <<bound, started, changed, scrubbing, heights>>

\* By mouse, or by Enter or space on the focused item: then, if there was no cleanup to remove
\* it, the document's listener has the key as well.
Choose ==
  /\ There /\ ui.menu /\ Input
  /\ \/ \E t \in Options(heights) : ChooseQuality(t, ui, vid)
     \/ ui.focus = "item" /\ ChooseQuality(ui.item, ShowControls(ui), vid)
     \/ ui.focus = "item" /\ ChooseQuality(ui.item, IF bound THEN ShowControls(ui) ELSE ui, Toggled)

\* Apple's own loop writes the old time over a scrubber nobody holds.
AppleWrites ==
  /\ ~scrubbing /\ Other /\ thumb' = "apple"
  /\ UNCHANGED <<session, ui, vid, screen, caps, lyrics, scrubbing, quality>>

\* Every 16 ms, until a session has its own scrubber.
HoldTick ==
  /\ hold /\ Quiet
  /\ IF ref # "none" THEN hold' = FALSE /\ UNCHANGED thumb ELSE thumb' = "zero" /\ UNCHANGED hold
  /\ UNCHANGED <<session, ui, vid, screen, caps, lyrics, scrubbing, heights, height, race, ref>>

\* 500 ms after the restart is due.
HoldTimeout ==
  /\ hold /\ ~race /\ hold' = FALSE /\ Quiet
  /\ UNCHANGED <<session, ui, vid, screen, caps, lyrics, scrubbing, thumb, heights, height, race, ref>>

\* The track is opened again, unless it was meanwhile.
QualityRace ==
  /\ race /\ race' = FALSE /\ changed' = TRUE /\ Quiet
  /\ UNCHANGED <<phase, bound, started, ui, vid, screen, caps, lyrics, scrubbing, thumb, heights,
                 height, hold, ref>>

\* The next session's overlay is built on the same scrubber.
NextBuilt ==
  /\ changed /\ phase \in {"gone", "left"} /\ ref # "next"
  /\ ref' = "next" /\ thumb' = "next" /\ Quiet
  /\ UNCHANGED <<session, ui, vid, screen, caps, lyrics, scrubbing, heights, height, hold, race>>

-----------------------------------------------------------------------------
(* The scrubber, whose listeners stay. *)

ScrubStart ==
  /\ ~scrubbing /\ scrubbing' = TRUE /\ Input
  /\ UNCHANGED <<session, ui, vid, screen, caps, lyrics, thumb, quality>>

\* By mouse, or by the keys of a focused scrubber.
ScrubInput ==
  /\ Input /\ thumb' = (IF scrubbing THEN "held" ELSE "mine") /\ ui' = ShowControls(ui)
  /\ UNCHANGED <<session, vid, screen, caps, lyrics, scrubbing, quality>>

\* mouseup, touchend, change and pointercancel.
ScrubEnd ==
  /\ scrubbing /\ scrubbing' = FALSE /\ Quiet
  /\ UNCHANGED <<session, ui, vid, screen, caps, lyrics, thumb, quality>>

\* _updateProgress, every poll until cleanup.
UpdateProgress ==
  /\ There /\ ~scrubbing /\ thumb' = "mine" /\ Quiet
  /\ UNCHANGED <<session, ui, vid, screen, caps, lyrics, scrubbing, quality>>

\* The listener of the volume slider stays as well.
VolumeInput ==
  /\ Input /\ ui' = ShowControls(ui)
  /\ UNCHANGED <<session, vid, screen, caps, lyrics, scrubbing, thumb, quality>>

-----------------------------------------------------------------------------
Keyboard == {"space", "Enter", "Escape", "Tab", "volume", "full", "seek"}

Events == SyncPlayIcon \/ CueChange \/ WireCCBtn \/ LyricsAnswer
Refits == FullscreenChange \/ SecondPass
User == \/ ExitClick \/ ToggleCC \/ MouseMove \/ ScrimClick \/ ContainerClick \/ QualityClick
        \/ (\E k \in Keyboard : Key(k)) \/ Choose \/ ScrubStart \/ ScrubInput \/ VolumeInput
Next == \/ AudioOpens \/ VideoOpens \/ Start \/ TrackChange \/ Moved \/ Events \/ CueChanges
        \/ Refits \/ AppleHides \/ HideTimer \/ User \/ AppleWrites \/ HoldTick
        \/ HoldTimeout \/ QualityRace \/ NextBuilt \/ ScrubEnd \/ UpdateProgress

Spec == /\ Init /\ [][Next]_vars
        /\ WF_vars(Refits) /\ WF_vars(QualityRace) /\ WF_vars(HoldTimeout)
        /\ WF_vars(UpdateProgress) /\ WF_vars(ScrubEnd)
-----------------------------------------------------------------------------
UiTypes == [scrim: {"shown", "hidden", "theirs"}, may: BOOLEAN, timer: BOOLEAN, open: BOOLEAN,
            menu: BOOLEAN, focus: {"page", "button", "item"}, item: {0} \union Tiers]
VidTypes == [paused: BOOLEAN, icon: BOOLEAN, news: BOOLEAN]
CapsTypes == [on: BOOLEAN, wired: BOOLEAN, cue: BOOLEAN, news: BOOLEAN, subs: BOOLEAN]

TypeOK ==
  /\ phase \in {"up", "run", "gone", "left"} /\ bound \in BOOLEAN /\ full \in BOOLEAN
  /\ ui \in UiTypes /\ vid \in VidTypes /\ caps \in CapsTypes /\ refit \subseteq {"event", "pass"}
  /\ lyrics \in {"asked", "text", "none", "track", "revoked", "late"}
  /\ thumb \in {"mine", "held", "zero", "apple", "next"}
  /\ heights \in VariantLists /\ height \in Tiers
  /\ ref \in {"mine", "none", "next"} /\ inputs \in Nat

(* The quality menu is displayed exactly while it counts as open, and never around controls
   that have faded out, whatever opened it (_openQualityMenu, _showControls). *)
MenuIsWithControls ==
  /\ ui.menu => There /\ ui.scrim = "shown"
  /\ There => (ui.open <=> ui.menu)

(* Once its event is delivered the play button says whether the video plays, whoever played or
   paused it (_syncPlayIcon). *)
IconIsTrue == There /\ ~vid.news => (vid.icon <=> vid.paused)

(* Captions are shown exactly while they are on and a cue is active, through cues, toggles and
   the end of the session (_renderSubs). *)
CaptionsAreTrue ==
  /\ There /\ ~caps.news => (caps.subs <=> caps.on /\ caps.cue)
  /\ caps.subs => There /\ caps.on

(* Every variant some tier gives is given by one item of the menu, and the limit in force is
   one of them (_qualityOptions). *)
QualityIsOffered ==
  LET o == Options(heights)
  IN /\ o # {} => height \in o
     /\ heights # {} => \A t \in Tiers :
          Best(heights, t) # 0 => \E i \in o : \A j \in o :
            Best(heights, j) = Best(heights, t) <=> j = i

(* A session that has ended keeps no lyrics track, but for one that came late. *)
TrackIsGivenBack == phase \in {"gone", "left"} => lyrics # "track"

(* A scrim that does not fit the picture is about to be fitted (onFullscreenChange). *)
ScrimIsFitted == There /\ ~fit => refit # {}

(* Once the next session has the scrubber, what a quality change left behind no longer holds it
   at 0 (the interval of the item's click). *)
NextIsFree == ref = "next" /\ ref' = "next" /\ inputs' = inputs => thumb' # "zero" \/ thumb = "zero"

\* Whatever has the focus in the menu is one of its items.
FocusIsInTheMenu == ui.focus = "item" => ui.menu /\ ui.item \in Options(heights)

IInv == /\ TypeOK /\ MenuIsWithControls /\ FocusIsInTheMenu /\ IconIsTrue /\ CaptionsAreTrue
        /\ Options(heights) # {} => height \in Options(heights)
        /\ TrackIsGivenBack /\ ScrimIsFitted

Held == hold
Overdue == There /\ ~fit
Stale == There /\ thumb # "mine"
Shows == ~There \/ thumb = "mine"
(* The scrubber is let go, fitted, and comes to show the video's time. *)
Settles == (Held ~> ~Held) /\ (Overdue ~> ~Overdue) /\ (Stale ~> Shows)
=============================================================================
