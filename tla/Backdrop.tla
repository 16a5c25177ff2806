------------------------------ MODULE Backdrop ------------------------------
(***************************************************************************)
(* What stands behind the glass of the main window (electron/main.mjs):    *)
(* the blur of the compositor where KWin gives it, else a layer of the     *)
(* page with a blurred wallpaper or a blurred picture of the screen.       *)
(* A picture is taken asynchronously; a GPU crash, a failed handshake with *)
(* the X server and a window that was moved each ask for one.              *)
(***************************************************************************)
EXTENDS Naturals

CONSTANTS
  Attempts,   \* tries at the native window handle, 10 in the code
  Blurs,      \* the positions of the Background blur slider
  MaxUser,    \* bound: moves of the window and of the slider
  MaxFaults   \* bound: GPU crashes, files gone, captures that give nothing, loads

BackdropAssumption == Attempts \in Nat /\ Blurs \subseteq Nat \ {0}

VARIABLES
  desktop,    \* the desktop and its display protocol
  soft,       \* _useSoftBlur
  win,        \* the window exists
  shown, hidden,     \* showWindow ran; _startHidden
  atom,       \* KDE: "none", "retry", "connect", "intern", "set", "refused"
  tries,      \* attempts that found no handle
  lookup,     \* gsettings is asked for the wallpaper
  wallpaper,  \* _blurWallpaper is set
  captures,   \* desktopCapturer.getSources calls under way
  timer,      \* _bgTimer runs
  slider,     \* prefs.bgBlur
  layer,      \* #_adamBlurBg: who made it, the picture it shows and the blur of that picture
  crashed,    \* the GPU process crashed
  fresh,      \* nothing has undone the layer: no load, no empty picture, no wallpaper gone
  died,       \* an exception nobody caught: app.exit(1)
  user, faults

kwin   == <<atom, tries>>
files  == <<lookup, wallpaper>>
window == <<win, shown, hidden>>
bounds == <<user, faults>>
vars   == <<desktop, soft, window, kwin, files, captures, timer, slider, layer, crashed, fresh,
            died, bounds>>

Wayland == desktop \in {"hyprland", "gnome on wayland", "sway", "kde on wayland"}
Gnome   == desktop \in {"gnome", "gnome on wayland"}

NoLayer == [made |-> "none", picture |-> "none", blur |-> 0]

Desktops == {"hyprland", "gnome on wayland", "sway", "kde on wayland", "gnome", "kde", "x11"}

Init ==
  /\ desktop \in Desktops
  /\ soft \in BOOLEAN /\ (soft <=> desktop \in {"gnome on wayland", "sway", "gnome", "x11"})
  /\ win = TRUE /\ shown = FALSE /\ hidden \in BOOLEAN
  /\ atom = "none" /\ tries = 0 /\ lookup = FALSE /\ wallpaper = FALSE
  /\ captures = 0 /\ timer = FALSE /\ slider \in Blurs /\ layer = NoLayer
  /\ crashed = FALSE /\ fresh = TRUE /\ died = FALSE /\ user = 0 /\ faults = 0

Fault == faults < MaxFaults /\ faults' = faults + 1 /\ UNCHANGED user
User  == user < MaxUser /\ user' = user + 1 /\ UNCHANGED faults
Quiet == UNCHANGED bounds

-----------------------------------------------------------------------------
(* The layer. *)

\* _injectBlurLayer: a layer that is there only gets the new picture.
Drawn(picture) ==
  [made |-> IF layer.made = "none" THEN "picture" ELSE layer.made, picture |-> picture,
   blur |-> slider']

\* refreshBlurBg up to its await: capturing on Wayland would open the portal's dialog.
Refresh == captures' = IF win /\ soft' /\ ~Wayland THEN captures + 1 ELSE captures

\* The screen's picture. The window is read again after the await.
Captured ==
  /\ captures > 0 /\ ~died /\ captures' = captures - 1 /\ UNCHANGED slider
  /\ IF ~win THEN died' = TRUE /\ Quiet /\ UNCHANGED <<layer, fresh>>
     ELSE /\ UNCHANGED died
          /\ \/ layer' = Drawn("screen") /\ Quiet /\ UNCHANGED fresh
             \* no source: a solid layer, unless one is there
             \/ /\ Fault /\ UNCHANGED fresh
                /\ layer' = IF layer.made = "none" THEN [NoLayer EXCEPT !.made = "solid"] ELSE layer
             \* a picture that is empty
             \/ Fault /\ fresh' = FALSE /\ UNCHANGED layer
  /\ UNCHANGED <<desktop, soft, window, kwin, files, timer, crashed>>

\* _injectWallpaperFile: ok is whether the file could be read.
Wallpaper(ok) ==
  IF ok THEN wallpaper' = TRUE /\ layer' = Drawn("wallpaper") ELSE UNCHANGED <<wallpaper, layer>>

-----------------------------------------------------------------------------
(* KWin's blur, on X11: the atom is set before the window is mapped. *)

\* _trySet: without a handle it is tried again, at last the layer is drawn in its stead.
TrySet ==
  /\ desktop = "kde" /\ ~died
  /\ (atom = "none" /\ win /\ ~shown) \/ atom = "retry"
  /\ IF ~win THEN died' = TRUE /\ Quiet /\ UNCHANGED <<kwin, soft, captures>>
     ELSE /\ UNCHANGED died
          /\ \/ atom' = "connect" /\ Quiet /\ UNCHANGED <<tries, soft, captures>>
             \/ /\ tries < Attempts /\ atom' = "retry" /\ tries' = tries + 1
                /\ Quiet /\ UNCHANGED <<soft, captures>>
             \/ /\ tries = Attempts /\ atom' = "refused" /\ UNCHANGED tries
                /\ Quiet /\ soft' = TRUE /\ Refresh
  /\ UNCHANGED <<desktop, window, files, timer, slider, layer, crashed, fresh>>

Connected ==
  /\ atom = "connect" /\ ~died /\ UNCHANGED <<tries, slider>>
  /\ \/ atom' = "intern" /\ Quiet /\ UNCHANGED <<soft, captures>>
     \/ atom' = "refused" /\ Fault /\ soft' = TRUE /\ Refresh
  /\ UNCHANGED <<desktop, window, files, timer, layer, crashed, fresh, died>>

\* InternAtom: an atom that is refused is only logged.
Interned ==
  /\ atom = "intern" /\ ~died
  /\ \/ atom' = "set" /\ Quiet
     \/ atom' = "refused" /\ Fault
  /\ UNCHANGED <<tries, desktop, soft, window, files, captures, timer, slider, layer, crashed,
                 fresh, died>>

-----------------------------------------------------------------------------
(* The window. *)

\* showWindow, once. Started hidden, it leaves before anything is drawn.
ShowWindow ==
  /\ win /\ ~shown /\ ~died /\ shown' = TRUE /\ UNCHANGED <<slider, soft>>
  /\ IF hidden THEN Quiet /\ UNCHANGED <<files, layer, captures>>
     ELSE IF desktop = "hyprland"
     THEN /\ \/ Wallpaper(TRUE) /\ Quiet
             \/ Wallpaper(FALSE) /\ Fault
          /\ UNCHANGED <<lookup, captures>>
     ELSE IF Gnome THEN lookup' = TRUE /\ Quiet /\ UNCHANGED <<wallpaper, layer, captures>>
     ELSE Refresh /\ Quiet /\ UNCHANGED <<files, layer>>
  /\ UNCHANGED <<desktop, win, hidden, kwin, timer, crashed, fresh, died>>

\* gsettings has answered, if with nothing the screen is captured.
Found ==
  /\ lookup /\ ~died /\ lookup' = FALSE /\ UNCHANGED <<slider, soft>>
  /\ IF ~win THEN Quiet /\ UNCHANGED <<wallpaper, layer, captures>>
     ELSE \/ Wallpaper(TRUE) /\ Quiet /\ UNCHANGED captures
          \/ Wallpaper(FALSE) /\ Fault /\ Refresh
  /\ UNCHANGED <<desktop, window, kwin, timer, crashed, fresh, died>>

\* 'move' begins the wait of half a second anew.
Move ==
  /\ win /\ ~died /\ User /\ timer' = TRUE
  /\ UNCHANGED <<desktop, soft, window, kwin, files, captures, slider, layer, crashed, fresh, died>>

MoveSettles ==
  /\ timer /\ ~died /\ timer' = FALSE /\ Quiet /\ UNCHANGED soft /\ Refresh
  /\ UNCHANGED <<desktop, window, kwin, files, slider, layer, crashed, fresh, died>>

\* The slider draws a wallpaper again, if its file is still there; a picture of the screen waits
\* for the next move.
MoveSlider ==
  /\ win /\ ~died /\ user < MaxUser /\ user' = user + 1 /\ slider' \in Blurs \ {slider}
  /\ \/ wallpaper /\ Wallpaper(TRUE) /\ UNCHANGED <<faults, fresh>>
     \/ wallpaper /\ Wallpaper(FALSE) /\ faults < MaxFaults /\ faults' = faults + 1 /\ fresh' = FALSE
     \/ ~wallpaper /\ UNCHANGED <<files, layer, faults, fresh>>
  /\ UNCHANGED <<desktop, soft, window, kwin, lookup, captures, timer, crashed, died>>

GpuCrash ==
  /\ ~died /\ Fault /\ crashed' = TRUE /\ soft' = TRUE /\ Refresh
  /\ UNCHANGED <<desktop, window, kwin, files, timer, slider, layer, fresh, died>>

\* A new document has no layer, and none is drawn before the next request.
Load ==
  /\ win /\ ~died /\ Fault /\ layer' = NoLayer /\ fresh' = FALSE
  /\ UNCHANGED <<desktop, soft, window, kwin, files, captures, timer, slider, crashed, died>>

\* The window is only closed when the app quits.
Closed ==
  /\ win /\ ~died /\ win' = FALSE /\ Quiet
  /\ UNCHANGED <<desktop, soft, shown, hidden, kwin, files, captures, timer, slider, layer, crashed,
                 fresh, died>>

Kwin == TrySet \/ Connected \/ Interned
Next == \/ Kwin \/ ShowWindow \/ Found \/ Captured \/ Move \/ MoveSettles \/ MoveSlider
        \/ GpuCrash \/ Load \/ Closed

\* Electron answers a capture, and gsettings has a timeout.
Spec == Init /\ [][Next]_vars /\ WF_vars(Captured) /\ WF_vars(Found) /\ WF_vars(Kwin)
-----------------------------------------------------------------------------
LayerTypes == [made: {"none", "solid", "picture"}, picture: {"none", "screen", "wallpaper"},
               blur: Blurs \union {0}]

TypeOK ==
  /\ desktop \in Desktops /\ soft \in BOOLEAN /\ win \in BOOLEAN /\ lookup \in BOOLEAN
  /\ wallpaper \in BOOLEAN /\ crashed \in BOOLEAN /\ fresh \in BOOLEAN /\ died \in BOOLEAN
  /\ shown \in BOOLEAN /\ hidden \in BOOLEAN /\ timer \in BOOLEAN
  /\ atom \in {"none", "retry", "connect", "intern", "set", "refused"} /\ tries \in 0..Attempts
  /\ captures \in Nat /\ slider \in Blurs
  /\ layer \in LayerTypes

(* Where the compositor blurs, no layer is drawn over its blur: only a handshake that failed or
   a crash of the GPU process has the screen captured on KDE, and on Wayland nothing has. *)
CompositorIsTrusted ==
  /\ desktop = "kde" /\ captures > 0 => atom = "refused" \/ crashed
  /\ desktop = "kde" /\ atom \in {"connect", "intern", "set"} /\ ~crashed => layer = NoLayer
  /\ Wayland => captures = 0 /\ layer.picture # "screen"

(* A wallpaper is drawn with the blur the slider shows, whichever of answer and slider came
   last (_refreshWallpaperBlur). *)
WallpaperIsAsSet == fresh /\ layer.picture = "wallpaper" => wallpaper /\ layer.blur = slider

(* Only a quitting app dies of a picture or a retry that comes when its window is gone. *)
DiesAtTheEnd == died => ~win

\* On KDE the screen is captured, and a layer drawn, only for a reason; wallpapers are drawn
\* elsewhere.
Excused == atom = "refused" \/ crashed
OnKde == desktop = "kde" => (soft => Excused) /\ (captures > 0 => Excused) /\ (~Excused => layer = NoLayer)
OnWayland == Wayland => captures = 0 /\ layer.picture # "screen"
OfFiles == (lookup => Gnome) /\ (wallpaper => Gnome \/ desktop = "hyprland")

IInv == TypeOK /\ OnKde /\ OnWayland /\ OfFiles /\ WallpaperIsAsSet /\ DiesAtTheEnd

Bare == win /\ shown /\ ~hidden /\ fresh /\ soft /\ ~Wayland /\ layer = NoLayer
Backed == ~win \/ ~fresh \/ layer # NoLayer
(* A window nothing else blurs behind comes to have its layer. *)
GetsBackdrop == Bare ~> Backed
=============================================================================
