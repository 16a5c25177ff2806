----------------------------- MODULE AppWindow -----------------------------
(***************************************************************************)
(* The main window (createWindow in electron/main.mjs): the load of Apple  *)
(* Music, the offline page that replaces it when it fails, the injection   *)
(* of Adam's bundles into every Apple page, the moment the window is shown *)
(* - and the mini player, which takes its place on the screen.             *)
(***************************************************************************)
EXTENDS Naturals

CONSTANTS
  MaxLoads,    \* bound: loads of Apple Music
  MaxFaults,   \* bound: times the network or a load fails
  MaxMinis     \* bound: mini players opened

None == 0

VARIABLES
  net,           \* Apple Music can be reached
  doc,           \* the document: "blank", "apple", "error" (Chromium's), "offline" (ours)
  loading,       \* the navigation under way: "none", "apple", "offline"
  finished,      \* the document has loaded
  runs,          \* times the bundles ran in the document
  offlineShown, bundleInjected,
  retried,       \* initialLoadRetried
  clearing,      \* the cache is cleared before the one retry
  fallback,      \* showFallback runs
  uiReady,       \* the page has reported app:ui-ready
  shown,         \* showWindow ran
  hidden,        \* _startHidden
  visible,       \* the main window is on the screen
  mini,          \* the mini players: "none", "loading", "open", "closing", "gone"
  miniWin,       \* the one the main process knows
  died,          \* an exception nobody caught: app.exit(1)
  loads, faults

page == <<net, doc, loading, finished, runs, offlineShown, bundleInjected, retried, clearing,
          loads, faults>>
shows == <<fallback, uiReady, shown, hidden>>
minis == <<mini, miniWin, died>>
vars == <<page, shows, visible, minis>>

Minis == 1..MaxMinis

Init ==
  /\ net \in BOOLEAN /\ doc = "blank" /\ loading = "apple" /\ finished = FALSE /\ runs = 0
  /\ offlineShown = FALSE /\ bundleInjected = FALSE /\ retried = FALSE /\ clearing = FALSE
  /\ fallback = TRUE /\ uiReady = FALSE /\ shown = FALSE /\ hidden \in BOOLEAN
  /\ visible = FALSE /\ mini = [w \in Minis |-> "none"] /\ miniWin = None /\ died = FALSE
  /\ loads = 1 /\ faults = 0

-----------------------------------------------------------------------------
(* The window. *)

\* showWindow, once; an app started at login stays in the tray.
ShowWindow ==
  /\ shown' = TRUE
  /\ visible' = (visible \/ (~shown /\ ~hidden))

Fallback ==
  /\ ~died /\ fallback /\ fallback' = FALSE /\ ShowWindow
  /\ UNCHANGED <<page, uiReady, hidden, minis>>

\* The page's first app:ui-ready.
UiReady ==
  /\ ~died /\ doc = "apple" /\ runs > 0 /\ ~uiReady /\ uiReady' = TRUE /\ fallback' = FALSE
  /\ ShowWindow /\ UNCHANGED <<page, hidden, minis>>

\* Closing the window hides it, and the tray shows it and hides it.
Toggle ==
  /\ ~died /\ shown /\ visible' = ~visible /\ UNCHANGED <<page, shows, minis>>

-----------------------------------------------------------------------------
(* The page. *)

\* A navigation starts; one to Apple Music ends the offline page.
Navigate(to) ==
  /\ loading' = to
  /\ offlineShown' = IF to = "apple" THEN FALSE ELSE offlineShown
  /\ loads' = IF to = "apple" THEN loads + 1 ELSE loads

Reload ==
  /\ ~died /\ doc = "apple" /\ loads < MaxLoads /\ Navigate("apple")
  /\ UNCHANGED <<net, doc, finished, runs, bundleInjected, retried, clearing, faults, shows,
                 visible, minis>>

\* did-navigate on Apple's host.
Injected(to) == IF to = "apple" THEN FALSE ELSE bundleInjected

\* did-navigate: the new document has no bundles, and a hidden window comes back.
Commit ==
  /\ ~died /\ loading # "none" /\ (loading = "apple" => net) /\ loading' = "none"
  /\ doc' = loading /\ finished' = FALSE /\ runs' = 0
  /\ bundleInjected' = Injected(loading)
  /\ visible' = (visible \/ shown)
  /\ UNCHANGED <<net, offlineShown, retried, clearing, loads, faults, shows, minis>>

\* injectBundles does nothing while the offline page is shown or once it has run.
MayInject == ~offlineShown /\ doc \in {"apple", "error"} /\ ~bundleInjected

\* did-frame-finish-load, of the document or of a frame in it.
FrameLoaded ==
  /\ ~died /\ doc # "blank" /\ finished' = TRUE
  /\ IF MayInject THEN bundleInjected' = TRUE /\ runs' = IF runs < 2 THEN runs + 1 ELSE runs
     ELSE UNCHANGED <<bundleInjected, runs>>
  /\ UNCHANGED <<net, doc, loading, offlineShown, retried, clearing, loads, faults, shows,
                 visible, minis>>

\* did-fail-load: Chromium shows its error page, ours replaces it, and the window is shown.
\* The first load that fails for the cache's sake is tried again.
LoadFails ==
  /\ ~died /\ loading = "apple"
  /\ \/ ~net /\ UNCHANGED <<clearing, retried, faults>>
     \/ /\ faults < MaxFaults /\ faults' = faults + 1 /\ retried' = TRUE
        /\ clearing' = (clearing \/ (~retried /\ loads = 1))
  /\ doc' = "error" /\ finished' = FALSE /\ runs' = 0 /\ offlineShown' = TRUE
  /\ loading' = "offline" /\ fallback' = FALSE /\ ShowWindow
  /\ UNCHANGED <<net, bundleInjected, loads, uiReady, hidden, minis>>

Retry ==
  /\ ~died /\ clearing /\ clearing' = FALSE /\ Navigate("apple")
  /\ UNCHANGED <<net, doc, finished, runs, bundleInjected, retried, faults, shows, visible,
                 minis>>

\* offline.html asks for Apple Music every 6 s and goes there once it answers.
Reconnect ==
  /\ ~died /\ doc = "offline" /\ finished /\ net /\ loading # "apple" /\ Navigate("apple")
  /\ UNCHANGED <<net, doc, finished, runs, bundleInjected, retried, clearing, faults, shows,
                 visible, minis>>

Network ==
  /\ faults < MaxFaults /\ faults' = faults + 1 /\ net' = ~net
  /\ UNCHANGED <<doc, loading, finished, runs, offlineShown, bundleInjected, retried, clearing,
                 loads, shows, visible, minis>>

-----------------------------------------------------------------------------
(* The mini player. *)

Known == miniWin # None

\* close() and forget it; the window goes a moment later.
CloseMini == mini' = [mini EXCEPT ![miniWin] = "closing"] /\ miniWin' = None

\* toggleMiniPlayer, from the page, the tray or the mini player itself.
ToggleMini ==
  /\ ~died
  /\ IF Known THEN CloseMini
     ELSE \E w \in Minis : /\ mini[w] = "none" /\ \A v \in Minis : v < w => mini[v] # "none"
                           /\ mini' = [mini EXCEPT ![w] = "loading"] /\ miniWin' = w
  /\ UNCHANGED <<page, shows, visible, died>>

\* miniplayer:expand, from the mini player.
Expand ==
  /\ ~died /\ Known /\ mini[miniWin] = "open" /\ visible' = TRUE /\ CloseMini
  /\ UNCHANGED <<page, shows, died>>

\* ready-to-show: the mini player is shown and the main window hidden.  The handler reads
\* miniWin, which by now may be another window or none.
MiniReady(w) ==
  /\ ~died /\ mini[w] = "loading"
  /\ IF Known THEN mini' = [mini EXCEPT ![w] = "open"] /\ visible' = FALSE /\ UNCHANGED died
     ELSE died' = TRUE /\ UNCHANGED <<mini, visible>>
  /\ UNCHANGED <<page, shows, miniWin>>

\* The desktop closes it.
MiniCloses(w) ==
  /\ ~died /\ mini[w] = "open" /\ mini' = [mini EXCEPT ![w] = "closing"]
  /\ UNCHANGED <<page, shows, visible, miniWin, died>>

RestoreMainFromMini == visible' = TRUE

\* closed: whichever window it was, miniWin is none, and the main window is shown.
MiniClosed(w) ==
  /\ ~died /\ mini[w] = "closing" /\ mini' = [mini EXCEPT ![w] = "gone"] /\ miniWin' = None
  /\ RestoreMainFromMini /\ UNCHANGED <<page, shows, died>>

-----------------------------------------------------------------------------
Loading == Commit \/ LoadFails \/ Retry \/ Reconnect
Closing == \E w \in Minis : MiniClosed(w)
Next ==
  \/ Loading \/ FrameLoaded \/ Fallback \/ UiReady \/ Closing
  \/ Reload \/ Network \/ Toggle \/ ToggleMini \/ Expand
  \/ \E w \in Minis : MiniReady(w) \/ MiniCloses(w)

\* Loads, timers and closing windows get on; nobody has to press anything.
Fairness ==
  WF_vars(Loading) /\ WF_vars(FrameLoaded) /\ WF_vars(Fallback) /\ WF_vars(UiReady)
    /\ WF_vars(Closing)

Spec == Init /\ [][Next]_vars /\ Fairness

-----------------------------------------------------------------------------
(* Properties. *)

States == {"none", "loading", "open", "closing", "gone"}
TypeOK ==
  /\ doc \in {"blank", "apple", "error", "offline"} /\ loading \in {"none", "apple", "offline"}
  /\ runs \in 0..2 /\ mini \in [Minis -> States] /\ miniWin \in {None} \union Minis

\* Adam's bundles run at most once in a document and never in the offline page, whatever
\* frames finish, loads fail and retries start around it.
BundlesOncePerPage == runs <= 1 /\ (doc = "offline" => runs = 0)

\* Why: bundles that ran are noted, and the note is withdrawn only with a new document.
RunsAreNoted == runs > 0 => bundleInjected
IInv == /\ TypeOK /\ bundleInjected \in BOOLEAN /\ loads \in Nat /\ RunsAreNoted
        /\ BundlesOncePerPage

Reachable == net /\ ~died
AdamRuns  == doc = "apple" /\ runs = 1

\* With Apple Music reachable the window ends on an Apple page with the bundles in it.
PageIsAdam == <>[]Reachable => <>[]AdamRuns

MiniClosing(w) == mini[w] = "closing"
MainIsBack     == visible \/ died

\* A mini player that goes leaves the main window on the screen.
MainComesBack == \A w \in Minis : MiniClosing(w) ~> MainIsBack

=============================================================================
