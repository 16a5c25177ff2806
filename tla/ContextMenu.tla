---------------------------- MODULE ContextMenu ----------------------------
(***************************************************************************)
(* "Download" in Apple Music's context menu (engine-playback.js, initAML-    *)
(* Downloads).  The item is learnt by pressing the same menu's "Copy Link"    *)
(* while navigator.clipboard.writeText is replaced for at most a second; when *)
(* nothing is copied, by the element the menu was opened on.  The page may    *)
(* copy late or never, and the user goes on clicking meanwhile.  The icons    *)
(* put into the menu are kept there against the page's own rendering.         *)
(***************************************************************************)
EXTENDS Naturals, FiniteSets, Sequences

CONSTANTS Items,        \* songs, albums, videos of the page; their rows hold a link, or not
          Linked,       \* the items whose rows do
          Page,         \* the item the page's own address names, or 0
          MaxMenus,     \* bound: menus opened
          MaxAsks,      \* bound: clicks on Download
          MaxUser       \* bound: other clicks and copies of the user, rebuilds of the menu

None == 0
MenuAssumption == None \notin Items /\ Linked \subseteq Items /\ MaxUser \in Nat
Native == 0           \* the browser's own writeText

VARIABLES
  opened, menu,      \* items of the menus opened so far; the open one, or None
  target,            \* _ctxTarget: the item under it, or None
  asks,              \* links asked for whose timer runs: ask |-> menu
  orig,              \* what each ask found in writeText; ask |-> Native or an earlier ask
  write,             \* navigator.clipboard.writeText: Native or the ask that replaced it
  copies,            \* the page's answers to a pressed "Copy Link" on their way: [ask, item]
  clipboard,         \* what was written there last: [item, ask], ask None for the user's own
  started,           \* downloads begun: [ask, item]
  disturbed,         \* asks that overlapped another, a late copy, or the user's next action (ghost)
  user,              \* the user's other clicks and copies so far
  icon, armed, record \* the icon's span, _adamArmed, a mutation record for the observers

vars == <<opened, menu, target, asks, orig, write, copies, clipboard, started, disturbed, user, icon, armed, record>>
menuVars == <<icon, armed, record>>
linkVars == <<asks, orig, write, copies, clipboard, started, disturbed>>

Pending == DOMAIN asks

Init ==
  /\ opened = <<>> /\ menu = None /\ target = None
  /\ asks = <<>> /\ orig = <<>> /\ write = Native /\ copies = {} /\ clipboard = [item |-> None, ask |-> None]
  /\ started = {} /\ disturbed = {} /\ user = 0
  /\ icon = FALSE /\ armed = FALSE /\ record = FALSE

\* The user presses the button of item i's row, or right-clicks it: a menu of its own each time.
OpenMenu(i) ==
  /\ Len(opened) < MaxMenus
  /\ opened' = Append(opened, i) /\ menu' = Len(opened')
  /\ target' = i
  /\ disturbed' = disturbed \union Pending
  /\ icon' = FALSE /\ armed' = FALSE /\ record' = TRUE
  /\ UNCHANGED <<asks, orig, write, copies, clipboard, started, user>>

\* A press elsewhere on the page, on an item or beside them; it closes the menu.
PressElsewhere(i) ==
  /\ user < MaxUser /\ user' = user + 1
  /\ target' = i /\ menu' = None
  /\ disturbed' = disturbed \union Pending
  /\ UNCHANGED <<opened, asks, orig, write, copies, clipboard, started, menuVars>>

\* Mutant: the guard is dropped, and the target becomes the Download button.
PressedAnything == None
\* mousedown inside the menu leaves the target alone.
Pressed == target

\* resolveTrackInfo: a link around the target, else the page's own address.
ResolveTrackInfo(t) == IF t \in Linked THEN t ELSE Page

\* The item is known, or not: the menu is closed, the download begins.
Decide(n, i) ==
  /\ started' = IF i = None THEN started ELSE started \union {[ask |-> n, item |-> i]}
  /\ menu' = None

Unpended(n) == [a \in Pending \ {n} |-> asks[a]]

\* Download, in a menu without "Copy Link".
ClickBare ==
  /\ menu # None /\ Len(orig) < MaxAsks
  /\ target' = Pressed
  /\ orig' = Append(orig, write)
  /\ disturbed' = disturbed \union Pending
  /\ Decide(Len(orig'), ResolveTrackInfo(target'))
  /\ UNCHANGED <<opened, asks, write, copies, clipboard, user, menuVars>>

\* Download: writeText is replaced, and the page is made to copy. It may close the menu.
ClickDownload ==
  /\ menu # None /\ Len(orig) < MaxAsks
  /\ target' = Pressed
  /\ LET n == Len(orig) + 1 IN
     /\ orig' = Append(orig, write) /\ write' = n
     /\ asks' = [a \in Pending \union {n} |-> IF a = n THEN menu ELSE asks[a]]
     /\ disturbed' = IF Pending = {} /\ copies = {} THEN disturbed ELSE disturbed \union Pending \union {n}
     /\ copies' \in {copies, copies \union {[ask |-> n, item |-> opened[menu]]}}
  /\ menu' \in {menu, None}
  /\ UNCHANGED <<opened, clipboard, started, user, menuVars>>

\* What the interceptor of an ask leaves in writeText.
GivenBack(n) == orig[n]

\* writeText(i): for the ask it is replaced by, if its timer runs; swallowed if it does not.
WriteText(i, by) ==
  IF write = Native
  THEN /\ clipboard' = [item |-> i, ask |-> by]
       /\ UNCHANGED <<asks, write, started, menu>>
  ELSE /\ write' = GivenBack(write)
       /\ asks' = Unpended(write)
       /\ IF write \in Pending THEN Decide(write, i) ELSE UNCHANGED <<started, menu>>
       /\ UNCHANGED clipboard

\* The page answers "Copy Link", soon or late.
PageCopies(c) ==
  /\ c \in copies /\ copies' = copies \ {c}
  /\ WriteText(c.item, c.ask)
  /\ UNCHANGED <<opened, target, orig, disturbed, user, menuVars>>

\* The user copies a link or a text of item i himself.
UserCopies(i) ==
  /\ user < MaxUser /\ user' = user + 1
  /\ disturbed' = disturbed \union Pending
  /\ WriteText(i, None)
  /\ UNCHANGED <<opened, target, orig, copies, menuVars>>

\* A second without a copy: the element the menu was opened on decides, as it is by now.
TimerFires(n) ==
  /\ n \in Pending
  /\ write' = orig[n] /\ asks' = Unpended(n)
  /\ Decide(n, ResolveTrackInfo(target))
  /\ UNCHANGED <<opened, target, orig, copies, clipboard, disturbed, user, menuVars>>

-----------------------------------------------------------------------------
\* The page renders the menu anew: the icon goes; the container may be another one.
Rebuilds ==
  /\ menu # None /\ user < MaxUser /\ user' = user + 1
  /\ icon' = FALSE /\ armed' \in {armed, FALSE} /\ record' = TRUE
  /\ UNCHANGED <<opened, menu, target, linkVars>>

\* The container's own observer is connected again once it has put the icon back.
Reconnected == armed

\* _armContainer's observer in an armed container, injectMenuIcons for one that is not; the icon
\* is no change for the first, which is not connected then, and nothing to do for the second.
Dress ==
  /\ record /\ menu # None
  /\ icon' = (icon \/ ~armed \/ Reconnected) /\ armed' = TRUE
  /\ record' = FALSE
  /\ UNCHANGED <<opened, menu, target, linkVars, user>>

Next ==
  \/ \E i \in Items : OpenMenu(i) \/ UserCopies(i)
  \/ \E i \in Items \union {None} : PressElsewhere(i)
  \/ ClickBare \/ ClickDownload
  \/ \E c \in copies : PageCopies(c)
  \/ \E n \in Pending : TimerFires(n)
  \/ Rebuilds \/ Dress

Fairness == /\ WF_vars(Dress)
            /\ \A n \in 1..MaxAsks : WF_vars(TimerFires(n))
Spec == Init /\ [][Next]_vars /\ Fairness

-----------------------------------------------------------------------------
\* The types of the variables.
TypeOK ==
  /\ opened \in Seq(Items) /\ menu \in 0..Len(opened) /\ target \in Items \union {None}
  /\ \A n \in Pending : n \in 1..Len(orig) /\ asks[n] \in 1..Len(opened)
  /\ write \in 0..Len(orig) /\ clipboard.item \in Items \union {None}
  /\ disturbed \subseteq 1..Len(orig) /\ user \in 0..MaxUser
  /\ icon \in BOOLEAN /\ armed \in BOOLEAN /\ record \in BOOLEAN
  /\ orig \in Seq(Nat) /\ \A c \in copies : c.item \in Items

\* The page's clipboard is the browser's again once no link is asked for, whether the page copied
\* in time, late or never, as long as no two asks overlapped.
ClipboardIsGivenBack == Pending = {} /\ disturbed = {} => write = Native

StartsTheMenus == \A d \in started' \ started :
  d.ask \in Pending /\ d.ask \notin disturbed /\ user' = user =>
    LET used == opened[asks[d.ask]] IN d.item \in {used, ResolveTrackInfo(used)}

\* The download that begins is of the item whose menu was used (or what stands for it if its row
\* has no link), unless the user did something else while its link was asked for.
DownloadIsTheMenus == [][StartsTheMenus]_vars

\* While nothing overlapped, the one ask that runs replaced the browser's writeText.
OneAsk == disturbed = {} => \/ Pending = {} /\ write = Native
                            \/ \E n \in Pending : Pending = {n} /\ write = n /\ orig[n] = Native
\* The target is the open menu's item; it and the copies that may come are those of an ask that
\* nothing has disturbed.
TargetIsTheMenus == menu # None => target = opened[menu]
AskIsTheMenus == \A n \in Pending \ disturbed :
  target = opened[asks[n]] /\ \A c \in copies : c.item = opened[asks[n]]
IInv == /\ TypeOK /\ \A n \in 1..Len(orig) : orig[n] \in 0..Len(orig)
        /\ OneAsk /\ TargetIsTheMenus /\ AskIsTheMenus

Asked(n) == n \in Pending
Recorded == record
Dressed  == icon \/ menu = None

\* A click on Download is decided, though the page may never copy; and a menu that is open,
\* whatever the page has rendered into it, has its icons before long.
MenuSettles == (\A n \in 1..MaxAsks : Asked(n) ~> ~Asked(n)) /\ (Recorded ~> Dressed)

(* Expected to fail: the link the page was made to copy is not written to the clipboard
   (engine-playback.js:11213-11214); a page that copies after the second does write it. *)
NoCopyOfOurs == clipboard.ask = None
=============================================================================
