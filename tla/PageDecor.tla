------------------------------ MODULE PageDecor ------------------------------
(***************************************************************************)
(* What Adam adds to Apple Music's page (engine-playback.js): the line     *)
(* with an album's statistics in its header, the colours taken from its    *)
(* artwork, the history above the queue, and the search suggestions moved  *)
(* out of the search bar.  Apple's page is rebuilt at will; one shared     *)
(* MutationObserver, coalesced to a frame, calls the watchers, which       *)
(* themselves change the document they watch.                              *)
(*                                                                         *)
(* An album is a number and stands for its artwork and for the text of its *)
(* footer; 0 is a page without a detail header.                            *)
(***************************************************************************)
EXTENDS Integers, Sequences

CONSTANTS Albums,   \* albums whose pages the user opens
          MaxDom,   \* times Apple's page is rebuilt
          MaxTogs,  \* settings the user flips
          MaxFaults \* artworks no palette can be read from

DecorAssumption == Albums \subseteq Nat \ {0}

VARIABLES
  header, foot, ready,     \* Apple's page: its album, its footer's text, its artwork is resolved
  panel,                   \* the side panel is mounted
  bar,                     \* the search suggestions: "none", "bar", or moved to the "body"
  queued,                  \* _domSettleQueued
  statsEl, restEl,         \* "none", "out" of the current header (footer), or "in" it
  statsText, lastText,     \* the statistics shown; lastText, -1 for null
  enabled, lastSrc, token, \* of initArtTheme; 0 for null
  pending,                 \* artworks being decoded, with their tokens
  waits,                   \* the artwork has a 'load' listener
  theme, layers,           \* the album whose colours are set; the layers exist
  histEnabled, section,    \* _histEnabled; the history is in the panel
  portaled,                \* the portal's element is remembered
  notices,                 \* mutations the portal's observer has not been told of
  doms, togs, faults

page == <<header, foot, ready>>
stats == <<statsEl, restEl, statsText, lastText>>
art == <<enabled, lastSrc, token, pending, waits, theme, layers>>
hist == <<panel, histEnabled, section>>
search == <<bar, portaled, notices>>
counts == <<doms, togs, faults>>
vars == <<page, queued, stats, art, hist, search, counts>>

Pages == Albums \cup {0}

Init ==
  /\ header = 0 /\ foot = 0 /\ ready = FALSE /\ panel = FALSE /\ bar = "none" /\ queued = FALSE
  /\ statsEl = "none" /\ restEl = "none" /\ statsText = 0 /\ lastText = -1
  /\ enabled \in BOOLEAN /\ lastSrc = 0 /\ token = 0 /\ pending = {} /\ waits = FALSE /\ theme = 0
  /\ layers = FALSE /\ histEnabled \in BOOLEAN /\ section = FALSE
  /\ portaled = FALSE /\ notices = <<>> /\ doms = 0 /\ togs = 0 /\ faults = 0

----------------------------------------------------------------------------
(* sync of initTracklistStatsInHeader                                      *)

NoHeader ==
  /\ header = 0 /\ statsEl' = "none" /\ restEl' = "none" /\ lastText' = -1 /\ UNCHANGED statsText

NewStats == statsEl # "in"
NewRest == foot # 0 /\ restEl # "in"
\* Mutant: a new element does not reset lastText.
TextChangedOnly == foot # lastText
TextChanged == NewStats \/ NewRest \/ foot # lastText

(* With the footer gone while its copy is still remembered, the sync       *)
(* throws between the two texts, so lastText is not set.                   *)
WithHeader ==
  /\ header # 0 /\ statsEl' = "in" /\ restEl' = (IF NewRest THEN "in" ELSE restEl)
  /\ \/ TextChanged /\ statsText' = foot
        /\ lastText' = (IF foot = 0 /\ restEl # "none" THEN (IF NewStats THEN -1 ELSE lastText) ELSE foot)
     \/ ~TextChanged /\ UNCHANGED <<statsText, lastText>>

StatsSync == NoHeader \/ WithHeader
(* Whether the sync changes the child lists the shared observer watches.   *)
StatsMutates ==
  \/ header = 0 /\ (statsEl = "in" \/ restEl = "in")
  \/ header # 0 /\ (NewStats \/ NewRest)
  \/ header # 0 /\ TextChanged /\ (statsText # 0 \/ foot # 0)

(* _histInject.  "do NOT call _histRender() here - that triggers another   *)
(* mutation, which re-fires this observer, causing an infinite loop."      *)
Injects == panel /\ (histEnabled # section)
HistInject == section' = (panel /\ histEnabled)

----------------------------------------------------------------------------
(* sync of initArtTheme, with enabled = on and lastSrc = last.             *)

Clear == theme' = 0
NoArt(last) ==
  /\ lastSrc' = 0 /\ (IF last # 0 THEN Clear /\ token' = token + 1 ELSE UNCHANGED <<theme, token>>)
  /\ UNCHANGED <<pending, waits, layers>>
SwitchedOff(last) ==
  /\ lastSrc' = 0 /\ token' = (IF last # 0 \/ theme # 0 THEN token + 1 ELSE token) /\ Clear
  /\ UNCHANGED <<pending, waits, layers>>
Themes(last) ==
  /\ lastSrc' = header
  /\ IF header = last THEN UNCHANGED <<token, pending>>
     ELSE token' = token + 1 /\ pending' = pending \cup {<<token + 1, header>>}
  /\ UNCHANGED <<theme, layers>>

ArtSync(on, last) ==
  /\ enabled' = on
  /\ \/ ~on /\ SwitchedOff(last)
     \/ on /\ header = 0 /\ NoArt(last)
     \/ on /\ header # 0 /\ ~ready /\ waits' = TRUE /\ lastSrc' = last /\ UNCHANGED <<token, pending, theme, layers>>
     \/ on /\ header # 0 /\ ready /\ Themes(last) /\ UNCHANGED waits

StillWanted(tok) == tok = token /\ enabled
(* The artwork is decoded.  apply inserts the layers once; no palette at   *)
(* all clears the colours.                                                 *)
Decoded ==
  \E c \in pending : pending' = pending \ {c} /\
    /\ \/ StillWanted(c[1]) /\ theme' = c[2] /\ layers' = TRUE /\ queued' = (queued \/ ~layers) /\ UNCHANGED faults
       \/ StillWanted(c[1]) /\ faults < MaxFaults /\ faults' = faults + 1 /\ Clear /\ UNCHANGED <<layers, queued>>
       \/ ~StillWanted(c[1]) /\ UNCHANGED <<theme, layers, queued, faults>>
    /\ UNCHANGED <<page, stats, enabled, lastSrc, token, waits, hist, search, doms, togs>>

(* The frame watchDomSettled asked for: "Snapshot: a callback may          *)
(* unregister itself"; what the callbacks change is noticed again.         *)
Frame ==
  /\ queued /\ StatsSync /\ HistInject /\ ArtSync(enabled, lastSrc)
  /\ queued' = (StatsMutates \/ Injects)
  /\ UNCHANGED <<page, panel, histEnabled, search, counts>>

----------------------------------------------------------------------------
(* The user's switches, which call the watcher at once.                    *)

ToggleArt ==
  /\ togs < MaxTogs /\ togs' = togs + 1 /\ ArtSync(~enabled, 0)
  /\ UNCHANGED <<page, queued, stats, hist, search, doms, faults>>

ToggleHistory ==
  /\ togs < MaxTogs /\ togs' = togs + 1 /\ histEnabled' = ~histEnabled
  /\ section' = (panel /\ histEnabled') /\ queued' = (queued \/ section # section')
  /\ UNCHANGED <<page, stats, art, panel, search, doms, faults>>

----------------------------------------------------------------------------
(* The portal's own observer, told of additions and removals in order.     *)

DoPortal == bar' = "body" /\ portaled' = TRUE /\ queued' = TRUE
Noticed ==
  /\ notices # <<>>
  /\ \/ /\ Head(notices) = "added" /\ bar = "bar" /\ DoPortal /\ notices' = Append(Tail(notices), "moved")
     \/ /\ Head(notices) = "added" /\ bar # "bar" /\ notices' = Tail(notices) /\ UNCHANGED <<bar, portaled, queued>>
     \/ /\ Head(notices) # "added" /\ portaled' = FALSE /\ notices' = Tail(notices) /\ UNCHANGED <<bar, queued>>
  /\ UNCHANGED <<page, stats, art, hist, counts>>

(* The poll of the search field finds them first.                          *)
TryScan ==
  /\ bar = "bar" /\ DoPortal /\ notices' = Append(notices, "moved")
  /\ UNCHANGED <<page, stats, art, hist, counts>>

----------------------------------------------------------------------------
(* Apple's page.                                                           *)

Lost(el) == IF el = "in" THEN "out" ELSE el
Rebuilds == doms < MaxDom /\ doms' = doms + 1 /\ queued' = TRUE /\ UNCHANGED <<togs, faults>>

Navigate ==
  /\ Rebuilds /\ \E h \in Pages : header' = h
  /\ foot' = 0 /\ ready' = FALSE /\ waits' = FALSE /\ statsEl' = Lost(statsEl) /\ restEl' = Lost(restEl)
  /\ UNCHANGED <<statsText, lastText, enabled, lastSrc, token, pending, theme, layers, hist, search>>

FooterComes ==
  /\ header # 0 /\ foot = 0 /\ foot' = header /\ queued' = TRUE
  /\ UNCHANGED <<header, ready, stats, art, hist, search, counts>>
FooterGoes ==
  /\ foot # 0 /\ Rebuilds /\ foot' = 0 /\ restEl' = Lost(restEl)
  /\ UNCHANGED <<header, ready, statsEl, statsText, lastText, art, hist, search>>

(* The lazy artwork is resolved, which changes no child list.              *)
ArtworkLoads ==
  /\ header # 0 /\ ~ready /\ ready' = TRUE
  /\ IF waits /\ enabled THEN waits' = FALSE /\ Themes(lastSrc) /\ UNCHANGED enabled ELSE UNCHANGED art
  /\ UNCHANGED <<header, foot, queued, stats, hist, search, counts>>

PanelChanges ==
  /\ Rebuilds /\ panel' \in BOOLEAN /\ section' = FALSE
  /\ UNCHANGED <<page, stats, art, histEnabled, search>>

SuggestionsCome ==
  /\ bar = "none" /\ Rebuilds /\ bar' = "bar" /\ notices' = Append(notices, "added")
  /\ UNCHANGED <<page, stats, art, hist, portaled>>
SuggestionsGo ==
  /\ bar # "none" /\ Rebuilds /\ bar' = "none" /\ notices' = Append(notices, "gone")
  /\ UNCHANGED <<page, stats, art, hist, portaled>>

Next ==
  \/ Frame \/ Decoded \/ Noticed \/ TryScan \/ ToggleArt \/ ToggleHistory \/ Navigate \/ FooterComes
  \/ FooterGoes \/ ArtworkLoads \/ PanelChanges \/ SuggestionsCome \/ SuggestionsGo
Spec == Init /\ [][Next]_vars /\ WF_vars(Frame) /\ WF_vars(Decoded) /\ WF_vars(Noticed) /\ WF_vars(ArtworkLoads)

----------------------------------------------------------------------------
TypeOK ==
  /\ header \in Pages /\ foot \in {0, header} /\ ready \in BOOLEAN /\ panel \in BOOLEAN /\ bar \in {"none", "bar", "body"}
  /\ queued \in BOOLEAN /\ statsEl \in {"none", "out", "in"} /\ restEl \in {"none", "out", "in"}
  /\ statsText \in Pages /\ lastText \in Pages \cup {-1} /\ lastSrc \in Pages /\ theme \in Pages
  /\ \A c \in pending : c[1] \in 1..token /\ c[2] \in Albums
  /\ enabled \in BOOLEAN /\ token \in Nat
  /\ section \in BOOLEAN /\ histEnabled \in BOOLEAN /\ (section => panel)

(* A settled page is decorated for what it is: its own statistics, and the *)
(* history exactly when there is a panel and the user wants it.            *)
SettledIsDecorated ==
  ~queued =>
    /\ header = 0 => statsEl = "none"
    /\ header # 0 => statsEl = "in" /\ statsText = foot
    /\ section = (panel /\ histEnabled)

(* Switched off, no artwork colours the page, whatever was being decoded.  *)
OffShowsNoTheme == ~enabled => theme = 0

(* What the statistics show is what lastText says, unless it was reset, or *)
(* a sync threw when the footer had gone; a footer's copy goes with it.    *)
IInv ==
  /\ TypeOK /\ SettledIsDecorated /\ OffShowsNoTheme
  /\ restEl = "in" => foot # 0
  /\ statsEl = "in" => \/ lastText \in {-1, statsText}
                       \/ statsText = 0 /\ restEl = "out"

Still == ~queued

(* The watchers, each of which changes the document they are all called    *)
(* for, come to rest: once Apple's page is quiet, no frame is asked for.   *)
WatchersSettle == <>[]Still

ThemeWanted(a) == enabled /\ header = a /\ ready
ThemeDone(a)   == ~enabled \/ header # a \/ (theme \in {0, a} /\ lastSrc = a /\ pending = {})

(* A page comes to wear the colours of its own artwork, or none when none  *)
(* could be read.                                                          *)
ThemeFollows == \A a \in Albums : ThemeWanted(a) ~> ThemeDone(a)

InTheBar == bar = "bar"

(* Suggestions that appear in the bar are moved to the page's own place.   *)
SuggestionsAreMoved == InTheBar ~> ~InTheBar
=============================================================================
