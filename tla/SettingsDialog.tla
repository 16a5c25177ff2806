--------------------------- MODULE SettingsDialog ---------------------------
(***************************************************************************)
(* The settings dialog (engine-playback.js, setupEngineSettings): opened   *)
(* by the user, by its own status poll, by finished requests and by the    *)
(* sign-in sheet; every opening clears it and renders its sections after   *)
(* two rounds of waiting.  Of the sections, the account row, the engine    *)
(* status poll, the audio quality controls and the downloads quality are   *)
(* modelled; the controls of the other sections each set one preference.   *)
(***************************************************************************)
EXTENDS Integers, Sequences

CONSTANTS MaxUser,   \* what the user does
          MaxDrm     \* changes of the engine's DRM state

SettingsAssumption == MaxUser \in Nat /\ MaxDrm \in Nat

VARIABLES
  drm,       \* /api/v1/drm/status: "starting", "out", "in" (signed in, FairPlay not ready), "ready"
  prefs,     \* the stored preferences the sections are about
  streaming, \* _streamingQuality of the page
  export,    \* the quality of the last download asked for
  dialog,    \* "closed", "open", "closing" (its animation runs)
  loads,     \* openSettings() calls that wait, newest or superseded
  content,   \* the sections in the dialog
  answers,   \* status answers under way, by the state their section was built with
  requests,  \* sign-out, clear-cache and sign-in that end in openSettings()
  wanted,    \* ghost: the user opened the dialog and has not closed it since
  user, changes

page == <<streaming, export>>
dlg == <<dialog, loads, content, wanted>>
vars == <<drm, prefs, page, dlg, answers, requests, user, changes>>

Drm == {"starting", "out", "in", "ready"}
Quality == {"high-quality", "lossless", "hi-res-lossless"}
Requests == {"sign-out", "clear cache", "sign-in"}

SignedIn(d) == d \in {"in", "ready"}
IsResolved(d) == d = "ready"

Init ==
  /\ drm \in {"starting", "out"}
  /\ prefs \in [lossless : BOOLEAN, streaming : {"lossless"}, download : {"lossless"}]
  /\ streaming = IF prefs.lossless THEN prefs.streaming ELSE "high-quality"
  /\ export = "none" /\ dialog = "closed" /\ loads = {} /\ content = <<>>
  /\ answers = {} /\ requests = {} /\ wanted = FALSE /\ user = 0 /\ changes = 0

----------------------------------------------------------------------------
(* openSettings(): the dialog is emptied and shown at once; one that is    *)
(* still closing is not shown again, and closes when its animation ends.   *)
OpenSettings ==
  /\ content' = <<>>
  /\ loads' = {[l EXCEPT !.newest = FALSE] : l \in loads}
                \cup {[newest |-> TRUE, built |-> FALSE, drm |-> drm, prefs |-> prefs]}
  /\ dialog' = IF dialog = "closed" THEN "open" ELSE dialog

(* The status, tools and preferences have come: a superseded call ends     *)
(* here, the newest one builds its sections.                               *)
StatusLoaded(l) ==
  /\ l \in loads /\ ~l.built
  /\ loads' = (loads \ {l}) \cup IF l.newest THEN {[l EXCEPT !.built = TRUE, !.drm = drm, !.prefs = prefs]} ELSE {}
  /\ UNCHANGED <<drm, prefs, page, dialog, content, wanted, answers, requests, user, changes>>

(* The controls as built: lossless is shown as on only when it is usable.  *)
Section(l) ==
  LET on == l.prefs.lossless /\ SignedIn(l.drm)
  IN [drm |-> l.drm, prefs |-> l.prefs, on |-> on, polling |-> ~IsResolved(l.drm)]

Current(l) == l.newest

SectionsBuilt(l) ==
  /\ l \in loads /\ l.built /\ loads' = loads \ {l}
  /\ content' = IF Current(l) THEN Append(content, Section(l)) ELSE content
  /\ UNCHANGED <<drm, prefs, page, dialog, wanted, answers, requests, user, changes>>

----------------------------------------------------------------------------
(* The engine status section polls while its rows are in the document,     *)
(* shown or not.  A change of the signed-in state renders everything anew. *)

StatusTick(i) ==
  /\ i \in DOMAIN content /\ content[i].polling /\ content[i].drm \notin answers
  /\ answers' = answers \cup {content[i].drm}
  /\ UNCHANGED <<drm, prefs, page, dlg, requests, user, changes>>

StopPoll(from) == content' = [i \in DOMAIN content |->
  IF content[i].drm = from THEN [content[i] EXCEPT !.polling = FALSE] ELSE content[i]]

StatusAnswer(from) ==
  /\ from \in answers /\ answers' = answers \ {from}
  /\ \/ SignedIn(drm) # SignedIn(from) /\ OpenSettings
     \/ /\ SignedIn(drm) = SignedIn(from) /\ UNCHANGED <<loads, dialog>>
        /\ IF IsResolved(drm) THEN StopPoll(from) ELSE UNCHANGED content
  /\ UNCHANGED <<drm, prefs, page, wanted, requests, user, changes>>

(* A request of the dialog ends, or the sign-in sheet does                 *)
(* (_onAccountSignedIn): the dialog is rendered anew.                      *)
RequestEnds(r) ==
  /\ r \in requests /\ requests' = requests \ {r} /\ OpenSettings
  /\ IF r = "sign-out" THEN drm' = "out" ELSE UNCHANGED drm
  /\ UNCHANGED <<prefs, page, wanted, answers, user, changes>>

----------------------------------------------------------------------------
(* The user.                                                               *)

Acts == user < MaxUser /\ user' = user + 1
Shown(i) == dialog = "open" /\ i \in DOMAIN content

UserOpens ==
  /\ Acts /\ dialog # "open" /\ OpenSettings /\ wanted' = TRUE
  /\ UNCHANGED <<drm, prefs, page, answers, requests, changes>>

CloseSettings ==
  /\ Acts /\ dialog = "open" /\ dialog' = "closing" /\ wanted' = FALSE
  /\ UNCHANGED <<drm, prefs, page, loads, content, answers, requests, changes>>

AnimationEnds ==
  /\ dialog = "closing" /\ dialog' = "closed"
  /\ UNCHANGED <<drm, prefs, page, loads, content, wanted, answers, requests, user, changes>>

Refresh(i) ==
  /\ Acts /\ Shown(i) /\ OpenSettings
  /\ UNCHANGED <<drm, prefs, page, wanted, answers, requests, changes>>

PressRequest(i, r) ==
  /\ Acts /\ Shown(i) /\ r \notin requests /\ requests' = requests \cup {r}
  /\ r = "sign-out" => SignedIn(content[i].drm)
  /\ r = "sign-in" => ~SignedIn(content[i].drm)
  /\ UNCHANGED <<drm, prefs, page, dlg, answers, changes>>

QualityAfter(on, saved) == IF on THEN saved ELSE "high-quality"

(* The lossless toggle: "on" restores the quality of the preferences the   *)
(* dialog was opened with.                                                 *)
ToggleLossless(i) ==
  /\ Acts /\ Shown(i) /\ SignedIn(content[i].drm)
  /\ content' = [content EXCEPT ![i].on = ~@]
  /\ prefs' = [prefs EXCEPT !.lossless = ~content[i].on]
  /\ streaming' = QualityAfter(~content[i].on, content[i].prefs.streaming)
  /\ UNCHANGED <<drm, export, dialog, loads, wanted, answers, requests, changes>>

PickStreaming(i, q) ==
  /\ Acts /\ Shown(i) /\ content[i].on
  /\ prefs' = [prefs EXCEPT !.streaming = q] /\ streaming' = q
  /\ UNCHANGED <<drm, export, dlg, answers, requests, changes>>

(* The reset button beside the dropdown switches lossless on first.        *)
ResetStreaming(i) ==
  /\ Acts /\ Shown(i) /\ SignedIn(content[i].drm)
  /\ content' = [content EXCEPT ![i].on = TRUE]
  /\ prefs' = [prefs EXCEPT !.lossless = TRUE, !.streaming = "lossless"] /\ streaming' = "lossless"
  /\ UNCHANGED <<drm, export, dialog, loads, wanted, answers, requests, changes>>

PickDownload(i, q) ==
  /\ Acts /\ Shown(i) /\ content[i].on /\ prefs' = [prefs EXCEPT !.download = q]
  /\ UNCHANGED <<drm, page, dlg, answers, requests, changes>>

(* startDownload reads the preference 'downloads-quality', which nothing   *)
(* writes (the dialog stores 'dl-quality'), and falls back to              *)
(* _downloadsQuality.                                                      *)
Download ==
  /\ Acts /\ export' = "lossless"
  /\ UNCHANGED <<drm, prefs, streaming, dlg, answers, requests, changes>>

----------------------------------------------------------------------------
DrmChanges ==
  /\ changes < MaxDrm /\ changes' = changes + 1
  /\ \E d \in Drm \ {drm} : drm' = d
  /\ UNCHANGED <<prefs, page, dlg, answers, requests, user>>

Next ==
  \/ \E l \in loads : StatusLoaded(l) \/ SectionsBuilt(l)
  \/ \E from \in answers : StatusAnswer(from)
  \/ \E r \in requests : RequestEnds(r)
  \/ \E i \in DOMAIN content :
       \/ StatusTick(i) \/ Refresh(i) \/ ToggleLossless(i) \/ ResetStreaming(i)
       \/ \E r \in Requests : PressRequest(i, r)
       \/ \E q \in Quality : PickStreaming(i, q) \/ PickDownload(i, q)
  \/ UserOpens \/ CloseSettings \/ AnimationEnds \/ Download \/ DrmChanges

Loads == \E l \in loads : StatusLoaded(l) \/ SectionsBuilt(l)
RequestsEnd == \E r \in requests : RequestEnds(r)
StatusTicks == \E i \in DOMAIN content : StatusTick(i)

(* Requests are answered; the poll's interval and the animation run on.    *)
Fairness ==
  /\ WF_vars(Loads) /\ WF_vars(RequestsEnd) /\ WF_vars(StatusTicks) /\ WF_vars(AnimationEnds)
  /\ \A from \in Drm : WF_vars(StatusAnswer(from))
Spec == Init /\ [][Next]_vars /\ Fairness

----------------------------------------------------------------------------
PrefsTypes == [lossless : BOOLEAN, streaming : Quality, download : Quality]
LoadTypes == [newest : BOOLEAN, built : BOOLEAN, drm : Drm, prefs : PrefsTypes]
SectionTypes == [drm : Drm, prefs : PrefsTypes, on : BOOLEAN, polling : BOOLEAN]

TypeOK ==
  /\ drm \in Drm /\ streaming \in Quality /\ export \in Quality \cup {"none"} /\ prefs \in PrefsTypes
  /\ dialog \in {"closed", "open", "closing"} /\ wanted \in BOOLEAN
  /\ loads \subseteq LoadTypes /\ content \in Seq(SectionTypes)
  /\ answers \subseteq Drm /\ requests \subseteq Requests

(* However many openings overlap, the dialog holds one set of sections,    *)
(* the newest opening's ("preventing concurrent renders from appending     *)
(* duplicate sections"); and while lossless is switched off the page asks  *)
(* for AAC, whatever was picked, reset or reopened in between.             *)
OneRender == /\ Len(content) <= 1
             /\ \A l, m \in loads : l.newest /\ m.newest => l = m /\ content = <<>>
AacWhenOff == ~prefs.lossless => streaming = "high-quality"
DialogIsTrue == OneRender /\ AacWhenOff

(* While the newest opening waits there is no control that could set a     *)
(* preference, so it renders those that are stored.                        *)
IInv ==
  /\ TypeOK /\ DialogIsTrue
  /\ \A l \in loads : l.newest /\ l.built => l.prefs = prefs
  /\ \A i \in DOMAIN content : content[i].on => prefs.lossless

OpenSignedIn == SignedIn(drm) /\ dialog = "open"
SignInShown  == \E i \in DOMAIN content : SignedIn(content[i].drm)

(* An account that signs in while the dialog is open is shown in it.       *)
SignInIsShown == OpenSignedIn ~> (~OpenSignedIn \/ SignInShown)

(* Expected to fail.  "toggling on restores the saved choice"              *)
(* (engine-playback.js:9951): it restores the one saved when the dialog    *)
(* was opened, so after hi-res is picked, off and on play plain lossless.  *)
OnRestoresTheSaved == prefs.lossless => streaming = prefs.streaming

(* Expected to fail.  "_downloadsQuality ... same options, applied to      *)
(* export requests" (engine-playback.js:748): the quality picked in        *)
(* Settings is the quality of the next download.                           *)
DownloadsAsPicked == [][Download => export' = prefs.download]_vars

(* Expected to fail.  "set by the open Settings dialog to refresh itself"  *)
(* (engine-playback.js:39): a dialog the user closed stays closed.         *)
ClosedStaysClosed == dialog = "open" => wanted
=============================================================================
