---------------------------- MODULE LinkHandling ----------------------------
(***************************************************************************)
(* Links from outside (link-schemes.mjs, deeplink.mjs, main.mjs).  First the  *)
(* URL schemes Adam claims on Linux: the choices and the claims made are kept *)
(* in the preferences, the claims in the desktop's two mimeapps.list files,    *)
(* which other programs edit too; any write can fail and the program can die  *)
(* between two of them.  Then the links themselves: one on the command line,   *)
(* others from later instances, opened by the page once it listens.            *)
(***************************************************************************)
EXTENDS Naturals, Sequences, SequencesExt

CONSTANTS Schemes,     \* the Apple schemes offered (APPLE_SCHEMES, none of them Windows only)
          Other,       \* another program that handles them
          Links,       \* links opened; 1 is the cold start's
          Abroad,      \* those that name another storefront
          Pages,       \* those that are pages to load
          Notices,     \* those of schemes a web client cannot act on
          MaxFaults, MaxChanges   \* bounds: failed writes and deaths; changes by the user and others

Adam == "adam"         \* linuxDesktopId()
Primary == 1
Files == {Primary, 2}  \* mimeappsFiles(): ~/.config and ~/.local/share/applications
NotRunning == [pc |-> "none"]

LinkAssumption == /\ 1 \in Links /\ Other # Adam
                  /\ MaxFaults \in Nat /\ MaxChanges \in Nat

VARIABLES
  linkSchemes, recorded,    \* the preferences linkSchemes and linkSchemesApplied
  handlers,                 \* handlers[file][scheme]: who handles it, the default first
  run,                      \* apply() under way: [pc, todo, want, applied], or NotRunning
  up,                       \* the program runs and has applied the choices
  failed,                   \* schemes a write for which failed (ghost)
  faults, changes,
  page, cold, arrived,      \* "loading", "ready", "listening"; the cold link; links passed on so far
  opens, acted, queue       \* _deepLinkOpen calls; links acted upon, in order; whose item is queued

schemeVars == <<linkSchemes, recorded, handlers, run, up, failed, faults, changes>>
linkVars == <<page, cold, arrived, opens, acted, queue>>
vars == <<schemeVars, linkVars>>

\* The handlers of a scheme in a file, without repetition; Other stands for the others.
Lists == {<<>>, <<Adam>>, <<Other>>, <<Adam, Other>>, <<Other, Adam>>}
Only(h, q) == IF h \in ToSet(q) THEN <<h>> ELSE <<>>
Others(q) == Only(Other, q)

Init ==
  /\ linkSchemes = {} /\ recorded = {}
  /\ handlers \in [Files -> [Schemes -> {<<>>, <<Other>>}]]
  /\ run = NotRunning /\ up = FALSE /\ failed = {} /\ faults = 0 /\ changes = 0
  /\ page = "loading" /\ cold = "argument" /\ arrived = {}
  /\ opens = {} /\ acted = <<>> /\ queue = 0

\* addSchemeAssociations: Adam first, the others after it.
AddAssociation(q) == IF Other \in ToSet(q) THEN <<Adam, Other>> ELSE <<Adam>>
\* removeSchemeAssociations: an entry without handlers is dropped, the others' stay.
RemoveAssociation(q) == Others(q)

Fails == faults < MaxFaults /\ faults' = faults + 1

\* apply(): what it reads before it begins.
Begin(want) ==
  run' = [pc |-> "register", todo |-> want, want |-> want, applied |-> recorded]

\* The program starts: apply() with the saved choices.
StartUp ==
  /\ ~up /\ run = NotRunning
  /\ Begin(linkSchemes) /\ up' = TRUE
  /\ UNCHANGED <<linkSchemes, recorded, handlers, failed, faults, changes, linkVars>>

\* set(): the choice is saved, then applied.
SetScheme(s, enabled) ==
  /\ up /\ run = NotRunning /\ changes < MaxChanges /\ changes' = changes + 1
  /\ linkSchemes' = IF enabled THEN linkSchemes \union {s} ELSE linkSchemes \ {s}
  /\ Begin(linkSchemes')
  /\ UNCHANGED <<recorded, handlers, up, failed, faults, linkVars>>

\* register(s); a write that fails leaves it unrecorded.
Register(s) ==
  /\ run.pc = "register" /\ s \in run.todo
  /\ \/ /\ handlers' = [handlers EXCEPT ![Primary][s] = AddAssociation(@)]
        /\ run' = [run EXCEPT !.todo = @ \ {s}, !.applied = @ \union {s}]
        /\ UNCHANGED <<failed, faults>>
     \/ /\ Fails /\ failed' = failed \union {s}
        /\ run' = [run EXCEPT !.todo = @ \ {s}] /\ UNCHANGED handlers
  /\ UNCHANGED <<linkSchemes, recorded, up, changes, linkVars>>

\* The claims made that are not wanted any more.
ToUnregister(r) == r.applied \ r.want

AllRegistered ==
  /\ run.pc = "register" /\ run.todo = {}
  /\ run' = [run EXCEPT !.pc = "unregister", !.todo = ToUnregister(run)]
  /\ UNCHANGED <<linkSchemes, recorded, handlers, up, failed, faults, changes, linkVars>>

\* unregister(s): both files; one that cannot be written is left alone, and it counts as done.
Unregister(s) ==
  /\ run.pc = "unregister" /\ s \in run.todo
  /\ \/ /\ handlers' = [f \in Files |-> [handlers[f] EXCEPT ![s] = RemoveAssociation(@)]]
        /\ UNCHANGED <<failed, faults>>
     \/ /\ Fails /\ failed' = failed \union {s}
        /\ \E f \in Files : handlers' = [handlers EXCEPT ![f][s] = RemoveAssociation(@)]
  /\ run' = [run EXCEPT !.todo = @ \ {s}, !.applied = @ \ {s}]
  /\ UNCHANGED <<linkSchemes, recorded, up, changes, linkVars>>

\* The claims are recorded.
Record ==
  /\ run.pc = "unregister" /\ run.todo = {}
  /\ recorded' = run.applied /\ run' = NotRunning
  /\ UNCHANGED <<linkSchemes, handlers, up, failed, faults, changes, linkVars>>

\* The program dies, in the middle of apply() or between.
Dies ==
  /\ up /\ Fails /\ up' = FALSE /\ run' = NotRunning
  /\ UNCHANGED <<linkSchemes, recorded, handlers, failed, changes, linkVars>>

\* Another program is installed, made the default in the desktop's settings, or removed.
OtherEdits(f, s) ==
  /\ changes < MaxChanges /\ changes' = changes + 1 /\ run = NotRunning
  /\ \E q \in Lists : Only(Adam, q) = Only(Adam, handlers[f][s]) /\ handlers' = [handlers EXCEPT ![f][s] = q]
  /\ UNCHANGED <<linkSchemes, recorded, run, up, failed, faults, linkVars>>

OwnStep == StartUp \/ AllRegistered \/ Record \/ \E s \in Schemes : Register(s) \/ Unregister(s)
SchemeNext ==
  \/ OwnStep \/ Dies
  \/ \E s \in Schemes : \/ \E on \in BOOLEAN : SetScheme(s, on)
                        \/ \E f \in Files : OtherEdits(f, s)

-----------------------------------------------------------------------------
\* parseLink: an item to open, a page to load, or a scheme to say sorry for.
ParseLink(l) == IF l \in Pages THEN "navigate" ELSE IF l \in Notices THEN "unsupported" ELSE "intent"

\* _dispatchDeepLink: an intent is sent to the page, which may not listen yet; a page is loaded.
Dispatch(l) ==
  /\ acted' = Append(acted, l)
  /\ CASE ParseLink(l) = "navigate" -> page' = "loading" /\ opens' = {}
       [] ParseLink(l) = "unsupported" -> UNCHANGED <<page, opens>>
       [] OTHER ->
            /\ opens' = IF page = "listening" THEN opens \union {[link |-> l, pc |-> "storefront"]} ELSE opens
            /\ UNCHANGED page

\* Mutant: the cold link waits for the page's next app:ui-ready.
ColdAgain == "argument"
\* ipcMain.once: the cold link goes with the first app:ui-ready only.
ColdOnce == "none"

\* The page says that it shows itself: app:ui-ready.
UiReady ==
  /\ page = "loading" /\ page' = "ready"
  /\ cold' = IF cold = "argument" THEN "timer" ELSE cold
  /\ UNCHANGED <<arrived, opens, acted, queue, schemeVars>>

\* MusicKit is ready: _deepLinkSetup.
Listens ==
  /\ page = "ready" /\ page' = "listening"
  /\ UNCHANGED <<cold, arrived, opens, acted, queue, schemeVars>>

\* Two seconds later.
ColdLink ==
  /\ cold = "timer" /\ cold' = ColdOnce
  /\ Dispatch(1) /\ arrived' = arrived \union {1}
  /\ UNCHANGED <<queue, schemeVars>>

\* A later instance passes its link on.
SecondInstance(l) ==
  /\ l # 1 /\ l \notin arrived /\ arrived' = arrived \union {l}
  /\ Dispatch(l)
  /\ UNCHANGED <<cold, queue, schemeVars>>

\* _deepLinkOpen: the storefront first, when it is another; then the queue, whose answer plays.
Opens(o) ==
  /\ o \in opens
  /\ IF o.pc = "storefront" /\ o.link \in Abroad
     THEN opens' = (opens \ {o}) \union {[o EXCEPT !.pc = "queue"]} /\ UNCHANGED queue
     ELSE opens' = opens \ {o} /\ queue' \in {queue, o.link}
  /\ UNCHANGED <<page, cold, arrived, acted, schemeVars>>

LinkNext == UiReady \/ Listens \/ ColdLink \/ (\E l \in Links : SecondInstance(l)) \/ \E o \in opens : Opens(o)

Next == SchemeNext \/ LinkNext
Fairness == WF_vars(OwnStep) /\ WF_vars(LinkNext)
Spec == Init /\ [][Next]_vars /\ Fairness

-----------------------------------------------------------------------------
\* The types of the variables.
TypeOK ==
  /\ linkSchemes \subseteq Schemes /\ recorded \subseteq Schemes /\ failed \subseteq Schemes
  /\ handlers \in [Files -> [Schemes -> Lists]]
  /\ run \in {NotRunning} \union [pc : {"register", "unregister"}, todo : SUBSET Schemes,
                                  want : SUBSET Schemes, applied : SUBSET Schemes]
  /\ up \in BOOLEAN /\ faults \in 0..MaxFaults /\ changes \in 0..MaxChanges
  /\ page \in {"loading", "ready", "listening"} /\ cold \in {"argument", "timer", "none"}
  /\ arrived \subseteq Links /\ acted \in Seq(Links) /\ queue \in {0} \union Links
  /\ opens \subseteq [link : Links, pc : {"storefront", "queue"}]

Claimed(s) == Adam \in ToSet(handlers[Primary][s])

\* Wherever the program died, once it has started again every claim of Adam's is one the user
\* chose and the preferences record, unless a write of it failed.
ClaimsAreChosen ==
  up /\ run = NotRunning =>
    \A s \in Schemes \ failed : Claimed(s) => s \in linkSchemes \intersect recorded

OthersKept == run # NotRunning =>
                \A f \in Files, s \in Schemes : Others(handlers'[f][s]) = Others(handlers[f][s])

\* Adam never takes another program out of the handlers, in either file, nor changes their order.
OthersAreKept == [][OthersKept]_vars

\* A link is acted upon at most once, though the page loads again and reports itself again.
LinksOnce == IsInjective(acted)
-----------------------------------------------------------------------------
(* The inductive invariant.  Adam's claims, but those of a failed write, are chosen or          *)
(* recorded; a run of apply() has put every claim into what it will record, and an unwanted one *)
(* among those still to be withdrawn.                                                            *)

ClaimsHaveReasons == \A s \in Schemes \ failed : Claimed(s) => s \in linkSchemes \union recorded

RunIsComplete ==
  run # NotRunning =>
    /\ run.want = linkSchemes
    /\ IF run.pc = "register" THEN run.todo \subseteq run.want ELSE run.todo \intersect run.want = {}
    /\ \A s \in Schemes \ failed :
         /\ s \in run.want => s \in run.applied \/ (run.pc = "register" /\ s \in run.todo)
         /\ Claimed(s) => s \in run.want \union run.applied
         /\ run.pc = "unregister" /\ s \in run.applied => s \in run.want \union run.todo

ActedArrived ==
  /\ \A i \in DOMAIN acted : acted[i] \in arrived
  /\ 1 \in arrived => cold = "none"

IInv == TypeOK /\ ClaimsHaveReasons /\ RunIsComplete /\ ClaimsAreChosen /\ ActedArrived /\ LinksOnce
=============================================================================
