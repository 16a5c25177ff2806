----------------------------- MODULE ThemeMode -----------------------------
(***************************************************************************)
(* The theme of the page (electron/main.mjs, theme-mode.mjs, the Theme     *)
(* section of the settings): plain blur, a colour palette, or the user's   *)
(* own CSS.  The main process saves the choice and changes the page by     *)
(* calls that take a while, so the handlers of two choices can overlap.    *)
(***************************************************************************)
EXTENDS Naturals

CONSTANT MaxChanges   \* bound: choices, sign-ins, imports and page loads

Modes == {"blur", "accent", "custom"}
None == 0

VARIABLES
  themeMode, signedIn, customCssPath,   \* the preferences (a path, or none)
  vars,         \* the page has the palette's variables and background
  fallbackBg,   \* the page has the background of custom CSS
  sheets,       \* the style sheets of custom CSS in the page
  customCssKey, \* the one the main process knows
  jobs,         \* handlers that await the page: what they await and what they do next
  overlap,      \* a handler has started while another awaited the page
  changes

prefs == <<themeMode, signedIn, customCssPath>>
page == <<vars, fallbackBg, sheets, customCssKey>>
allVars == <<prefs, page, jobs, overlap, changes>>

\* resolveThemeMode
Resolved(mode, in) == IF in THEN mode ELSE "blur"

Init ==
  /\ themeMode \in Modes /\ signedIn \in BOOLEAN /\ customCssPath \in BOOLEAN
  /\ vars = FALSE /\ fallbackBg = FALSE /\ sheets = {} /\ customCssKey = None
  /\ jobs = {} /\ overlap = FALSE /\ changes = 0

-----------------------------------------------------------------------------
(* What a handler awaits.  A job removes the known sheet, or inserts one, and then sets the    *)
(* theme's variables.                                                                          *)

Job(await, next) == [id |-> changes', await |-> await, key |-> customCssKey, next |-> next]

Change == changes < MaxChanges /\ changes' = changes + 1

Await(js) == jobs' = jobs \union js /\ overlap' = (overlap \/ jobs # {})

\* _injectCustomCss
Inject(path) ==
  Await(IF ~path THEN {}
        ELSE {Job(IF customCssKey # None THEN "removeThenInsert" ELSE "insert", "nothing")})

\* _clearThemeVars, _applyThemeVars, or neither.
Then(next) ==
  CASE next = "clear" -> vars' = FALSE /\ fallbackBg' = FALSE
    [] next = "apply" -> vars' = TRUE /\ UNCHANGED fallbackBg
    [] next = "nothing" -> UNCHANGED <<vars, fallbackBg>>

\* _clearCustomCss, awaited, and then the variables.
ClearCssThen(next) ==
  IF customCssKey = None THEN Await({}) /\ Then(next)
  ELSE Await({Job("remove", next)}) /\ UNCHANGED <<vars, fallbackBg>>

\* A job's await is over.
Over(j) ==
  /\ j \in jobs
  /\ CASE j.await = "remove" ->
            /\ sheets' = sheets \ {j.key} /\ customCssKey' = None /\ Then(j.next)
            /\ jobs' = jobs \ {j}
       [] j.await = "removeThenInsert" ->
            /\ sheets' = sheets \ {j.key} /\ customCssKey' = None
            /\ jobs' = (jobs \ {j}) \union {[j EXCEPT !.await = "insert"]}
            /\ UNCHANGED <<vars, fallbackBg>>
       [] j.await = "insert" ->
            /\ sheets' = sheets \union {j.id} /\ customCssKey' = j.id
            /\ jobs' = jobs \ {j} /\ UNCHANGED <<vars, fallbackBg>>
  /\ UNCHANGED <<prefs, overlap, changes>>

-----------------------------------------------------------------------------
(* The handlers. *)

\* theme:set-mode, from the settings, which only a signed-in user has.
SetMode(mode) ==
  /\ Change /\ signedIn /\ themeMode' = mode /\ UNCHANGED <<signedIn, customCssPath>>
  /\ CASE mode = "accent" -> ClearCssThen("apply")
       [] mode = "blur" -> ClearCssThen("clear")
       [] mode = "custom" -> Inject(customCssPath) /\ vars' = FALSE /\ fallbackBg' = TRUE
  /\ UNCHANGED <<sheets, customCssKey>>

\* applyThemeMode; the removal of custom CSS is not awaited.
ApplyThemeMode(mode) ==
  CASE mode = "accent" -> Await({}) /\ Then("apply")
    [] mode = "custom" -> Inject(customCssPath) /\ fallbackBg' = TRUE /\ UNCHANGED vars
    [] mode = "blur" ->
         /\ Await(IF customCssKey = None THEN {} ELSE {Job("remove", "nothing")})
         /\ Then("clear")

\* app:auth-state
AuthState ==
  /\ Change /\ signedIn' = ~signedIn /\ ApplyThemeMode(Resolved(themeMode, signedIn'))
  /\ UNCHANGED <<themeMode, customCssPath, sheets, customCssKey>>

\* theme:set-palette, theme:reset-palette, theme:apply-preset: the editor is there in accent.
SetPalette ==
  /\ Change /\ signedIn /\ themeMode = "accent" /\ Await({}) /\ Then("apply")
  /\ UNCHANGED <<prefs, sheets, customCssKey>>

\* theme:import-css, offered in custom; the file dialog stays open as long as it likes.
ImportCss ==
  /\ Change /\ signedIn /\ themeMode = "custom" /\ customCssPath' = TRUE /\ Inject(TRUE)
  /\ UNCHANGED <<themeMode, signedIn, vars, fallbackBg, sheets, customCssKey>>

\* A new document: everything in the page is gone (what is awaited fails with it), and
\* applyPersistedViewSettings sets the theme again.
NewPage ==
  /\ Change /\ sheets' = {} /\ UNCHANGED <<prefs, customCssKey>>
  /\ LET mode == Resolved(themeMode, signedIn)
         kept == {[j EXCEPT !.next = "nothing"] : j \in {i \in jobs : i.await = "remove"}}
         mine == CASE mode = "custom" /\ customCssPath ->
                        {Job(IF customCssKey # None THEN "removeThenInsert" ELSE "insert", "nothing")}
                   [] mode = "blur" /\ customCssKey # None -> {Job("remove", "nothing")}
                   [] OTHER -> {}
     IN /\ jobs' = kept \union mine
        /\ overlap' = (overlap \/ jobs # {})
        /\ vars' = (mode = "accent") /\ fallbackBg' = (mode = "custom")

Next ==
  \/ AuthState \/ SetPalette \/ ImportCss \/ NewPage
  \/ (\E mode \in Modes : SetMode(mode)) \/ \E j \in jobs : Over(j)

Spec == Init /\ [][Next]_allVars

-----------------------------------------------------------------------------
(* Properties. *)

TypeOK ==
  /\ themeMode \in Modes /\ signedIn \in BOOLEAN /\ customCssPath \in BOOLEAN
  /\ vars \in BOOLEAN /\ fallbackBg \in BOOLEAN /\ overlap \in BOOLEAN /\ changes \in Nat
  /\ sheets \subseteq 1..changes /\ customCssKey \in 0..changes
  /\ jobs \subseteq [id : 1..changes, await : {"remove", "insert", "removeThenInsert"},
                     key : 0..changes, next : {"clear", "apply", "nothing"}]

Mode == Resolved(themeMode, signedIn)
Started == changes > 0

\* Choices made one after the other leave the page with the theme of the last: the palette in
\* accent and only there, the user's CSS once in custom and only there - over sign-outs,
\* imports and new pages, whose style sheets are gone while their keys are still known.
ThemeIsShown ==
  jobs = {} /\ ~overlap /\ Started =>
    /\ Mode = "custom" => ~vars
    /\ Mode = "blur" => ~vars /\ ~fallbackBg
    /\ Mode # "custom" => sheets = {}
    /\ \A k, l \in sheets : k = l

\* Why: as long as no two handlers overlapped, one job at most is under way, the sheet in the page
\* is the one whose key is known, and the job does what the mode still lacks.
Clean(mode, next) == mode = "blur" /\ next # "clear" => ~vars /\ ~fallbackBg
JobsFitTheMode ==
  ~overlap =>
    /\ \A i, j \in jobs : i = j
    /\ sheets \subseteq {customCssKey}
    /\ Mode = "custom" => ~vars
    /\ jobs = {} => Clean(Mode, "nothing") /\ (Mode # "custom" => sheets = {})
    /\ \A j \in jobs :
         /\ j.await = "remove" =>
              /\ Mode # "custom" /\ j.key = customCssKey /\ Clean(Mode, j.next)
              /\ j.next = "apply" => Mode = "accent"
         /\ j.await = "removeThenInsert" => Mode = "custom" /\ j.key = customCssKey
         /\ j.await = "insert" => Mode = "custom" /\ sheets = {}
IInv == TypeOK /\ JobsFitTheMode

\* "Each mode is fully isolated": nothing of custom CSS is left in another mode.
ModesAreIsolated == jobs = {} /\ Started /\ Mode # "custom" => sheets = {}
=============================================================================
