----------------------------- MODULE LibrarySync -----------------------------
(***************************************************************************)
(* The local copy of the user's library (engine-playback.js): the page gives *)
(* the engine MusicKit's token, fetches the library page by page, on its own  *)
(* once after start-up and on "Sync Now", and hands it to the engine, which   *)
(* replaces its cache (engine/core/library/library.go).  A library is the     *)
(* number of items of each collection; tokens are numbered by sign-in.        *)
(***************************************************************************)
EXTENDS Naturals, FiniteSets

CONSTANTS
  Last,        \* collections fetched, one after the other: 1..Last
  Size,        \* items per request (100)
  Cap,         \* items after which a collection is cut (50 000)
  MaxItems,    \* bound: items of a collection
  MaxChanges,  \* bound: changes of the library and of the sign-in
  MaxSyncs,    \* bound: presses of Sync Now
  MaxClicks,   \* bound: albums of a cold cache on the way at once
  MaxFaults    \* bound: requests that fail, and engine restarts

LibraryAssumption ==
  /\ Last \in Nat /\ Size \in Nat /\ Cap \in Nat /\ MaxItems \in Nat
  /\ MaxChanges \in Nat /\ MaxSyncs \in Nat /\ MaxClicks \in Nat /\ MaxFaults \in Nat

Collections == 1 .. Last
Empty == [c \in Collections |-> 0]

VARIABLES
  library,            \* the user's library at Apple
  signed, token,      \* the web sign-in: authorizationStatus = 3, and musicUserToken (0: none yet)
  timer, listening,   \* the start-up timer, and the one-shot listeners of authorizationStatusDidChange
  auto,               \* _maybeAutoSync: "idle", "status", "sync"
  asked,              \* the engine has been asked whether a sync is needed
  syncs,              \* _syncLibraryViaJS under way: [id, who, at, offset, got, was, quiet, posted]
  presses, button,    \* presses of Sync Now; the button of the open dialog: "none", "ready", "syncing"
  pressed,            \* the sync the button waits for
  cache, fresh, disk, \* the engine's cache: [items, was, quiet]; synced within 24 h; the encrypted file
  engineToken, pushes,\* the engine's token, and posts of a token on their way: [token, n]
  stream,             \* the page's event stream is open
  crossed,            \* two posts of a token overlapped (ghost)
  albums,             \* tracks of albums on the way to the engine
  changes, faults

account == <<signed, token>>
start   == <<timer, listening, auto, asked>>
ui      == <<presses, button, pressed>>
engine  == <<cache, fresh, disk>>
tokens  == <<engineToken, pushes, stream, crossed>>
vars    == <<library, account, start, syncs, ui, engine, tokens, albums, changes, faults>>

Nothing == [items |-> Empty, was |-> Empty, quiet |-> TRUE]

\* _pushLibraryTokens.
Push(t) ==
  IF t = 0 THEN UNCHANGED <<pushes, crossed>>
  ELSE pushes' = pushes \union {t} /\ crossed' = (crossed \/ pushes # {})

Init ==
  /\ library \in [Collections -> 0 .. MaxItems]
  /\ signed \in BOOLEAN /\ token = (IF signed THEN 1 ELSE 0)
  /\ timer = TRUE /\ listening = 0 /\ auto = "idle" /\ asked = FALSE
  /\ syncs = {} /\ presses = 0 /\ button = "none" /\ pressed = 0
  /\ cache = Nothing /\ fresh = FALSE /\ disk = Nothing
  /\ engineToken = 0 /\ pushes = (IF signed THEN {1} ELSE {}) /\ stream = TRUE /\ crossed = FALSE
  /\ albums = 0
  /\ changes = 0 /\ faults = 0

Change == changes < MaxChanges /\ changes' = changes + 1
Fault  == faults < MaxFaults /\ faults' = faults + 1

Listened == IF listening > 0 THEN listening - 1 ELSE 0

\* _maybeAutoSync up to its first await, when the sign-in is "on" and n listeners are left.
MaybeAutoSync(on, n) ==
  IF on THEN auto' = "status" /\ listening' = n
  ELSE listening' = n + 1 /\ UNCHANGED auto

\* 2 s after MusicKit is ready.
TimerFires ==
  /\ timer /\ timer' = FALSE /\ MaybeAutoSync(signed, listening)
  /\ UNCHANGED <<library, account, asked, syncs, ui, engine, tokens, albums, changes, faults>>

\* The user signs in or out: both listeners of authorizationStatusDidChange run.
SignInChanges ==
  /\ Change /\ signed' = ~signed /\ token' = IF signed' THEN token + 1 ELSE token
  /\ Push(IF signed' THEN token' ELSE 0)
  /\ IF listening > 0 THEN MaybeAutoSync(signed', Listened) ELSE UNCHANGED <<listening, auto>>
  /\ UNCHANGED <<library, timer, asked, syncs, ui, engine, engineToken, stream, albums, faults>>

LibraryChanges ==
  /\ Change /\ \E c \in Collections : \E n \in 0 .. MaxItems \ {library[c]} :
                 library' = [library EXCEPT ![c] = n]
  /\ syncs' = {[s EXCEPT !.quiet = s.quiet /\ s.at > Last] : s \in syncs}
  /\ UNCHANGED <<account, start, ui, engine, tokens, albums, faults>>

------------------------------------------------------------------------------
\* A sync begins with the first collection.
Sync(id, who) == [id |-> id, who |-> who, at |-> 1, offset |-> 0, got |-> Empty,
                  was |-> library, quiet |-> TRUE, posted |-> FALSE]

\* needsSync is answered, or the engine does not answer.
StatusAnswered ==
  /\ auto = "status" /\ asked' = TRUE
  /\ \/ /\ IF fresh THEN auto' = "idle" /\ UNCHANGED syncs
           ELSE auto' = "sync" /\ syncs' = syncs \union {Sync(0, "auto")}
        /\ UNCHANGED faults
     \/ Fault /\ auto' = "idle" /\ UNCHANGED syncs
  /\ UNCHANGED <<library, account, timer, listening, ui, engine, tokens, albums, changes>>

Smaller(a, b) == IF a < b THEN a ELSE b

\* Mutant: an item is missed at every page boundary.
OffsetPast(s, n) == s.offset + n + 1
\* The offset of the next page, which the server names.
NextOffset(s, n) == s.offset + n

\* _mkFetchAll: one page; the server names the next one as long as there is one.
Fetch(s) ==
  /\ s \in syncs /\ s.at <= Last
  /\ LET has  == library[s.at]
         n    == IF s.offset > has THEN 0 ELSE Smaller(Size, has - s.offset)
         more == s.offset + n < has
         got  == [s.got EXCEPT ![s.at] = @ + n]
     IN syncs' = (syncs \ {s}) \union
          {IF more /\ got[s.at] <= Cap
           THEN [s EXCEPT !.got = got, !.offset = NextOffset(s, n)]
           ELSE [s EXCEPT !.got = got, !.offset = 0, !.at = @ + 1]}
  /\ UNCHANGED <<library, account, start, ui, engine, tokens, albums, changes, faults>>

\* Mutant: the button comes back only from a sync that ended well.
ButtonAfterSuccess(s, ok) == IF ok /\ button = "syncing" /\ pressed = s.id THEN "ready" ELSE button
\* What a sync's end does to the button that waits for it.
ButtonAfter(s, ok) == IF button = "syncing" /\ pressed = s.id THEN "ready" ELSE button

Ends(s, ok) ==
  /\ syncs' = syncs \ {s}
  /\ IF s.who = "auto" THEN auto' = "idle" /\ UNCHANGED button
     ELSE button' = ButtonAfter(s, ok) /\ UNCHANGED auto
  /\ UNCHANGED <<library, account, timer, listening, asked, presses, pressed>>

\* A page fails, or names an error: the sync throws.
FetchFails(s) ==
  /\ s \in syncs /\ ~s.posted /\ Fault /\ Ends(s, FALSE)
  /\ UNCHANGED <<engine, tokens, albums, changes>>

\* Ingest empties the tables and fills them, in one transaction.
Ingested(s) == s.got

\* POST library/ingest is handled; a transaction that fails is rolled back, and answered alike.
Ingest(s) ==
  /\ s \in syncs /\ s.at > Last /\ ~s.posted
  /\ syncs' = (syncs \ {s}) \union {[s EXCEPT !.posted = TRUE]}
  /\ \/ /\ cache' = [items |-> Ingested(s), was |-> s.was, quiet |-> s.quiet]
        /\ fresh' = TRUE /\ UNCHANGED faults
     \/ Fault /\ UNCHANGED <<cache, fresh>>
  /\ UNCHANGED <<library, account, start, ui, disk, tokens, albums, changes>>

\* The answer is read.
Answered(s) ==
  /\ s \in syncs /\ s.posted /\ Ends(s, TRUE) /\ UNCHANGED <<engine, tokens, albums, changes, faults>>

\* The dialog's section is built, or the dialog is closed; the syncs go on.
OpenDialog  == /\ button = "none" /\ button' = "ready" /\ pressed' = 0
               /\ UNCHANGED <<library, account, start, syncs, presses, engine, tokens, albums, changes, faults>>
CloseDialog == /\ button # "none" /\ button' = "none" /\ pressed' = 0
               /\ UNCHANGED <<library, account, start, syncs, presses, engine, tokens, albums, changes, faults>>

\* Sync Now.
SyncNow ==
  /\ button = "ready" /\ presses < MaxSyncs
  /\ presses' = presses + 1 /\ button' = "syncing" /\ pressed' = presses'
  /\ syncs' = syncs \union {Sync(presses', "button")}
  /\ UNCHANGED <<library, account, start, engine, tokens, albums, changes, faults>>

------------------------------------------------------------------------------
\* The engine saves its cache in the background.
Save ==
  /\ disk # cache /\ disk' = cache
  /\ UNCHANGED <<library, account, start, syncs, ui, cache, fresh, tokens, albums, changes, faults>>

\* A day passes.
Stale ==
  /\ fresh /\ Change /\ fresh' = FALSE
  /\ UNCHANGED <<library, account, start, syncs, ui, cache, disk, tokens, albums, faults>>

\* A post of the token arrives.
PushArrives(t) ==
  /\ t \in pushes /\ pushes' = pushes \ {t} /\ engineToken' = t
  /\ UNCHANGED <<library, account, start, syncs, ui, engine, stream, crossed, albums, changes, faults>>

\* The engine restarts: it loads the file, knows no token, and what was asked of it fails.
Restart ==
  /\ Fault /\ cache' = disk /\ fresh' = (fresh /\ disk = cache)
  /\ engineToken' = 0 /\ stream' = FALSE
  /\ pushes' = {} /\ UNCHANGED crossed
  /\ albums' = 0
  /\ UNCHANGED <<library, account, start, syncs, ui, disk, changes>>

\* An album of the library is played that the cache does not have: its tracks come from Apple, and
\* are posted to library/ingest with an object for the playlists.
ClickAlbum ==
  /\ albums < MaxClicks /\ library[1] > 0 /\ cache.items[1] = 0
  /\ albums' = albums + 1
  /\ UNCHANGED <<library, account, start, syncs, ui, engine, tokens, changes, faults>>

\* handleLibraryIngest wants a list there: the request is refused, which alone keeps the album from
\* replacing the library, and nobody reads the answer.
AlbumRefused ==
  /\ albums > 0 /\ albums' = albums - 1
  /\ UNCHANGED <<library, account, start, syncs, ui, engine, tokens, changes, faults>>

TokenOnOpen == IF signed THEN token ELSE 0

\* The event stream opens again.
StreamOpens ==
  /\ ~stream /\ stream' = TRUE /\ Push(TokenOnOpen)
  /\ UNCHANGED <<library, account, start, syncs, ui, engine, engineToken, albums, changes, faults>>

Answers == \/ StatusAnswered
           \/ \E s \in syncs : Fetch(s) \/ FetchFails(s) \/ Ingest(s) \/ Answered(s)
           \/ \E t \in pushes : PushArrives(t)
Next == \/ TimerFires \/ SignInChanges \/ LibraryChanges \/ Answers \/ OpenDialog \/ CloseDialog
        \/ SyncNow \/ Save \/ Stale \/ Restart \/ StreamOpens
        \/ ClickAlbum \/ AlbumRefused

Fairness == WF_vars(TimerFires) /\ WF_vars(Answers) /\ WF_vars(StreamOpens)
Spec == Init /\ [][Next]_vars /\ Fairness

------------------------------------------------------------------------------
Items == [Collections -> 0 .. MaxItems]
Caches == [items : Items, was : Items, quiet : BOOLEAN]
Syncs == [id : Nat, who : {"auto", "button"}, at : 1 .. Last + 1, offset : 0 .. MaxItems,
          got : Items, was : Items, quiet : BOOLEAN, posted : BOOLEAN]
TypeOK ==
  /\ library \in Items /\ cache \in Caches /\ disk \in Caches /\ syncs \subseteq Syncs
  /\ token \in 0 .. changes + 1 /\ changes \in 0 .. MaxChanges
  /\ listening \in Nat /\ auto \in {"idle", "status", "sync"}
  /\ \A s \in syncs : s.posted => s.at > Last
  /\ button \in {"none", "ready", "syncing"} /\ presses \in Nat /\ pressed \in Nat
  /\ engineToken \in 0 .. token /\ pushes \subseteq 0 .. token
  /\ signed \in BOOLEAN /\ timer \in BOOLEAN /\ asked \in BOOLEAN /\ fresh \in BOOLEAN
  /\ stream \in BOOLEAN /\ crossed \in BOOLEAN
  /\ albums \in 0 .. MaxClicks

(* Whenever the user signs in, the automatic sync is done, and done once:    *)
(* until the engine has been asked, exactly one timer, listener or check is  *)
(* there to ask it, and none stays behind.                                   *)
AutoSyncOnce ==
  (IF timer THEN 1 ELSE 0) + listening + (IF auto = "idle" THEN 0 ELSE 1)
     = (IF asked /\ auto = "idle" THEN 0 ELSE 1)

(* A sync during which the library stayed as it was, from any page of it to  *)
(* the next, leaves the engine with that library whatever it had before, and *)
(* of a collection that is too large with the pages up to the one that       *)
(* passes the limit.                                                         *)
CutAtTheLimit(got, all) == Cap < got /\ got <= Cap + Size /\ got < all
Holds(got, all) == got = all \/ CutAtTheLimit(got, all)
SyncedIsTheLibrary == cache.quiet => \A c \in Collections : Holds(cache.items[c], cache.was[c])

(* A signed-in user's token reaches the engine, after its restarts too,      *)
(* unless two posts of it overtook one another.                              *)
EngineHasTheToken ==
  signed /\ stream /\ pushes = {} /\ ~crossed => engineToken = token

(* Why: the one automatic sync is the one _maybeAutoSync waits for; a quiet  *)
(* sync has the library's items of the collections behind it, and of the one *)
(* it is at the items before its offset, which is within the limit; a token  *)
(* that is not at the engine is on its way there, alone.                     *)
OneAutoSync ==
  /\ auto = "sync" => asked
  /\ \A s, t \in syncs : s.who = "auto" => auto = "sync" /\ (t.who = "auto" => s = t)
GotTheLibrary(s) ==
  /\ \A c \in Collections : c >= s.at => s.got[c] = IF c = s.at THEN s.offset ELSE 0
  /\ s.offset <= Cap
  /\ s.quiet => /\ \A c \in Collections : c < s.at => Holds(s.got[c], s.was[c])
                /\ s.at <= Last => s.was = library /\ s.offset <= library[s.at]
SyncsGetTheLibrary == \A s \in syncs : GotTheLibrary(s)
SavedIsTheLibrary == disk.quiet => \A c \in Collections : Holds(disk.items[c], disk.was[c])
TokenIsPushed ==
  /\ signed => token > 0
  /\ ~crossed => /\ \A t, u \in pushes : t = u
                 /\ signed /\ stream /\ pushes # {} => pushes = {token}

\* The inductive invariant.
IInv ==
  /\ TypeOK /\ AutoSyncOnce /\ SyncedIsTheLibrary /\ EngineHasTheToken
  /\ OneAutoSync /\ SyncsGetTheLibrary /\ SavedIsTheLibrary /\ TokenIsPushed

ButtonBusy == button = "syncing"

(* Sync Now can be pressed again once its sync has ended, however it ended.  *)
ButtonComesBack == ButtonBusy ~> ~ButtonBusy
==============================================================================
