--------------------------- MODULE EncryptedStore ---------------------------
(***************************************************************************)
(* The main process's encrypted store (electron/main.mjs, adam-store.enc)  *)
(* and what depends on it surviving: a cache in memory, loaded on first    *)
(* use, written to disk 200 ms after a change, at once for a sign-out      *)
(* (drm-signout.mjs), synchronously when the app quits.  A store maps keys *)
(* to values; "account" is the Apple Account that signs in by itself on    *)
(* launch (drm-autoauth.mjs), "resume" the session the page offers to      *)
(* resume; the other keys are the page's too.                              *)
(***************************************************************************)
EXTENDS Naturals, Sequences, FiniteSets, SequencesExt

CONSTANTS
  Keys,         \* what is stored, "account" among them
  MaxWrites,    \* bound: values written
  MaxLoads,     \* bound: handlers that await the first load at once
  MaxFaults,    \* bound: writes to disk that fail
  MaxStops      \* bound: crashes and quits

StoreAssumption == {"account", "resume"} \subseteq Keys /\ MaxWrites \in Nat \ {0}

Absent == 0
NoData == [k \in {} |-> Absent]   \* a cache not loaded, a write not started

VARIABLES
  disk,      \* adam-store.enc
  cache,     \* _storeCache
  dirty,     \* _storeDirty
  timer,     \* _storeFlushTimer runs
  chain,     \* _storeWrite: the writes asked for, with what each one is writing
  loads,     \* handlers that await the first load: the key and value each will set
  signOut,   \* drm:clear-credentials: "no", "writing", "done" (reported), "failed"
  backstop,  \* a sign-out request on disk, which the engine completes on its next start
  auto,      \* the sign-in on launch: "idle", "asked", "over"
  phase,     \* "running", "flushing" (before-quit), "quitting" (after _storeFlushSync),
             \* "exited", "crashed"
  restart,   \* the app is quitting to be restarted (tray menu)
  latest,    \* the value every key was last given
  written, faults, stops

writes == <<dirty, timer, chain>>
vars == <<disk, cache, writes, loads, signOut, backstop, auto, phase, restart,
          latest, written, faults, stops>>

Init ==
  /\ disk \in [Keys -> {Absent, 1}] /\ cache = NoData /\ dirty = FALSE /\ timer = FALSE
  /\ chain = <<>> /\ loads = {} /\ signOut = "no" /\ backstop = FALSE /\ auto = "idle"
  /\ phase = "running" /\ restart = FALSE /\ latest = disk /\ written = 1 /\ faults = 0 /\ stops = 0

Alive == phase \in {"running", "flushing", "quitting"}
Loaded == cache # NoData

-----------------------------------------------------------------------------
(* Changes. *)

\* A change to the store s: it is the cache, dirty, and the timer of _storeFlush runs.
Change(s, k, v) ==
  /\ cache' = [s EXCEPT ![k] = v] /\ latest' = [latest EXCEPT ![k] = v]
  /\ dirty' = TRUE /\ timer' = TRUE

NextValue == written < MaxWrites /\ written' = written + 1

\* The handlers that write one key (store:write, store:delete, lastfm:*, lb:*,
\* drm:save-credentials) once the store is loaded.
Write(k) ==
  /\ Alive /\ Loaded /\ NextValue
  /\ k = "account" => signOut # "writing"
  /\ \E v \in {Absent, written'} : Change(cache, k, v)
  /\ signOut' = IF k = "account" THEN "no" ELSE signOut
  /\ UNCHANGED <<disk, chain, loads, backstop, auto, phase, faults, stops, restart>>

\* The same handlers before: each reads the file for itself.
WriteUnloaded(k) ==
  /\ phase = "running" /\ ~Loaded /\ Cardinality(loads) < MaxLoads /\ NextValue
  /\ loads' = loads \union {[key |-> k, value |-> written']}
  /\ UNCHANGED <<disk, cache, writes, signOut, backstop, auto, phase, latest, faults, stops, restart>>

\* _storeLoad ends: the cache becomes what the file held, and the handler changes it.
LoadEnds(l) ==
  /\ Alive /\ l \in loads /\ loads' = loads \ {l}
  /\ Change(disk, l.key, l.value)
  /\ signOut' = IF l.key = "account" THEN "no" ELSE signOut
  /\ UNCHANGED <<disk, chain, backstop, auto, phase, written, faults, stops, restart>>

\* A handler that only reads; the load gives the keys of older versions their new names.
Read ==
  /\ phase = "running" /\ ~Loaded /\ cache' = disk
  /\ dirty' \in BOOLEAN /\ timer' = (timer \/ dirty')
  /\ UNCHANGED <<disk, chain, loads, signOut, backstop, auto, phase, latest, written, faults,
                 stops, restart>>

-----------------------------------------------------------------------------
(* Writes to disk. *)

Queued(kind) == Append(chain, [kind |-> kind, data |-> NoData])

\* _storeFlush's timer.
TimerFires ==
  /\ Alive /\ timer /\ timer' = FALSE
  /\ IF dirty /\ Loaded THEN dirty' = FALSE /\ chain' = Queued("later")
     ELSE UNCHANGED <<dirty, chain>>
  /\ UNCHANGED <<disk, cache, loads, signOut, backstop, auto, phase, latest, written, faults,
                 stops, restart>>

\* Mutant: a write does not wait for those before it.
AnyTurn(i) == TRUE

\* _storeWrite makes every write wait for those before it.
Turn(i) == i = 1

\* A write starts: it takes the cache as it is now.
WriteStarts(i) ==
  /\ Alive /\ Turn(i) /\ chain[i].data = NoData
  /\ chain' = [chain EXCEPT ![i].data = cache]
  /\ UNCHANGED <<disk, cache, dirty, timer, loads, signOut, backstop, auto, phase, latest,
                 written, faults, stops, restart>>

\* It replaces the file (writeFileAtomic); a sign-out waits for its own.
WriteEnds(i) ==
  /\ Alive /\ chain[i].data # NoData
  /\ disk' = chain[i].data /\ chain' = RemoveAt(chain, i)
  /\ IF chain[i].kind = "now" THEN dirty' = FALSE /\ signOut' = "done"
     ELSE UNCHANGED <<dirty, signOut>>
  /\ UNCHANGED <<cache, timer, loads, backstop, auto, phase, latest, written, faults, stops, restart>>

\* It fails: the change is kept for the next flush, which nothing starts.
WriteFails(i) ==
  /\ Alive /\ chain[i].data # NoData /\ faults < MaxFaults /\ faults' = faults + 1
  /\ chain' = RemoveAt(chain, i) /\ dirty' = TRUE
  /\ signOut' = IF chain[i].kind = "now" THEN "failed" ELSE signOut
  /\ UNCHANGED <<disk, cache, timer, loads, backstop, auto, phase, latest, written, stops, restart>>

-----------------------------------------------------------------------------
(* Sign-out and the sign-in on launch. *)

\* clearCredentialsFlow: the request for the engine when its own route failed (nothing else
\* happens when it cannot be written), then _storeFlushNow without the account.  The settings
\* showed the account, so the store is loaded.
SignOut ==
  /\ phase = "running" /\ Loaded /\ loads = {} /\ signOut # "writing"
  /\ backstop' \in {backstop, TRUE}
  /\ cache' = [cache EXCEPT !["account"] = Absent]
  /\ latest' = [latest EXCEPT !["account"] = Absent]
  /\ dirty' = TRUE /\ timer' = FALSE /\ chain' = Queued("now") /\ signOut' = "writing"
  /\ UNCHANGED <<disk, loads, auto, phase, written, faults, stops, restart>>

MarkerFails ==
  /\ phase = "running" /\ Loaded /\ loads = {} /\ signOut # "writing"
  /\ faults < MaxFaults /\ faults' = faults + 1 /\ signOut' = "failed"
  /\ UNCHANGED <<disk, cache, writes, loads, backstop, auto, phase, latest, written, stops, restart>>

\* app:ui-ready: with an account in the store and no session in the engine, it signs in.
AutoAsks ==
  /\ phase = "running" /\ auto = "idle" /\ Loaded
  /\ auto' = IF cache["account"] = Absent THEN "over" ELSE "asked"
  /\ UNCHANGED <<disk, cache, writes, loads, signOut, backstop, phase, latest, written, faults,
                 stops, restart>>

\* autoAuthenticate: Apple refuses the account or wants a code, and it is forgotten.
AutoForgets ==
  /\ Alive /\ auto = "asked" /\ auto' = "over" /\ Loaded /\ signOut # "writing"
  /\ Change(cache, "account", Absent)
  /\ UNCHANGED <<disk, chain, loads, signOut, backstop, phase, written, faults, stops, restart>>

\* It signs in, or ends without an answer about the account.
AutoKeeps ==
  /\ Alive /\ auto = "asked" /\ auto' = "over"
  /\ UNCHANGED <<disk, cache, writes, loads, signOut, backstop, phase, latest, written, faults,
                 stops, restart>>

-----------------------------------------------------------------------------
(* The end of the process, and its next start. *)

\* before-quit: the page writes what it holds, and 300 ms later _storeFlushSync.
BeforeQuit ==
  /\ phase = "running" /\ stops < MaxStops /\ phase' = "flushing"
  /\ UNCHANGED <<disk, cache, writes, loads, signOut, backstop, auto, latest, written, faults,
                 stops, restart>>

\* _storeFlushSync writes when there is something unwritten.
Unwritten == dirty /\ Loaded

FlushSync ==
  /\ phase = "flushing" /\ phase' = "quitting" /\ timer' = FALSE
  /\ IF Unwritten THEN disk' = cache /\ dirty' = FALSE ELSE UNCHANGED <<disk, dirty>>
  /\ UNCHANGED <<cache, chain, loads, signOut, backstop, auto, latest, written, faults, stops, restart>>

\* The tray's Restart App forgets the session to resume, then quits.
RestartApp ==
  /\ phase = "running" /\ Loaded /\ loads = {} /\ stops < MaxStops /\ phase' = "flushing"
  /\ restart' = TRUE
  /\ cache' = [cache EXCEPT !["resume"] = Absent] /\ latest' = [latest EXCEPT !["resume"] = Absent]
  /\ disk' = cache' /\ dirty' = FALSE /\ timer' = FALSE
  /\ UNCHANGED <<chain, loads, signOut, backstop, auto, written, faults, stops>>

Stops(how) ==
  /\ stops' = stops + 1 /\ phase' = how /\ cache' = NoData /\ dirty' = FALSE /\ timer' = FALSE
  /\ chain' = <<>> /\ loads' = {}
  /\ signOut' = IF signOut = "writing" THEN "failed" ELSE signOut
  /\ UNCHANGED <<disk, backstop, auto, latest, written, faults, restart>>

\* Cookies flushed and engine stopped: app.exit.
Exit == phase = "quitting" /\ Stops("exited")
Crash == Alive /\ stops < MaxStops /\ Stops("crashed")

\* The next launch; its engine completes a sign-out that was asked for.
Start ==
  /\ ~Alive /\ phase' = "running" /\ latest' = disk /\ backstop' = FALSE /\ auto' = "idle"
  /\ restart' = FALSE
  /\ UNCHANGED <<disk, cache, writes, loads, signOut, written, faults, stops>>

-----------------------------------------------------------------------------
Handlers == Read \/ (\E k \in Keys : Write(k) \/ WriteUnloaded(k)) \/ (\E l \in loads : LoadEnds(l))
DiskWrites == TimerFires \/ (\E i \in DOMAIN chain : WriteStarts(i) \/ WriteEnds(i) \/ WriteFails(i))
Account == SignOut \/ MarkerFails \/ AutoAsks \/ AutoForgets \/ AutoKeeps
Process == BeforeQuit \/ RestartApp \/ FlushSync \/ Exit \/ Crash \/ Start
Next == Handlers \/ DiskWrites \/ Account \/ Process

Spec == Init /\ [][Next]_vars

-----------------------------------------------------------------------------
(* Properties. *)

Stores == [Keys -> 0..MaxWrites]
Entries == [kind : {"now", "later"}, data : Stores \union {NoData}]
TypeOK ==
  /\ disk \in Stores /\ latest \in Stores /\ cache \in Stores \union {NoData}
  /\ dirty \in BOOLEAN /\ timer \in BOOLEAN /\ backstop \in BOOLEAN
  /\ chain \in Seq(Entries)
  /\ loads \subseteq [key : Keys, value : 0..MaxWrites] /\ written \in 1..MaxWrites
  /\ signOut \in {"no", "writing", "done", "failed"} /\ auto \in {"idle", "asked", "over"}

\* Once a sign-out was reported complete the account is gone from disk, whatever writes were
\* queued or under way, and stays gone over crashes and quits until another account is saved:
\* no launch signs in with it.
SignedOutStaysOut == signOut = "done" => disk["account"] = Absent

\* Why: one write is under way, the oldest, and what waits has not taken the cache yet; from the
\* moment a sign-out writes, the account is in neither the cache nor anything the sign-out's own
\* write, or a later one, has taken.
Out(s) == s # NoData => s["account"] = Absent
OneUnderWay == \A i \in DOMAIN chain : i > 1 => chain[i].data = NoData
SignOutWrites ==
  /\ signOut = "writing" => Loaded /\ loads = {}
  /\ \A i \in DOMAIN chain :
       chain[i].kind = "now" =>
         /\ signOut = "writing" /\ Out(chain[i].data)
         /\ \A j \in DOMAIN chain : chain[j].kind = "now" => i = j
NothingBringsItBack ==
  /\ signOut \in {"writing", "done"} => Out(cache)
  /\ signOut = "done" => \A i \in DOMAIN chain : Out(chain[i].data)
IInv == TypeOK /\ OneUnderWay /\ SignOutWrites /\ NothingBringsItBack /\ SignedOutStaysOut

\* After the last flush of a quit, with no write under way and none due, the file holds what was
\* written (no write having failed).
QuitKeepsWrites ==
  phase = "quitting" /\ chain = <<>> /\ ~timer /\ faults = 0 => disk = latest

\* After Restart App the next start finds no session to resume.
RestartStartsFresh == restart /\ phase = "exited" => disk["resume"] = Absent
=============================================================================
