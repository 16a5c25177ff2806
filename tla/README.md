# Apple Music for Linux: specifications of the application

TLA+ modules for the parts of this application that keep state and meet
concurrency, failure or late answers: the Go engine (`src/engine`), the Electron
main process (`src/electron/main.mjs` and its modules) and the code that runs in
Apple Music's page (`src/electron/src`). TLC checks every module on a small
instance; TLAPS proves the safety properties of the runs, all but one, for every value of
the constants. Paths below are relative to `src/`.

`PROJECT.json` lists every component with its sources and its status, maps each
definition to the source lines it stands for, and lists the hazards of the code
with the properties that cover them.

## The system

The main process opens a window on Apple's web player, injects bundles of its own
into the page and starts the engine, a Go process. The page replaces Apple's
playback: it follows MusicKit's notifications, opens a *session* of the engine for
each track over a local HTTP API, and plays what the engine decrypts through one
of three players: MSE (AAC), libvlc inside the engine (ALAC), or a video pipeline.
The engine also caches tracks on disk and exports them to files. It tells the page
about itself by a stream of server-sent events.

| component | state | operations | interacts with | what is hard | what makes it correct |
|---|---|---|---|---|---|
| priority queue `engine/internal/pq` | heap, map by id, counter, `closed`, condition variable | Push, Pop (blocks), Update, Remove, Close | export manager | goroutines asleep in `cond.Wait` | no lost wake-up; Close ends every consumer; order by priority, then arrival |
| export manager `engine/core/export/manager.go`, `job.go` | jobs, requests, phases, contexts, a wait group | Enqueue, Cancel, Retry, Prioritize, Stop; worker; post-processing | queue, playback, event sink | Cancel and Retry race with the worker, Stop with Enqueue; panics | one owner per job; every job ends once; Stop reaches and joins all |
| export file moves `fs.go`, `noreplace*.go` | the output directory | overwrite check, claim of a name, copy, rename | other jobs, the user | a check long before its use, copies that fail | no complete file is lost but by "overwrite"; no partial file stays |
| playback sessions `engine/core/playback/manager.go` | sessions, index by asset, flights | Open, Release, lookup, reaper | HTTP handlers, prefetch, exports | single flight, expiry, panics | index agrees with sessions; the release hook runs once |
| disk cache `engine/core/diskcache` | files, `inFlight`, `streaming`, writers with shared descriptors, two flags | puts, streaming readers, Commit, Discard, Evict | playback, exports | maps released in steps; readers that outlive writers; restarts | only whole tracks are committed; readers read written bytes only; the limit holds |
| event stream `engine/cmd/apiserver.go`, `electron/src/engine-sse.js` | a ring of events, subscribers, last ID | emit, replay, reconnect | every part of the engine, the page | reconnection while events are emitted | each event once and in order, or a gap that is noticed |
| track change `electron/src/engine-playback.js` | `_generation`, `_abortCtrl`, the current and the warm sessions, `_vlcLive` | NPIDF, direct play, hand-over, warm opens | MusicKit, engine, the three players | every await may be overtaken | the newest change alone plays, from a session of its own track |
| libvlc transport (same file, `transport.js`, `vlc-end.js`) | commands under way, polls, retry timers, scrubber | press, seek, poll, reload, advance | engine, MusicKit | samples and answers that are stale when read | no stale answer moves the queue on; ends are handled; the scrubber thaws |
| MSE pipe (same file) | owners of pipe and seek, SourceBuffer, chunk cache | append, seek (buffered, cached, network), leave | engine, audio element | aborts between two awaits | one operation feeds the buffer; none ends the stream while another feeds it |
| music video (same file, `handlers_vseg.go`) | fragments, encoder, two media elements, what was taken from the page; the overlay's menu, captions, qualities, scrubber | feed, seek, stall, leave; key, click, pick | engine, page, MusicKit | picture and sound are two elements; a pipeline may be left at any point of its opening | fragments at their place; both elements agree; the page is given back; the overlay shows the video's own state |
| owned queue and gate (same file) | lists of tracks, the place, the lock of a move, replaced methods | goto, next, previous, click | MusicKit | stray notifications, moves that fail or never answer | the place is that of the track that plays; Apple's methods come back |
| sound, library, downloads, decorations, menus, services (same file, `smart-cache.js`) | volumes and timers, caches, observers, dialogs | see the modules | engine, main process, Apple's page | timers and answers that come after a change | what is shown, kept and heard is that of the current state |
| store and credentials `main.mjs`, `drm-*.mjs` | a cache, its queue of writes, the sign-out and its backstop | load, write, sign out, quit, crash | page, engine | a sign-out while writes are queued | deleted credentials do not come back |
| engine process `engine-lifecycle.mjs`, `fairplay-fetch.mjs` | the child, its restarts, the libraries | start, watch, restart, quit, crash | engine | the engine dies while starting or outlives the application | one engine is left, and it comes back |
| window, theme, desktop `main.mjs`, `platform.mjs`, `kde-wallpaper.mjs`, `link-schemes.mjs`, ... | documents, injected bundles, CSS, the layer behind the window, D-Bus, Discord, link claims | load, inject, show, move, connect, claim | desktop, page | sockets and pages that close at any write | nothing is injected or opened twice; what plays is shown again |

## Modules

A module models one component; its header comment says which code, and what is
abstracted. Names are those of the code where TLA+ allows.

| module | state and actions |
|---|---|
| `JobQueue` | what `pq.go` promises: `queue` (a set), `seq`, `closed`; Push, Pop, Update, Remove, Close |
| `PriorityQueue` | adds the consumers, asleep or awake; Pop is split at `cond.Wait`; refines `JobQueue` |
| `JobLifecycle` | what `job.go` promises: a job's phases go forward and end once |
| `ExportManager` | one action per critical section of `manager.go`, composed with `JobQueue`; refines `JobLifecycle` |
| `ExportMove` | the directory, per job its policy and attempt; one system call is one step |
| `PlaybackSessions` | one action per critical section of `mu` or `inflightMu` |
| `DiskCacheStream` | one entry: puts, readers, shared descriptors; one action per map operation, system call or critical section |
| `DiskCacheEviction` | the passes and their two flags; a scan is one step, each removal another |
| `EventStream` | ring, channel, wire, connection and the page's filter; emit, replay, lose, reconnect |
| `TrackChange` | attempts numbered by `_generation`, "pc" tells at which await each stands; the engine's answers are steps |
| `VlcPlayback` | libvlc, commands, requests, polls and timers under way; each is sent, handled and answered in steps |
| `MsePipe` | the first pipe and the seeks, each at an await; buffer and cache as sets of chunks |
| `MvFeed`, `MvSync`, `MvPipelines`, `MvAudioPipe` | a video's fragments and encoders; its two elements and the queue of their events; the pipelines one after another; its sound pipe |
| `MvOverlay` | what a video lays over the page: controls and their timer, quality menu and its focus, icon, captions, scrubber, scrim, the captions track it borrows |
| `OwnedQueue`, `PlayGate` | the owned queue with MusicKit's calls and notifications; the click that replaces MusicKit's methods |
| `AudioLevels`, `VolumeFades` | loudness and tails of tracks read in the background; the crossfade's ramps |
| `LibrarySync`, `DownloadsPanel`, `PrefetchJobs` | the copy of the library; the polled export list; cache warming |
| `PageDecor`, `QualityBadge`, `ContextMenu`, `SettingsDialog`, `UserCommands`, `AccountSheet` | observers and awaited colours; badges; the menu that learns its item from the clipboard; the dialog; shortcuts, tray and heart; the sign-in sheet |
| `SessionMemory`, `Scrobbles`, `PowerMode` | resume point and history; scrobbling accounts; timers slowed by battery, profile and jitter |
| `EncryptedStore`, `EngineProcess`, `AppWindow`, `ThemeMode` | the main process: store and sign-out, the engine's process, the windows, the theme |
| `Backdrop` | the layer behind the window: captures, the wallpaper's file, KDE's blur, moves and their timer |
| `MediaControls`, `DiscordPresence`, `LinkHandling` | the desktop: MPRIS, Discord, link schemes and links |
| `MCEngine`, `MCRenderer`, `MCPlayer`, `MCApp`, `MCPage` | compositions for TLC, below, and the proofs about their parts |

The theorems and their proofs stand in `PriorityQueue`, `ExportManager`,
`PlaybackSessions`, `MCEngine`, `MCRenderer`, `MCPlayer`, `MCApp` and `MCPage`, after
what they are about. The other modules state the assumption on their constants and
their inductive invariant (`IInv`), which the composition's proofs use.

**Compositions.** Modules that share no state are put side by side in one module: a
behaviour is of one *part*, chosen at the start among `Parts`; its variables are
those of the part's module, and the variables only other parts use stay 0.
`MCEngine` and `MCPlayer` extend the module of one part (`DiskCacheEviction`,
`MvPipelines`) and instantiate the others, `MCRenderer` extends `VlcPlayback`; `MCApp`
and `MCPage` only instantiate, and have a constant for each one of a module's, named after
the instance (`Store` and `MaxWrites` give `StoreMaxWrites`), so that the proofs hold
for all values. The properties say "if the behaviour is of this part, then the
module's property holds", and a temporal property does so for every part at once.
`MCEngine` has the engine's sessions, streamed puts, evictions and moves; `MCRenderer`
the AAC pipe, the change of tracks and libvlc's transport; `MCPlayer` the owned
queue and the four modules of a video's playback; `MCApp` the main process (store,
engine process, window, theme, controls, presence, links) and the page's services (memory,
scrobbles, prefetching, commands, fades, levels, power, gate); `MCPage` what the page
shows (settings, badge, decorations, menus, overlay, and the backdrop
behind it) and shares with the engine (events, library, sign-in, downloads). Components
that do interact are composed inside their modules: `ExportManager` is written from the
actions of `JobQueue` (which `PriorityQueue` is shown to implement); `MvFeed` has
the page's loop and the engine's producers; `EventStream`, `LibrarySync`,
`AccountSheet`, `DownloadsPanel` and `TrackChange` have the engine's side of their
requests.

**Abstractions made throughout.** A request, a timer and an answer are steps of
their own; a call outside the program succeeds or fails as the code distinguishes.
Titles, percentages, byte counts, layout and logs are left out. Positions are a few
marks of a track, a cached track is a few blocks, a video a few fragments. In `VlcPlayback` the first
region of a track stands for its position 0, to which a reopened track is not put (5378), and the
seek that puts a reopened track to its position counts as one of the user's. In
`ExportManager`, `m.jobs` and `m.requests` change together and are one variable;
in `PlaybackSessions`, so are `m.sessions` and `m.contexts`.
A definition marked `mutant` is not part of a specification: it is a plausible
error in the definition below it, and shows that a property would find it.
A property named in a module and in a composition is one property: the latter
states the former for its part. A few definitions are marked as expected to fail:
they state what a comment says and the code does not do (see Findings).

## Runs

| run | question | distinct states |
|---|---|---|
| `queue` | Are wake-ups lost? Does Close end everyone? Is `JobQueue` implemented? | 8 703 |
| `export` | Ownership, cancellation, shutdown, temp files (`JobsAreSafe`, `StopIsSafe`); do jobs end, is it announced, does Stop end the work, is the promised life followed? | 386 657 |
| `engine` | Sessions and index, whole tracks and live descriptors, one pass and the limit, files kept; does each operation return? | 260 006 |
| `track` | Does only the newest change stream, with libvlc silent under it? Does each change settle? | 287 609 |
| `vlc` | Does the queue move on from a track that plays? Is each end handled, does the scrubber thaw? | 671 833 |
| `mse` | Does one operation feed the buffer, does nobody end the stream under it, do all operations end? | 233 453 |
| `video` | The owned queue's place; a video's fragments, its two elements, the page it gives back, its sound | 357 392 |
| `app` | The main process and the page's services: one engine, credentials that stay deleted, links once, switches obeyed; does each come back? | 508 407 |
| `page` | What the page shows is the state; each event of a stream once and in order, the library and downloads agree with the engine; does each settle? | 501 926 |
| `export_left` | A job cancelled in post-processing leaves nothing behind (expected to fail) | |
| `track_stop` | The page knows when libvlc plays (expected to fail) | |
| `video_init` | A fragment is fed to the init segment of its own kind (expected to fail) | |

**Bounds.** Every race here is between two or three parties over one job, key,
track or page, so the instances have two or three of each.
*queue*: 3 ids, 2 priorities, 4 pushes, 3 consumers (three are needed for a signal
that wakes the wrong one). *export*: 2 jobs (an album and its track, a job and its
retry, or two in a queue), one of which may leave files that nobody looks after, 1 handler
of the API, 1 panic; that two handlers at once do
no harm is part of what is proved (`JobSafety`, `StopSafety`: any number of each).
*engine*: sessions: 2 sharing callers and a private one, 1 key, 2 ids; stream: a
streamed and a plain put, 2 readers, 1 block, 1 restart (one block tells an empty, a
written but uncounted and a complete file apart); eviction: 3 names, 3 calls (one
pass, a request it serves, one that comes too late), limit 1; moves: 2 jobs of any
policy, both kinds of file system, a file of the user, 2 attempts of the 10000.
*track*: an AAC track, a lossless one and a video, 2 attempts, 3 sessions, 1 warm
open; `track_stop` needs 3 attempts. *vlc*: 2 starts of a track, 1 press or seek, 1 fault, 1
retry (the late refusal that opens the newer track again is in it; that this track then plays and
is put to a position takes a third start, which the proof has and the run has not). *mse*: 2 chunks, a pipe and 2 seeks, a cache of 1.
*video*: queue: 2 lists of at most 2 tracks, 3 presses, a fault, a stray
notification; feed: 2 fragments, 3 seeks, 1 fault; sync: 2 user actions, 2 stalls;
pipes: 3 pipelines; sound: 4 chunks, a quota of 3, 1 seek. *app* and *page*: two
keys, files, slots, items or songs (one is what is current, the other what was current
when a late answer was asked for), two to four changes, one to three faults: enough for an
answer that is late by two changes, or a restart during a repair. `App.cfg` and `Page.cfg`
list them. In *app*, of 3 tracks one is lossless and one needs no attenuation, and 2 posts of
libvlc's volume may be on their way, so that a load's and a late reading's cross. In *page*, the ring holds 2 events and the channel and the wire 1 each, so that 4
changes overflow each of them; a library has 1 collection of up to 3 items, fetched one by one
and cut once it has more than 1: it takes up to two pages and is whole, or is cut before
its third; 1 of 2 menu items has a link; the overlay has 3 tiers and
a list that offers only two of them.
All names that start with `Max` are bounds of what would repeat for ever.

**Fairness.** What runs, runs on: weak fairness of a goroutine's or a handler's
steps, of timers, of answers to requests (each request has a timeout, or the
component that answers is local), of MusicKit's and the media elements' events. No
fairness of what the user, the desktop, the network or a crash does. In
`MsePipe`, `CanPlay` and `Play` are fair because the element plays what is
buffered; in `VlcPlayback`, polls go round for ever and must not keep
others from their turn, so its renderer, the engine, and each stage of a poll have a
fairness condition of their own. In `PlaybackSessions` a joiner could starve
under endlessly many leaders that are all cancelled; `MaxOpens` excludes it.
`CHECK_DEADLOCK FALSE` is set where the system may rest: all jobs ended, all tracks
played, every bound used up.

## What is proved

The proofs assume only what the modules name `...Assumption`: sets that do not
overlap, bounds that are natural numbers, marks such as `None` outside the sets they
mark, a set of qualities that is finite and not empty, a key of the menus' page that is
none of its items. The numbers of jobs, callers, tracks, sessions, chunks, seeks, songs, albums and
faults are arbitrary.

*Queue* (`PriorityQueue`). `NoLostWakeup` says that while a consumer sleeps
there are at least as many woken consumers as entries. The proof counts
three sets (sleeping, woken, entries); `closed` implies that nobody sleeps. Also:
a Pop that reports false leaves the queue empty for ever, the order is total, and
every step is a step or a stutter of `JobQueue`.

*Export manager* (`ExportManager`). `IInv` ties a job's phase to its owner: a
queued job is listed and "queued"; the job at the worker or in post-processing has
not ended unless only its last event is left to send; the owner of a temp file has
not moved it yet. Files that the code leaves to nobody (a failed mux's output, a killed conversion's,
the lyrics of a job that is then cancelled) are kept apart, in `left`: `TempHasOwner` is about the
others, and `export_left` shows what a comment of the code says of them. `Counted` says that the wait group is the number of live
goroutines: without it `active = 0` would not imply that the work ended. One lemma per
shape of step, then one step per action. Results: `JobsAreSafe`, `StopIsSafe`, and
that every step is a step or a stutter of `JobLifecycle`. A by-product: the guard in
`advance` that refuses to leave a terminal phase is a second line of defence.

*Playback sessions* (`PlaybackSessions`, `MCEngine`). `SessionsAgree`, by: a session is where its
opener's program counter says (Positions); who has opened, released, reported
which (Ledger); the index points to live sessions of the key; the holder of a private
session is one caller (Holders).

*Streamed puts* (`MCEngine`). `StreamIsWhole`, by the `IInv` of `DiskCacheStream`. One put
claims the entry at a time (OneClaim), what is registered is the claimant's writer (Registered), what a
put has written is what its position says (Progress), the file at the final name is
whole (Files), the reference count is the number of sharers of a descriptor (Shared),
and a reader is within what was counted (Reads). The reference count is the part
that needs cardinalities.

*Eviction* (`MCEngine`). `CacheKeepsItsLimit`. The heart is `Covered`: when
the cache exceeds its limit, somebody has undertaken to look again: a pass that has not
scanned, victims not yet removed, `evictAgain`, or a commit that has yet to ask.

*Moves* (`MCEngine`, by the `IInv` of `ExportMove`). `MovesAreApart` and the action
property `CompleteFilesStay`:
what a job holds is held by it alone (HeldApart, OwnHeld), a partial file is a copy
under way (CopiesArePartial), and on an atomic file system none exists.

*AAC pipe* (`MCRenderer`). `FeedIsSafe`, `CompleteByItsOwner`. The invariant
follows the two owners of the player: an operation that may still append is the one
`_pipeCtrl` belongs to, and a seek that still owns the fetch finds no owner of the pipe until
it claims it. A network seek that claims the player after a later seek had begun
breaks this; the properties and the invariant are stated while none is
`overtaken`, a history variable that never becomes false again.
`CompleteByItsOwner` has one exception more, since the code looks who owns the player before it
waits for the last append (1647-1648) and not after: a cache seek of a complete stream that was
replaced in that wait still declares the track complete. What is proved of it is that
no other operation feeds the buffer then.

*Change of tracks* (`MCRenderer`). `LastChangeStreams`, `HandoffIsSafe`. The
invariant says who owns the page at every await: whoever may still get the player is the
newest attempt, or will find out that it is not; a session is held only for the
track it was opened for, wherever it is kept in between (slots, hover list,
warm opens, attempts); and libvlc plays for the page only while `_vlcLive` says so, or
after the late answer that the run `track_stop` is about.

*ALAC playback* (`MCRenderer`). `NothingIsSkipped`. A track is in one place at a
time: its load is under way, or it is polled, or it waits for a retry, or it is
left for the next one; tracks that were left have no session, so no late load takes
libvlc from the one that is on; and what a current reply says of the end is still
so when it is read. Nothing of this needs a reload's answer to be that of the current track: a
refusal that comes late opens whatever track is current again (3947, 3925-3931).
Of what is *handled*, `EndIsHandled` leaves out an end that a click with the gate open keeps for itself
(3977-3982, the poll being stopped already at 3961), and one that is reported while a reload after a
seek is under way that then fails (3896: the scrubber thaws, the state stays noted as seen).

The four modules of a video are proved in `MCPlayer`, each by an invariant of its own:

*Sound* (`SoundIsWhole`). Chunks are held back only until the shift of the timeline is
known (Undecided); then it is the right one if the head came in time (Decided), what
was held is appended first (HeldIsAppended), and chunks go one by one (ChunkUnderWay).
Every chunk read was appended, given up, is held or under way (EachIsSomewhere): so
the end, which a pipe declares last (EndIsLast), comes after all of them.

*Pipelines* (`PagesAreGivenBack`). What each pipeline holds of the page is what the stage of
its opening says (PutsByPlace); from its container on it has `call`, `apply` and full
screen in its own hands, and without a pipeline they are the page's
(PageIsTaken); while a track change is resolved no pipeline lives (SessionIsResolved), and
a restart that was counted before its timer fired is a later track change (RestartIsAChange).

*Picture* (`FeedIsOne`). At most one seek handler has not been aborted (OneWorks); a loop
runs alone, never beside a handler that will start another, and what has
ended stays so (OneLoop). That handler knows the producer that serves and the state of the
init segment (Answered), nobody empties the buffer beside it (NoneDrains), and a loop
fetches what belongs where it appends (LoopFits). Further: how far producers go
(ProducerEnds), and what cannot have happened before the first fragment (BeforeFed,
Unopened). `blame` records a lost request, a loop that started late, an answer from
an earlier seek's producer and what `video_init` is about; the property and the invariant
are stated but for them.

*Sync* (`PictureAndSoundAgree`). The media elements' events are a queue of any length, in
which the handlers' consequences stand behind what was already due. The invariant
says what is still to come: under a paused picture a pause comes after every play
(PauseComes); beside a running picture the sound plays, or a seek is under way, or a play, a pause or a
retry is to come (PlayComes); the end of a stall comes after its beginning
(StallEnds); what a stall took is in the flags that its end looks at
(StallIsNoted); and before the start nothing that could disturb it is queued
(NotBegun). Lemmas say what an event adds to the queue, and what is left when its head is
taken. When the queue is empty, nothing is to come, and the property is what remains.

*The main process and the page's services* (`MCApp`). `AppInv` is the conjunction of
the parts' invariants. For each part three lemmas: it holds at the start, every action
keeps it, and so does a step of the part's Next; `AppInvStarts` and `AppInvStays`
put them together. The theorems are `EngineAndPageAreOneAlways`, `ChoicesAreKeptAlways`,
`LinksAreOpenedOnceAlways`, `UserIsObeyedAlways`, `SoundIsItsOwnAlways`. Fourteen of
the fifteen parts are in it; the gate has only temporal properties. The arguments that
are more than types:
store: one write is under way, the oldest, what waits has not taken the cache yet, and
from the moment a sign-out writes the account is in neither the cache nor anything that
its write or a later one has taken (OneUnderWay, SignOutWrites,
NothingBringsItBack);
engine process: an engine of this run that lives is the lifecycle's child, a start runs
alone, and the port is waited for only when the orphans are gone (MineIsTheChild,
StartsAlone, OrphansGoFirst);
links: what Adam holds of the desktop's schemes is chosen or recorded, and a run of `apply()`
has put every claim into what it will record (ClaimsHaveReasons, RunIsComplete);
window: bundles that ran are noted, and the note goes only with the document;
presence: one connection, and a song is shown only by a socket that is ready;
theme: without overlapping handlers the job under way does what the mode lacks;
scrobbles: the page knows the one timeout there is, which is of the song that plays, and one
call is under way per account; prefetching: a slot's calls have numbers of their own and the
latest finds no job in the slot (OneTimer, OneCall, LatestFillsTheSlot); commands: one toggle of the
heart, one capture of a key; fades: the head that ramps is the one that is heard; levels: a factor that
is not the track's came with a reading that was late (`strayed`, which the next track or
switch ends), and a load or a post under way carries the volume and the factor of now
(PostsAreNew), whatever late readings changed, unless two posts crossed (`untold`); power: a mode
below what the battery asks for stays only under a profile that forbids to lower it, it is the one
of when that profile was read (`held`), and never on the charger.

*The page* (`MCPage`). `PageInv` in the same way, of all ten parts (of the sign-in sheet the types only):
`PageShowsTheStateAlways`, `PageAndEngineAgreeAlways`, and the action properties
`StepsAreForwardAlways` and `MenusAreTrueAlways`.
Events: the log rises (LogRises); of any two messages on their way - on the wire, still to
be replayed, in the channel - the later shows at least as much, unless the page will skip
it (ComesInOrder, by Fits); and what the log has that shows less than the page is behind all of
them and behind the last ID the client saw (PageIsAhead). Lemmas say what each part keeps
under Append and Tail.
Library: a quiet synchronisation has the user's items of the collections behind it, and
of the one it is at the items before its offset, which is within the limit
(SyncsGetTheLibrary): so a collection is whole, or what it had when it passed the limit;
a change of the library or of the account during a sync is not `quiet`, and the copy may then be of
no library that ever was; the one automatic
synchronisation is the one `_maybeAutoSync` waits for; a token that is not at the engine is on
its way there, alone. Downloads: one poll is the newest, its answer is no older than the rows,
and neither is newer than the engine's list (OneNewest, AnswersAreOld, RowsAreOlder).
Badge: what is attached is on the watched slot, and nothing is while the slot is away
or a retry is armed. Decorations: the text of the element in the header is the last one
written, or the page's own is out. Menus: one request for the link at a time, asked by the
menu that is open, and a target is that menu's item or nothing (OneAsk, AskIsTheMenus,
TargetIsTheMenus). Settings: the newest load has the preferences as they are, and a switch
that is on is backed by them. Overlay: the focus that is in the menu is on an item the menu
has (FocusIsInTheMenu), and the chosen quality is among the offered ones. Backdrop: on KDE
nothing is captured or drawn without a reason, on Wayland never the screen, and a wallpaper
only where one is looked up (OnKde, OnWayland, OfFiles).

Proof attempts that failed for a reason in the code. `HandoffIsSafe` without
its exception is false: the page can forget that libvlc plays (`track_stop`).
`AdvanceIsEarned`, the second half of `NothingIsSkipped`, was first stated by the
current value of `_vlcSeekTarget`; with two seeks that is false, and it is now stated by
a history variable, `rewound`: after a seek had a track loaded again, a
reply sent before the reload can still skip it. `FragmentsInPlace` failed where an aborted
handler has not appended its init segment: this is what `video_init` shows now. And
`PageIsAhead` cannot be stated of the gap between two streams: a
stream that is cut after the snapshot and before the replay lets the client reconnect with the
snapshot's ID, so that a page that listens never gets the events in between (`NoGap` is
about one stream). In the model, overlapping guards of CASEs in `PowerMode` and `Scrobbles` were made
exclusive: TLC takes the first that is true, the logic any of them.

The invariants were checked by TLC on the runs' instances before they were
proved. `PriorityQueue`, `ExportManager`, `MCRenderer`, `MCEngine`, `MCPlayer`, `MCApp` and
`MCPage` are the modules whose ASSUMEs TLC evaluates.

**Only model-checked.** All liveness (`CloseEndsConsumers`, `StopEndsWork`,
`OutcomeAnnounced`, `EngineSettles`, `EveryChangeSettles`, `EndIsHandled`,
`SeekSettles`, `EveryOperationEnds`, `PlayerSettles`, `AppRecovers`, `PageSettles` and the
fair parts of the refinements): fairness and ENABLED are out of this prover's
reach. With it all that is said of the gate, which is temporal. The owned queue's
`PositionIsTheTrack`: it compares sequences that the code filters and flattens, and facts
about these need induction over data. It is the only invariant of a run without a theorem.

## Findings

With a run:

* `track_stop`: a superseded change's `vlc/stop` answer clears `_vlcLive`
  (`engine-playback.js:5144`) before the check that it was superseded (5146), after a newer
  lossless track set it (5185): the next AAC track does not stop libvlc, contrary to
  733 and 5136-5137.
* `export_left`: "leave nothing behind" (`export/manager.go:907`): the lyrics are beside the
  track by then (892-899), and a FLAC conversion that the cancellation kills leaves its partial file
  (1001-1024, though `ffmpeg.go:218` leaves the cleanup to the caller); only `tmpPath` is
  removed (908).
* `video_init`: a seek that was told to append the other init segment may be aborted
  before it does (`engine-playback.js:3428-3461`), and as the engine counts what it told
  (`handlers_vseg.go:101-103`) nobody is told again: fragments are then appended to an
  init segment of the other kind, contrary to 90-92 there and `engine-playback.js:3453-3454`.

Without a run, met while modelling (line numbers without a file are of
`electron/src/engine-playback.js`). Engine:

* a failed copy removes the name of its claim although an "overwrite" job has
  renamed its file over it (`noreplace.go:44` against 23-25);
* two concurrent Opens can open two sessions of a key (`playback/manager.go:246-254`
  against 61-64);
* Commit deletes a key's registration after the marker, when it may be that of a new
  put (`diskcache.go:405` against 52-55); `NewReaderAt` attaches to a closed
  writer (452 against 507-510); a request for eviction between the last look at
  `evictAgain` and the reset of `evicting` is lost (254 against
  `streaming_test.go:347-348`);
* a mux that fails or is cancelled removes its two inputs and leaves `tmpPath`
  (`export/manager.go:803-808`; `ffmpeg.go:161-183` does not remove its output), and a conversion
  that fails for another reason leaves its partial file, too (1020-1024): `left` in the model;
* a cancelled job may still end "done" (`manager.go:312-313` against 541-545, 658-662);
* a failed job stays in the export list, so each poll arms its retry again
  (`manager.go:347`; 11578-11592).

Playback:

* a change superseded before its stop leaves libvlc to the next one, contrary to
  `handoff.js:5-7`; the states of `playstate.js:1-9` are left by edges the design has not;
* the end of an AAC stream: a cache seek that was replaced while it waited for its last append
  still declares the track complete, as 1649-1653 do not look again after the wait of 1648. The
  branch needs a network seek just before: without one a complete stream has its MediaSource
  ended, so that a seek outside the buffer returns at 1674 and does nothing;
* a reload of a lossless track that is refused (404) after the track was left opens the newer track
  again, at the position of the old one (3947, 3925-3931, 5377-5384);
* a session that was noted as lost and is not opened again keeps `_sessionLost`, so that the loss
  of a later track's session is not noticed (3918); an end reported during a reload after a seek
  that fails is not heard (3896);
* after a seek the target may not be buffered when all operations have ended (1716-1717);
* `transport.js:2-3` promises that answers cannot reorder presses: a press while a
  track loads is dropped, and a failed command leaves the button wrong;
  `_resetVLCSeekState` (668) has no caller;
* video: answers are not always absolute (3440-3442); the picture may play before the gate
  (3571-3577 against 2871-2873); a user's mute is lost when a stall ends (3651);
  `_mvGateOpen` stays false when a video is left while it waits, and blocks later seeks
  (989); a full SourceBuffer after an eviction drops a chunk of sound (3104);
* queue: `_clearAdvancing()` stops the 6 s timer early (6846 against 6690-6692); the
  lock of a move may be released by the end of an older one;
* gate: leftovers of a click are not cleared (7361, 7666-7668); a stray notification
  stops the timer but not what it guarded (8087-8097);
* buffer guard: `_startDynBuf` (2925) has no caller, so what 2878-2899 describe does not run;
* overlay: a comment says that the scrim blocks all interaction before the start, but it, the
  footer and the scrubber take clicks; playback cannot be toggled until the source of
  the sound is open (the variables it reads are not yet initialised); Escape in the
  quality menu also leaves the video; a limit on quality that is not on offer becomes the
  highest tier, for the next video too.

Page and main process:

* library: an album played from Apple is not cached, contrary to 7466: the page posts
  `playlists: {}` (7474) where the engine expects a list (`library.go:654`), and does not read the
  refusal (`LibrarySync!AlbumRefused`);
* power: "never throttle below full" (145) fails when the profile changes while the mode
  is already lowered (154);
* fades: a fade may reach a lossless track (5778), and the base volume may be a ramp's
  (5788); levels: a
  loudness that is read after its track was left, or after Sound Check was switched off, is applied all
  the same (5738-5753 do not look; 5640-5641);
* settings: a switch restores what was not saved (9951-9953), downloads at another
  quality than picked (748), a closed dialog opens again (39);
* badge 1378, decorations 8768-8772 and 8371-8377, menu 11213-11214, shortcuts 7151: a
  late answer acts on what was replaced meanwhile;
* events: a slow client's skipped events are not captured (6434-6437,
  `handlers_system.go:198` against 168-171), `replay.truncated` is ignored, a restarted
  engine is not noticed (374-377);
* sign-in: credentials are saved for an account that was not accepted
  (`account-sheet.js:66-67`), or after a cancellation (55); prefetch: `smart-cache.js:145-146`;
* store: quitting may lose a write (`main.mjs:3101-3103`), a restart resumes after
  "start fresh" (2775-2777), two first loads drop a write (69);
* engine process: the cleanup may delete what the start needs (`config-cleanup.mjs:20-24`
  against `main.mjs:422`); a failed download of the libraries is not retried;
* backdrop: `_applyKdeWallpaperBlur` has no caller, so KDE on Wayland gets no layer, contrary to
  `main.mjs:489`; a window that starts hidden, and a new document, stay without one until
  the next move; on GNOME with X11 a move replaces the wallpaper by a screenshot; an answer
  after the window closed throws while the application quits;
* menu: an item whose row holds no link is taken to be the page's own when nothing was copied;
* window: two quick presses for the mini player end in `null.show()`; theme: modes are not
  isolated (9874); MPRIS does not remember the volume (`main.mjs:2202`); links:
  `link-schemes.mjs:144`.

## Not modelled

In the engine: the prefetch scheduler, the DRM manager and sign-out (the page's and the
main process's sides of both are modelled), HTTP handlers, gates and epochs, the
throttle, decryption, pipeline, HLS, metadata, libraries and VLC bindings: planned or
byte-level. In Electron: the lyrics over a video (441-645; its `_slShow` has no
caller), the `adam-video:` protocol (`main.mjs` 2801-2990), visual themes, Windows
integration, the generated bundles. The victim that an eviction removes by name
may have been replaced since the scan: the model has that race, and no document says
what should hold of it.

## Plan

What is left, in this order: the DRM manager with sign-out (its backend crashes while it is
starting, signing in or being shut down), the engine's prefetch scheduler (a warmed
session is handed out or released, by four who race for it), and a proof of
`PositionIsTheTrack` once facts about filtered sequences can be proved by induction.
