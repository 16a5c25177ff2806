----------------------------------- MODULE MCApp ----------------------------
(***************************************************************************)
(* The modules of the main process, of the page's services and of its      *)
(* sound, side by side.  As in MCPlayer, a behaviour is of one part,       *)
(* chosen at the start among Parts, and v1, v2, ... stand for the          *)
(* variables of its module, in their order.                                *)
(***************************************************************************)
EXTENDS Integers, Sequences, TLAPS

CONSTANTS
  Parts,   \* the parts a run asks about
  \* The user's commands
  CommandsSongs, CommandsActions, CommandsKeys, CommandsEscape, CommandsMaxUser,
  CommandsMaxFaults,
  \* The theme
  ThemeMaxChanges,
  \* Levels
  LevelsTracks, LevelsLossless, LevelsSoft, LevelsMaxUser, LevelsMaxPosts,
  \* The store
  StoreKeys, StoreMaxWrites, StoreMaxLoads, StoreMaxFaults, StoreMaxStops,
  \* Discord
  PresencePaths, PresenceMaxSocks, PresenceMaxSongs, PresenceMaxFaults,
  \* What is remembered
  MemoryTracks, MemoryHistMax, MemoryMaxMoves, MemoryMaxToggles, MemoryMaxCalls, MemoryMaxFaults,
  \* Links
  LinksSchemes, LinksOther, LinksAll, LinksAbroad, LinksPages, LinksNotices, LinksMaxFaults,
  LinksMaxChanges,
  \* Scrobbling
  ScrobbleMaxPlays, ScrobbleMaxJoins, ScrobbleMaxFaults,
  \* Fades
  FadesFull, FadesMaxTracks, FadesMaxUser,
  \* Cache warming
  PrefetchSlots, PrefetchPaged, PrefetchMaxContexts,
  \* The power mode
  PowerMaxChanges,
  \* The engine's process
  ProcessFiles, ProcessMain, ProcessMaxEngines, ProcessMaxFaults,
  \* The desktop's controls
  ControlsMaxUpdates, ControlsMaxFaults,
  \* The window
  WindowMaxLoads, WindowMaxFaults, WindowMaxMinis

VARIABLES part,   \* the part this behaviour is of
          v1, v2, v3, v4, v5, v6, v7, v8, v9, v10, v11, v12, v13, v14, v15, v16, v17, v18, v19,
          v20, v21   \* its variables, in their order of declaration

vars == <<part, v1, v2, v3, v4, v5, v6, v7, v8, v9, v10, v11, v12, v13, v14, v15, v16, v17, v18,
          v19, v20, v21>>

-----------------------------------------------------------------------------
(* The user's commands (UserCommands), and that its invariant holds at the start and is kept by
   each step. *)
CommandsDefault == [a \in CommandsActions |-> IF a = "love" THEN "l" ELSE "r"]
Commands == INSTANCE UserCommands WITH
  Songs <- CommandsSongs, Actions <- CommandsActions, Keys <- CommandsKeys,
  Default <- CommandsDefault, Escape <- CommandsEscape, MaxUser <- CommandsMaxUser,
  MaxFaults <- CommandsMaxFaults, item <- v1, current <- v2, playing <- v3, deep <- v4,
  repeat <- v5, shuffle <- v6, events <- v7, rated <- v8, loved <- v9, toggles <- v10,
  suspect <- v11, desktop <- v12, mini <- v13, enabled <- v14, bindings <- v15, capture <- v16,
  labels <- v17, mixed <- v18, dialog <- v19, user <- v20, faults <- v21

\* The invariant by what it is about.
CommandsPlayerOK == /\ v1 \in Commands!Queue /\ v2 \in Commands!Queue /\ v5 \in 0 .. 2
                    /\ v3 \in BOOLEAN /\ v4 \in BOOLEAN /\ v6 \in BOOLEAN
                    /\ v7 \subseteq {"item", "repeat", "shuffle"}
CommandsLoveOK   == /\ v8 \in [Commands!Queue -> BOOLEAN]
                    /\ v9 \in [Commands!Queue -> Commands!Ratings]
                    /\ v10 \subseteq Commands!Toggles /\ v11 \subseteq Commands!Queue
                    /\ Commands!OneToggle
CommandsShownOK  == /\ v12 \in [song : Commands!Queue, rating : Commands!Ratings]
                    /\ v13 \in Commands!MiniStates /\ Commands!ShownIsPlayed
CommandsKeysOK   == /\ v14 \in BOOLEAN /\ v15 \in [CommandsActions -> CommandsKeys]
                    /\ v16 \in Commands!Captures
                    /\ v17 \in [CommandsActions -> CommandsKeys \union {Commands!Asking}]
                    /\ v18 \in BOOLEAN /\ v19 \in BOOLEAN
                    /\ Commands!KeysAreTheDialogs /\ Commands!OneCapture
CommandsCountsOK == v20 \in 0 .. CommandsMaxUser /\ v21 \in 0 .. CommandsMaxFaults

LEMMA CommandsInParts == Commands!IInv <=>
  CommandsPlayerOK /\ CommandsLoveOK /\ CommandsShownOK /\ CommandsKeysOK /\ CommandsCountsOK
BY DEF Commands!IInv, Commands!TypeOK, CommandsPlayerOK, CommandsLoveOK, CommandsShownOK,
   CommandsKeysOK, CommandsCountsOK

LEMMA CommandsInPartsNext == CommandsPlayerOK' /\ CommandsLoveOK' /\ CommandsShownOK' /\
  CommandsKeysOK' /\ CommandsCountsOK' => Commands!IInv'
BY DEF Commands!IInv, Commands!TypeOK, CommandsPlayerOK, CommandsLoveOK, CommandsShownOK,
   CommandsKeysOK, CommandsCountsOK

LEMMA CommandsInitEstablishes ==
  ASSUME Commands!CommandsAssumption, Commands!Init
  PROVE  Commands!IInv
<1>1. CommandsPlayerOK
  <2>1. 1 \in Commands!Queue /\ 0 \in 0 .. 2
    BY DEF Commands!CommandsAssumption, Commands!Queue
  <2>2. v3 \in BOOLEAN /\ v4 \in BOOLEAN /\ v6 \in BOOLEAN
    BY DEF Commands!Init
  <2> QED BY <2>1, <2>2 DEF Commands!Init, CommandsPlayerOK
<1>2. CommandsLoveOK
  BY DEF Commands!Init, CommandsLoveOK, Commands!OneToggle, Commands!Ratings
<1>3. v12 \in [song : Commands!Queue, rating : Commands!Ratings] /\ v13 \in Commands!MiniStates
  BY DEF Commands!CommandsAssumption, Commands!Init, Commands!Queue, Commands!Ratings,
     Commands!MiniStates
<1>4. Commands!ShownIsPlayed
  BY <1>1 DEF Commands!Init, Commands!ShownIsPlayed, Commands!Metadata, CommandsPlayerOK
<1>5. CommandsKeysOK
  <2>1. v16 = [action |-> "none", live |-> FALSE]
    BY DEF Commands!Init, Commands!NoCapture
  <2>2. v16 \in Commands!Captures /\ v16.action = "none"
    BY <2>1 DEF Commands!Captures
  <2>3. v17 \in [CommandsActions -> CommandsKeys \union {Commands!Asking}]
    BY DEF Commands!CommandsAssumption, Commands!Init
  <2> QED BY <2>2, <2>3 DEF Commands!CommandsAssumption, Commands!Init, CommandsKeysOK,
             Commands!KeysAreTheDialogs, Commands!OneCapture
<1>6. CommandsCountsOK
  BY DEF Commands!CommandsAssumption, Commands!Init, CommandsCountsOK
<1> QED BY <1>1, <1>2, <1>3, <1>4, <1>5, <1>6, CommandsInParts DEF CommandsShownOK

-----------------------------------------------------------------------------
\* What the player does leaves an event of it behind.
CommandsMoves == /\ v2' = v2
                 /\ "item" \notin v7' => "item" \notin v7 /\ v1' = v1
                 /\ "repeat" \notin v7' => "repeat" \notin v7 /\ v5' = v5
                 /\ "shuffle" \notin v7' => "shuffle" \notin v7 /\ v6' = v6

LEMMA CommandsPlayerMoves ==
  ASSUME CommandsPlayerOK,
         \/ \E on \in BOOLEAN : Commands!Play(on)
         \/ \E d \in BOOLEAN : Commands!SeekTo(d)
         \/ \E s \in Commands!Queue : Commands!MoveTo(s)
         \/ \E r \in 0 .. 2 : Commands!Repeat(r)
         \/ \E b \in BOOLEAN : Commands!Shuffle(b)
  PROVE  CommandsPlayerOK' /\ CommandsMoves
<1>1. ASSUME NEW on \in BOOLEAN, Commands!Play(on) PROVE CommandsPlayerOK' /\ CommandsMoves
  BY <1>1 DEF Commands!Play, CommandsPlayerOK, CommandsMoves
<1>2. ASSUME NEW d \in BOOLEAN, Commands!SeekTo(d) PROVE CommandsPlayerOK' /\ CommandsMoves
  BY <1>2 DEF Commands!SeekTo, CommandsPlayerOK, CommandsMoves
<1>3. ASSUME NEW s \in Commands!Queue, Commands!MoveTo(s) PROVE CommandsPlayerOK' /\ CommandsMoves
  <2>1. v4' = FALSE
    BY <1>3 DEF Commands!MoveTo
  <2> QED BY <1>3, <2>1 DEF Commands!MoveTo, CommandsPlayerOK, CommandsMoves
<1>4. ASSUME NEW r \in 0 .. 2, Commands!Repeat(r) PROVE CommandsPlayerOK' /\ CommandsMoves
  BY <1>4 DEF Commands!Repeat, CommandsPlayerOK, CommandsMoves
<1>5. ASSUME NEW b \in BOOLEAN, Commands!Shuffle(b) PROVE CommandsPlayerOK' /\ CommandsMoves
  <2>1. v6' \in BOOLEAN
    BY <1>5 DEF Commands!Shuffle
  <2> QED BY <1>5, <2>1 DEF Commands!Shuffle, CommandsPlayerOK, CommandsMoves
<1> QED BY <1>1, <1>2, <1>3, <1>4, <1>5

\* The modes as they are pushed to the mini player.
LEMMA CommandsMiniFacts ==
  ASSUME CommandsPlayerOK, v13 \in Commands!MiniStates,
         NEW cached \in [Commands!Queue -> Commands!Ratings], NEW r \in 0 .. 2
  PROVE  /\ Commands!MiniState(cached, r) \in Commands!MiniStates
         /\ Commands!MiniState(cached, r).open = v13.open
         /\ Commands!MiniState(cached, r).repeat = r
         /\ Commands!MiniState(cached, r).shuffle = v6
<1>1. PICK b \in BOOLEAN : b = (cached[v2] = "yes")
  OBVIOUS
<1>2. PICK m \in Commands!MiniStates : m = [v13 EXCEPT !.heart = b, !.repeat = r, !.shuffle = v6]
  BY DEF Commands!MiniStates, CommandsPlayerOK
<1>3. m.open = v13.open /\ m.repeat = r /\ m.shuffle = v6
  BY <1>2 DEF Commands!MiniStates
<1> QED BY <1>1, <1>2, <1>3 DEF Commands!MiniState

\* What is shown stays right when the player moves on, and the mini player is pushed its state.
LEMMA CommandsShownMoves ==
  ASSUME CommandsPlayerOK, CommandsShownOK, CommandsLoveOK, CommandsPlayerOK', CommandsMoves,
         v12' = v12, v9' = v9,
         v13' = v13 \/ (v13' = Commands!MiniState(v9, v5') /\ v6' = v6)
  PROVE  CommandsShownOK'
<1>1. /\ v13' \in Commands!MiniStates
      /\ v13'.open = v13.open
      /\ v13' = v13 \/ (v13'.repeat = v5' /\ v13'.shuffle = v6')
  BY CommandsMiniFacts DEF CommandsShownOK, CommandsLoveOK, CommandsPlayerOK
<1>2. "item" \notin v7' => v12' = Commands!Metadata(v1', v9')
  BY DEF CommandsShownOK, Commands!ShownIsPlayed, Commands!Metadata, CommandsMoves
<1>3. v13'.open => /\ "repeat" \notin v7' => v13'.repeat = v5'
                   /\ "shuffle" \notin v7' => v13'.shuffle = v6'
  BY <1>1 DEF CommandsShownOK, Commands!ShownIsPlayed, CommandsMoves
<1> QED BY <1>1, <1>2, <1>3 DEF CommandsShownOK, Commands!ShownIsPlayed

LEMMA CommandsMetadataFacts ==
  ASSUME NEW s \in Commands!Queue, NEW cached \in [Commands!Queue -> Commands!Ratings]
  PROVE  Commands!Metadata(s, cached) \in [song : Commands!Queue, rating : Commands!Ratings]
BY DEF Commands!Metadata

\* The cache changes and what the desktop shows with it; the mini player may be pushed its state.
LEMMA CommandsShownAnswered ==
  ASSUME CommandsPlayerOK, CommandsShownOK, NEW t, v9' \in [Commands!Queue -> Commands!Ratings],
         UNCHANGED Commands!player,
         v13' = Commands!PushedAfter(t, v9'),
         v12' = Commands!Metadata(v1, v9') \/ (v12' = v12 /\ v9' = v9)
  PROVE  CommandsShownOK'
<1>1. PICK c : c = v9'
  OBVIOUS
<1>2. /\ v13' \in Commands!MiniStates
      /\ v13'.open = v13.open
      /\ v13' = v13 \/ (v13'.repeat = v5 /\ v13'.shuffle = v6)
  BY <1>1, CommandsMiniFacts DEF Commands!PushedAfter, CommandsShownOK, CommandsPlayerOK
<1>3. v12' \in [song : Commands!Queue, rating : Commands!Ratings]
  BY <1>1, CommandsMetadataFacts DEF CommandsShownOK, CommandsPlayerOK
<1>4. UNCHANGED <<v1, v7, v5, v6>>
  BY DEF Commands!player
<1> QED BY <1>2, <1>3, <1>4 DEF CommandsShownOK, Commands!ShownIsPlayed, Commands!Metadata

-----------------------------------------------------------------------------
LEMMA CommandsYesNoFacts == \A b \in BOOLEAN : Commands!YesNo(b) \in {"yes", "no"}
BY DEF Commands!YesNo

\* A toggle that begins is the only one of its song, or its song is suspect.
LEMMA CommandsToggleBegins ==
  ASSUME CommandsPlayerOK, CommandsLoveOK, v20' \in Nat, NEW from \in {"key", "command"},
         Commands!ToggleLove(from)
  PROVE  CommandsLoveOK'
<1>1. PICK w \in BOOLEAN : w = (v9[v2] # "yes")
  OBVIOUS
<1>2. PICK p \in {"read", "write"} : p = IF v9[v2] = "unknown" THEN "read" ELSE "write"
  OBVIOUS
<1>3. PICK n : n = [id |-> v20', song |-> v2, from |-> from, pc |-> p, want |-> w]
  OBVIOUS
<1>4. v10' = v10 \union {n} /\ UNCHANGED <<v8, v9>>
  BY <1>1, <1>2, <1>3 DEF Commands!ToggleLove
<1>5. n \in Commands!Toggles /\ n.song = v2 /\ n.pc \in {"read", "write"}
  BY <1>3 DEF Commands!Toggles, CommandsPlayerOK
<1>6. /\ v11 \subseteq v11' /\ v11' \subseteq Commands!Queue
      /\ v2 \in v11' \/ \A t \in v10 : t.song # v2
  BY DEF Commands!ToggleLove, CommandsLoveOK, CommandsPlayerOK
<1>7. v10' \subseteq Commands!Toggles
  BY <1>4, <1>5 DEF CommandsLoveOK
<1>8. \A t, u \in v10' : t.song = u.song /\ t.song \notin v11' => t = u
  BY <1>4, <1>5, <1>6 DEF CommandsLoveOK, Commands!OneToggle
<1>9. \A t \in v10' : t.pc = "answer" /\ t.song \notin v11' => (v8'[t.song] <=> t.want)
  BY <1>4, <1>5, <1>6 DEF CommandsLoveOK, Commands!OneToggle
<1>10. \A s \in Commands!Queue \ v11' :
         v9'[s] # "unknown" /\ (\A t \in v10' : t.song = s => t.pc # "answer") =>
           v9'[s] = Commands!YesNo(v8'[s])
  BY <1>4, <1>6 DEF CommandsLoveOK, Commands!OneToggle, Commands!YesNo
<1> QED BY <1>4, <1>6, <1>7, <1>8, <1>9, <1>10 DEF CommandsLoveOK, Commands!OneToggle

\* A toggle goes on to its next request.
LEMMA CommandsToggleGoesOn ==
  ASSUME CommandsLoveOK, NEW t \in v10, NEW n \in Commands!Toggles, n.song = t.song,
         v10' = (v10 \ {t}) \union {n}, v8' \in [Commands!Queue -> BOOLEAN],
         UNCHANGED <<v9, v11>>, t.pc # "answer",
         \A s \in Commands!Queue \ {t.song} : v8'[s] <=> v8[s],
         \/ n.pc # "answer" /\ v8' = v8
         \/ n.pc = "answer" /\ (v8'[t.song] <=> n.want)
  PROVE  CommandsLoveOK'
<1>1. \A u \in v10 : u # t /\ u.song \notin v11 => u.song # t.song
  BY DEF CommandsLoveOK, Commands!OneToggle
<1>2. \A u \in v10' : u = n \/ (u \in v10 /\ u # t)
  OBVIOUS
<1>3. t.song \in Commands!Queue /\ \A u \in v10 : u.song \in Commands!Queue /\
        u \in Commands!Toggles
  BY DEF CommandsLoveOK, Commands!Toggles
<1>4. \A u, v \in v10' : u.song = v.song /\ u.song \notin v11 => u = v
  BY <1>1, <1>2 DEF CommandsLoveOK, Commands!OneToggle
<1>5. ASSUME NEW u \in v10', u.pc = "answer", u.song \notin v11
      PROVE  v8'[u.song] <=> u.want
  BY <1>1, <1>2, <1>3, <1>5 DEF CommandsLoveOK, Commands!OneToggle
<1>6. ASSUME NEW s \in Commands!Queue \ v11, v9[s] # "unknown",
             \A u \in v10' : u.song = s => u.pc # "answer"
      PROVE  v9[s] = Commands!YesNo(v8'[s])
  <2>1. CASE s = t.song
    <3>1. n.pc # "answer" /\ v8' = v8
      BY <1>6, <2>1
    <3>2. \A u \in v10 : u.song = s => u.pc # "answer"
      BY <1>1, <1>6, <2>1
    <3> QED BY <1>6, <3>1, <3>2 DEF CommandsLoveOK, Commands!OneToggle
  <2>2. CASE s # t.song
    <3>1. \A u \in v10 : u.song = s => u.pc # "answer"
      BY <1>6, <2>2
    <3>2. v9[s] = Commands!YesNo(v8[s]) /\ (v8'[s] <=> v8[s])
      BY <1>6, <2>2, <3>1 DEF CommandsLoveOK, Commands!OneToggle
    <3> QED BY <3>2 DEF Commands!YesNo
  <2> QED BY <2>1, <2>2
<1>7. v10' \subseteq Commands!Toggles
  BY <1>3
<1>8. Commands!OneToggle'
  BY <1>4, <1>5, <1>6 DEF Commands!OneToggle
<1> QED BY <1>7, <1>8 DEF CommandsLoveOK

\* A toggle ends: what Apple recorded is in the cache, or its song is suspect.
LEMMA CommandsToggleEnds ==
  ASSUME CommandsLoveOK, NEW t \in v10, v10' = v10 \ {t}, v8' = v8,
         v11 \subseteq v11', v11' \subseteq Commands!Queue,
           v9' \in [Commands!Queue -> Commands!Ratings],
         \A s \in Commands!Queue \ {t.song} : v9'[s] = v9[s],
         \/ t.song \in v11'
         \/ t.pc = "answer" /\ v9'[t.song] = Commands!YesNo(t.want)
         \/ t.pc # "answer" /\ v9' = v9
  PROVE  CommandsLoveOK'
<1>1. \A u \in v10 : u # t /\ u.song \notin v11 => u.song # t.song
  BY DEF CommandsLoveOK, Commands!OneToggle
<1>2. t.song \in Commands!Queue
  BY DEF CommandsLoveOK, Commands!Toggles
<1>3. ASSUME NEW s \in Commands!Queue \ v11', v9'[s] # "unknown",
             \A u \in v10' : u.song = s => u.pc # "answer"
      PROVE  v9'[s] = Commands!YesNo(v8[s])
  <2>1. CASE s = t.song
    <3>1. CASE t.pc = "answer" /\ v9'[t.song] = Commands!YesNo(t.want)
      <4>1. v8[s] <=> t.want
        BY <1>3, <2>1, <3>1 DEF CommandsLoveOK, Commands!OneToggle
      <4> QED BY <2>1, <3>1, <4>1 DEF Commands!YesNo
    <3>2. CASE t.pc # "answer" /\ v9' = v9
      <4>1. \A u \in v10 : u.song = s => u.pc # "answer"
        BY <1>3, <3>2
      <4> QED BY <1>3, <3>2, <4>1 DEF CommandsLoveOK, Commands!OneToggle
    <3> QED BY <1>3, <2>1, <3>1, <3>2
  <2>2. CASE s # t.song
    <3>1. \A u \in v10 : u.song = s => u.pc # "answer"
      BY <1>3, <2>2
    <3> QED BY <1>3, <2>2, <3>1 DEF CommandsLoveOK, Commands!OneToggle
  <2> QED BY <2>1, <2>2
<1>4. Commands!OneToggle'
  BY <1>3 DEF CommandsLoveOK, Commands!OneToggle
<1>5. v8' \in [Commands!Queue -> BOOLEAN] /\ v10' \subseteq Commands!Toggles
  BY DEF CommandsLoveOK
<1> QED BY <1>4, <1>5 DEF CommandsLoveOK

\* A song is rated elsewhere.
LEMMA CommandsRatedKeeps ==
  ASSUME CommandsLoveOK, NEW s \in Commands!Queue, v8' = [v8 EXCEPT ![s] = ~@],
         v11' = v11 \union {s}, UNCHANGED <<v9, v10>>
  PROVE  CommandsLoveOK'
<1>1. v8' \in [Commands!Queue -> BOOLEAN] /\ \A q \in Commands!Queue \ {s} : v8'[q] = v8[q]
  BY DEF CommandsLoveOK
<1>2. \A t \in v10 : t.song \in Commands!Queue
  BY DEF CommandsLoveOK, Commands!Toggles
<1>3. \A t \in v10 : t.pc = "answer" /\ t.song \notin v11' => (v8'[t.song] <=> t.want)
  BY <1>1, <1>2 DEF CommandsLoveOK, Commands!OneToggle
<1>4. \A q \in Commands!Queue \ v11' :
        v9[q] # "unknown" /\ (\A t \in v10 : t.song = q => t.pc # "answer") =>
          v9[q] = Commands!YesNo(v8'[q])
  BY <1>1 DEF CommandsLoveOK, Commands!OneToggle
<1>5. Commands!OneToggle'
  BY <1>3, <1>4 DEF CommandsLoveOK, Commands!OneToggle
<1> QED BY <1>1, <1>5 DEF CommandsLoveOK

-----------------------------------------------------------------------------
\* The keys are the dialog's: a key pressed, the section built, a button pressed.
LEMMA CommandsCapturedKeeps ==
  ASSUME CommandsKeysOK, NEW k \in CommandsKeys, v16.action # "none", Commands!Captured(k)
  PROVE  CommandsKeysOK'
<1>1. PICK a \in CommandsActions : a = v16.action
  BY DEF CommandsKeysOK, Commands!Captures
<1>2. PICK b \in [CommandsActions -> CommandsKeys] :
             b = IF k = CommandsEscape THEN v15 ELSE [v15 EXCEPT ![a] = k]
  BY DEF CommandsKeysOK
<1>3. /\ v16' = Commands!NoCapture /\ v15' = b
      /\ v17' = IF v16.live THEN [v17 EXCEPT ![a] = b[a]] ELSE v17
      /\ UNCHANGED <<v14, v18, v19>>
  BY <1>1, <1>2 DEF Commands!Captured
<1>4. \A c \in CommandsActions \ {a} : b[c] = v15[c]
  BY <1>2 DEF CommandsKeysOK
<1>5. Commands!NoCapture \in Commands!Captures /\ Commands!NoCapture.action = "none"
  BY DEF Commands!NoCapture, Commands!Captures
<1>6. v17' \in [CommandsActions -> CommandsKeys \union {Commands!Asking}]
  BY <1>2, <1>3 DEF CommandsKeysOK
<1>7. ASSUME v19', ~v18', NEW c \in CommandsActions
      PROVE  v17'[c] = v15'[c]
  <2>1. v16.live
    BY <1>1, <1>3, <1>7 DEF CommandsKeysOK, Commands!OneCapture
  <2>2. CASE c = a
    BY <1>2, <1>3, <2>1, <2>2 DEF CommandsKeysOK
  <2>3. CASE c # a
    <3>1. v17'[c] = v17[c] /\ v15'[c] = v15[c]
      BY <1>3, <1>4, <2>1, <2>3 DEF CommandsKeysOK
    <3>2. v17[c] = v15[c]
      BY <1>1, <1>3, <1>7, <2>3 DEF CommandsKeysOK, Commands!KeysAreTheDialogs
    <3> QED BY <3>1, <3>2
  <2> QED BY <2>2, <2>3
<1>8. Commands!KeysAreTheDialogs'
  BY <1>3, <1>7 DEF Commands!KeysAreTheDialogs, Commands!NoCapture
<1>9. Commands!OneCapture'
  BY <1>3, <1>5 DEF Commands!OneCapture
<1> QED BY <1>2, <1>3, <1>5, <1>6, <1>8, <1>9 DEF CommandsKeysOK

LEMMA CommandsOpenSettingsKeeps ==
  ASSUME CommandsKeysOK, Commands!OpenSettings
  PROVE  CommandsKeysOK'
<1>1. PICK c \in Commands!Captures : c = [v16 EXCEPT !.live = FALSE]
  BY DEF CommandsKeysOK, Commands!Captures
<1>2. c.action = v16.action
  BY <1>1 DEF CommandsKeysOK, Commands!Captures
<1>3. /\ v19' = TRUE /\ v17' = v15 /\ v16' = c
      /\ v18' = (v18 \/ v16.action # "none") /\ UNCHANGED <<v14, v15>>
  BY <1>1 DEF Commands!OpenSettings
<1>4. Commands!KeysAreTheDialogs' /\ Commands!OneCapture'
  BY <1>2, <1>3 DEF Commands!KeysAreTheDialogs, Commands!OneCapture
<1>5. v17' \in [CommandsActions -> CommandsKeys \union {Commands!Asking}]
  BY <1>3 DEF CommandsKeysOK
<1>6. v19' \in BOOLEAN /\ v18' \in BOOLEAN /\ v14' \in BOOLEAN
  BY <1>3 DEF CommandsKeysOK
<1> QED BY <1>3, <1>4, <1>5, <1>6 DEF CommandsKeysOK

LEMMA CommandsCloseSettingsKeeps ==
  ASSUME CommandsKeysOK, Commands!CloseSettings
  PROVE  CommandsKeysOK'
<1>1. /\ v19' = FALSE /\ v16' = Commands!NoCapture /\ v18' = FALSE
      /\ UNCHANGED <<v14, v15, v17>>
  BY DEF Commands!CloseSettings, Commands!CaptureClosed
<1>2. Commands!NoCapture \in Commands!Captures /\ Commands!NoCapture.action = "none"
  BY DEF Commands!NoCapture, Commands!Captures
<1>3. Commands!KeysAreTheDialogs' /\ Commands!OneCapture'
  BY <1>1, <1>2 DEF Commands!KeysAreTheDialogs, Commands!OneCapture
<1>4. v19' \in BOOLEAN /\ v18' \in BOOLEAN
  BY <1>1
<1> QED BY <1>1, <1>2, <1>3, <1>4 DEF CommandsKeysOK

LEMMA CommandsAskKeyKeeps ==
  ASSUME Commands!CommandsAssumption, CommandsKeysOK, NEW a \in CommandsActions, Commands!AskKey(a)
  PROVE  CommandsKeysOK'
<1>1. PICK c \in Commands!Captures : c = [action |-> a, live |-> TRUE]
  BY DEF Commands!Captures
<1>2. c.action = a /\ c.live /\ a # "none"
  BY <1>1 DEF Commands!CommandsAssumption
<1>3. /\ v19 /\ v16' = c /\ v17' = [v17 EXCEPT ![a] = Commands!Asking]
      /\ v18' = (v18 \/ v16.action \notin {"none", a})
      /\ UNCHANGED <<v14, v15, v19>>
  BY <1>1 DEF Commands!AskKey
<1>4. v17' \in [CommandsActions -> CommandsKeys \union {Commands!Asking}]
  BY <1>3 DEF CommandsKeysOK
<1>5. Commands!KeysAreTheDialogs'
  <2>1. ASSUME ~v18', NEW d \in CommandsActions \ {a}
        PROVE  v17'[d] = v15'[d]
    <3>1. ~v18 /\ v16.action # d
      BY <1>3, <2>1 DEF Commands!CommandsAssumption
    <3> QED BY <1>3, <3>1 DEF CommandsKeysOK, Commands!KeysAreTheDialogs
  <2>2. v17'[a] = Commands!Asking
    BY <1>3 DEF CommandsKeysOK
  <2> QED BY <1>2, <1>3, <2>1, <2>2 DEF Commands!KeysAreTheDialogs
<1>6. Commands!OneCapture'
  BY <1>2, <1>3 DEF Commands!OneCapture
<1>7. v18' \in BOOLEAN
  BY <1>3 DEF CommandsKeysOK
<1> QED BY <1>3, <1>4, <1>5, <1>6, <1>7 DEF CommandsKeysOK

LEMMA CommandsResetKeysKeeps ==
  ASSUME Commands!CommandsAssumption, CommandsKeysOK, Commands!ResetKeys
  PROVE  CommandsKeysOK'
<1>1. /\ v15' = CommandsDefault /\ v17' = CommandsDefault
      /\ UNCHANGED <<v14, v16, v18, v19>>
  BY DEF Commands!ResetKeys
<1>2. v15' \in [CommandsActions -> CommandsKeys] /\
        v17' \in [CommandsActions -> CommandsKeys \union {Commands!Asking}]
  BY <1>1 DEF Commands!CommandsAssumption
<1> QED BY <1>1, <1>2 DEF Commands!ResetKeys, CommandsKeysOK, Commands!KeysAreTheDialogs,
           Commands!OneCapture

LEMMA CommandsEnableKeeps ==
  ASSUME CommandsKeysOK, Commands!Enable
  PROVE  CommandsKeysOK'
<1>1. v14' \in BOOLEAN
  BY DEF Commands!Enable
<1> QED BY <1>1 DEF Commands!Enable, CommandsKeysOK, Commands!KeysAreTheDialogs,
           Commands!OneCapture

-----------------------------------------------------------------------------
\* A part that does not change stays right.
LEMMA CommandsUnchangedKeeps ==
  /\ CommandsPlayerOK /\ UNCHANGED Commands!player => CommandsPlayerOK'
  /\ CommandsLoveOK /\ UNCHANGED Commands!love => CommandsLoveOK'
  /\ CommandsShownOK /\ UNCHANGED <<Commands!player, Commands!shown, v9>> => CommandsShownOK'
  /\ CommandsKeysOK /\ UNCHANGED Commands!keys => CommandsKeysOK'
<1>1. CommandsPlayerOK /\ UNCHANGED Commands!player => CommandsPlayerOK'
  BY DEF Commands!player, CommandsPlayerOK
<1>2. CommandsLoveOK /\ UNCHANGED Commands!love => CommandsLoveOK'
  BY DEF Commands!love, CommandsLoveOK, Commands!OneToggle
<1>3. CommandsShownOK /\ UNCHANGED <<Commands!player, Commands!shown, v9>> => CommandsShownOK'
  BY DEF Commands!player, Commands!shown, CommandsShownOK, Commands!ShownIsPlayed,
     Commands!Metadata
<1>4. CommandsKeysOK /\ UNCHANGED Commands!keys => CommandsKeysOK'
  BY DEF Commands!keys, CommandsKeysOK, Commands!KeysAreTheDialogs, Commands!OneCapture
<1> QED BY <1>1, <1>2, <1>3, <1>4

LEMMA CommandsCountsStay ==
  ASSUME Commands!CommandsAssumption, CommandsCountsOK, Commands!Act \/
         v20' = v20, Commands!Fault \/ v21' = v21
  PROVE  CommandsCountsOK'
BY DEF Commands!CommandsAssumption, CommandsCountsOK, Commands!Act, Commands!Fault

\* A request for a song's rating is answered, recorded or fails.
LEMMA CommandsAnswersPreserve ==
  ASSUME Commands!CommandsAssumption, Commands!IInv, Commands!Answers
  PROVE  Commands!IInv'
<1>0. CommandsPlayerOK /\ CommandsLoveOK /\ CommandsShownOK /\ CommandsKeysOK /\ CommandsCountsOK
  BY CommandsInParts
<1>1. PICK t \in v10 : Commands!RatingRead(t) \/ Commands!RatingWritten(t) \/
             Commands!RatingAnswered(t) \/ Commands!RatingFails(t)
  BY DEF Commands!Answers
<1>2. t \in Commands!Toggles /\ t.song \in Commands!Queue /\ v8[t.song] \in BOOLEAN /\
        t.want \in BOOLEAN
  BY <1>0 DEF CommandsLoveOK, Commands!Toggles
<1>3. UNCHANGED <<Commands!player, Commands!keys, v20>> /\ (Commands!Fault \/ v21' = v21)
  BY <1>1 DEF Commands!RatingRead, Commands!RatingWritten, Commands!RatingAnswered,
     Commands!RatingFails
<1>4. CommandsPlayerOK' /\ CommandsKeysOK' /\ CommandsCountsOK'
  BY <1>0, <1>3, CommandsUnchangedKeeps, CommandsCountsStay
<1>5. ASSUME Commands!RatingRead(t) PROVE CommandsLoveOK' /\ CommandsShownOK'
  <2>1. PICK w \in BOOLEAN : v10' = (v10 \ {t}) \union {[t EXCEPT !.pc = "write", !.want = w]}
    <3>1. PICK w \in BOOLEAN : w = ~v8[t.song]
      OBVIOUS
    <3> QED BY <1>5, <3>1 DEF Commands!RatingRead
  <2>2. PICK n \in Commands!Toggles : n = [t EXCEPT !.pc = "write", !.want = w]
    BY <1>2 DEF Commands!Toggles
  <2>3. n.song = t.song /\ n.pc = "write"
    BY <1>2, <2>2 DEF Commands!Toggles
  <2>4. t.pc = "read" /\ UNCHANGED <<v8, v9, v11, Commands!shown>>
    BY <1>5 DEF Commands!RatingRead
  <2>5. CommandsLoveOK'
    BY <1>0, <2>1, <2>2, <2>3, <2>4, CommandsToggleGoesOn DEF CommandsLoveOK
  <2> QED BY <1>0, <1>3, <2>4, <2>5, CommandsUnchangedKeeps
<1>6. ASSUME Commands!RatingWritten(t) PROVE CommandsLoveOK' /\ CommandsShownOK'
  <2>1. PICK n \in Commands!Toggles : n = [t EXCEPT !.pc = "answer"]
    BY <1>2 DEF Commands!Toggles
  <2>2. n.song = t.song /\ n.pc = "answer" /\ n.want = t.want
    BY <1>2, <2>1 DEF Commands!Toggles
  <2>3. /\ v10' = (v10 \ {t}) \union {n} /\ t.pc # "answer"
        /\ v8' = [v8 EXCEPT ![t.song] = t.want] /\ UNCHANGED <<v9, v11, Commands!shown>>
    BY <1>6, <2>1 DEF Commands!RatingWritten
  <2>4. /\ v8' \in [Commands!Queue -> BOOLEAN] /\ v8'[t.song] = t.want
        /\ \A s \in Commands!Queue \ {t.song} : v8'[s] = v8[s]
    BY <1>0, <1>2, <2>3 DEF CommandsLoveOK
  <2>5. CommandsLoveOK'
    BY <1>0, <2>1, <2>2, <2>3, <2>4, CommandsToggleGoesOn
  <2> QED BY <1>0, <1>3, <2>3, <2>5, CommandsUnchangedKeeps
<1>7. ASSUME Commands!RatingAnswered(t) PROVE CommandsLoveOK' /\ CommandsShownOK'
  <2>1. /\ t.pc = "answer" /\ v10' = v10 \ {t}
        /\ v9' = [v9 EXCEPT ![t.song] = Commands!YesNo(t.want)]
        /\ v12' = Commands!Metadata(v1, v9') /\ v13' = Commands!PushedAfter(t, v9')
        /\ UNCHANGED <<Commands!player, v8, v11>>
    BY <1>7 DEF Commands!RatingAnswered, Commands!Reemit
  <2>2. /\ v9' \in [Commands!Queue -> Commands!Ratings] /\ v9'[t.song] = Commands!YesNo(t.want)
        /\ \A s \in Commands!Queue \ {t.song} : v9'[s] = v9[s]
    BY <1>0, <1>2, <2>1, CommandsYesNoFacts DEF CommandsLoveOK, Commands!Ratings
  <2>3. CommandsLoveOK'
    BY <1>0, <2>1, <2>2, CommandsToggleEnds DEF CommandsLoveOK
  <2>4. CommandsShownOK'
    BY <1>0, <2>1, <2>2, CommandsShownAnswered
  <2> QED BY <2>3, <2>4
<1>8. ASSUME Commands!RatingFails(t) PROVE CommandsLoveOK' /\ CommandsShownOK'
  <2>1. /\ v10' = v10 \ {t} /\ v9' = v9 /\ v13' = Commands!PushedAfter(t, v9')
        /\ v11' = IF t.pc = "answer" THEN v11 \union {t.song} ELSE v11
        /\ UNCHANGED <<Commands!player, v8, v12>>
    BY <1>8 DEF Commands!RatingFails, Commands!AfterFailure
  <2>2. v9' \in [Commands!Queue -> Commands!Ratings]
    BY <1>0, <2>1 DEF CommandsLoveOK
  <2>3. CommandsLoveOK'
    BY <1>0, <1>2, <2>1, <2>2, CommandsToggleEnds DEF CommandsLoveOK
  <2>4. CommandsShownOK'
    BY <1>0, <2>1, <2>2, CommandsShownAnswered
  <2> QED BY <2>3, <2>4
<1> QED BY <1>1, <1>4, <1>5, <1>6, <1>7, <1>8, CommandsInPartsNext

\* An event of the player is heard.
LEMMA CommandsHearsPreserve ==
  ASSUME Commands!CommandsAssumption, Commands!IInv, Commands!Hears
  PROVE  Commands!IInv'
<1>0. CommandsPlayerOK /\ CommandsLoveOK /\ CommandsShownOK /\ CommandsKeysOK /\ CommandsCountsOK
  BY CommandsInParts
<1>1. UNCHANGED <<Commands!love, Commands!keys, v20, v21>>
  BY DEF Commands!Hears, Commands!HearItem, Commands!TrackSet, Commands!HearRepeat,
     Commands!HearShuffle
<1>2. CommandsLoveOK' /\ CommandsKeysOK' /\ CommandsCountsOK' /\ v9' = v9
  BY <1>0, <1>1, CommandsUnchangedKeeps, CommandsCountsStay DEF Commands!love
<1>3. ASSUME Commands!HearItem PROVE CommandsPlayerOK' /\ CommandsShownOK'
  <2>1. /\ v12' = Commands!Metadata(v1, v9) /\ v7' = v7 \ {"item"}
        /\ UNCHANGED <<v1, v2, v3, v4, v5, v6, v13>>
    BY <1>3 DEF Commands!HearItem
  <2>2. v12' \in [song : Commands!Queue, rating : Commands!Ratings]
    BY <1>0, <2>1, CommandsMetadataFacts DEF CommandsPlayerOK, CommandsLoveOK
  <2> QED BY <1>0, <1>2, <2>1, <2>2 DEF CommandsPlayerOK, CommandsShownOK, Commands!ShownIsPlayed,
             Commands!Metadata
<1>4. ASSUME Commands!TrackSet PROVE CommandsPlayerOK' /\ CommandsShownOK'
  <2>1. PICK b \in BOOLEAN : b = (v9[v1] = "yes")
    OBVIOUS
  <2>2. PICK m \in Commands!MiniStates :
               m = [v13 EXCEPT !.heart = b, !.repeat = v5, !.shuffle = v6]
    BY <1>0 DEF CommandsShownOK, Commands!MiniStates, CommandsPlayerOK
  <2>3. m.open = v13.open /\ m.repeat = v5 /\ m.shuffle = v6
    BY <1>0, <2>2 DEF CommandsShownOK, Commands!MiniStates
  <2>4. /\ v2' = v1 /\ v13' = m
        /\ UNCHANGED <<v1, v3, v4, v5, v6, v7, v12>>
    BY <1>4, <2>1, <2>2 DEF Commands!TrackSet
  <2> QED BY <1>0, <1>2, <2>3, <2>4 DEF CommandsPlayerOK, CommandsShownOK, Commands!ShownIsPlayed,
             Commands!Metadata
<1>5. ASSUME Commands!HearRepeat PROVE CommandsPlayerOK' /\ CommandsShownOK'
  <2>1. PICK m \in Commands!MiniStates : m = [v13 EXCEPT !.repeat = v5]
    BY <1>0 DEF CommandsShownOK, Commands!MiniStates, CommandsPlayerOK
  <2>2. m.open = v13.open /\ m.repeat = v5 /\ m.shuffle = v13.shuffle
    BY <1>0, <2>1 DEF CommandsShownOK, Commands!MiniStates
  <2>3. /\ v7' = v7 \ {"repeat"} /\ v13' = m
        /\ UNCHANGED <<v1, v2, v3, v4, v5, v6, v12>>
    BY <1>5, <2>1 DEF Commands!HearRepeat, Commands!RepeatHeard
  <2> QED BY <1>0, <1>2, <2>2, <2>3 DEF CommandsPlayerOK, CommandsShownOK, Commands!ShownIsPlayed,
             Commands!Metadata
<1>6. ASSUME Commands!HearShuffle PROVE CommandsPlayerOK' /\ CommandsShownOK'
  <2>1. PICK m \in Commands!MiniStates : m = [v13 EXCEPT !.shuffle = v6]
    BY <1>0 DEF CommandsShownOK, Commands!MiniStates, CommandsPlayerOK
  <2>2. m.open = v13.open /\ m.repeat = v13.repeat /\ m.shuffle = v6
    BY <1>0, <2>1 DEF CommandsShownOK, Commands!MiniStates
  <2>3. /\ v7' = v7 \ {"shuffle"} /\ v13' = m
        /\ UNCHANGED <<v1, v2, v3, v4, v5, v6, v12>>
    BY <1>6, <2>1 DEF Commands!HearShuffle
  <2> QED BY <1>0, <1>2, <2>2, <2>3 DEF CommandsPlayerOK, CommandsShownOK, Commands!ShownIsPlayed,
             Commands!Metadata
<1> QED BY <1>0, <1>2, <1>3, <1>4, <1>5, <1>6, CommandsInPartsNext DEF Commands!Hears

LEMMA CommandsCycledFacts == CommandsPlayerOK => Commands!Cycled \in 0 .. 2
BY DEF CommandsPlayerOK, Commands!Cycled

\* A command of the desktop or the mini player.
LEMMA CommandsCommandPreserves ==
  ASSUME Commands!CommandsAssumption, Commands!IInv, Commands!Command
  PROVE  Commands!IInv'
<1>0. CommandsPlayerOK /\ CommandsLoveOK /\ CommandsShownOK /\ CommandsKeysOK /\ CommandsCountsOK
  BY CommandsInParts
<1>1. Commands!Act /\ UNCHANGED <<Commands!keys, v21>>
  BY DEF Commands!Command
<1>2. CommandsKeysOK' /\ CommandsCountsOK' /\ v20' \in Nat
  BY <1>0, <1>1, CommandsUnchangedKeeps, CommandsCountsStay DEF CommandsCountsOK
<1>3. ASSUME Commands!ToggleLove("command"), UNCHANGED <<Commands!player, Commands!shown>>
      PROVE  CommandsPlayerOK' /\ CommandsLoveOK' /\ CommandsShownOK'
  <2>1. v9' = v9
    BY <1>3 DEF Commands!ToggleLove
  <2> QED BY <1>0, <1>2, <1>3, <2>1, CommandsToggleBegins, CommandsUnchangedKeeps
<1>4. ASSUME \/ \E on \in BOOLEAN : Commands!Play(on)
             \/ \E d \in BOOLEAN : Commands!SeekTo(d)
             \/ \E s \in Commands!Queue : Commands!MoveTo(s)
             \/ \E b \in BOOLEAN : Commands!Shuffle(b),
             UNCHANGED <<Commands!love, Commands!shown>>
      PROVE  CommandsPlayerOK' /\ CommandsLoveOK' /\ CommandsShownOK'
  <2>1. CommandsPlayerOK' /\ CommandsMoves
    BY <1>0, <1>4, CommandsPlayerMoves
  <2>2. CommandsLoveOK' /\ v9' = v9 /\ v12' = v12 /\ v13' = v13
    BY <1>0, <1>4, CommandsUnchangedKeeps DEF Commands!love, Commands!shown
  <2> QED BY <1>0, <2>1, <2>2, CommandsShownMoves
<1>5. ASSUME NEW r \in 0 .. 2, Commands!Repeat(r), v13' = Commands!MiniState(v9, r),
             UNCHANGED <<Commands!love, v12>>
      PROVE  CommandsPlayerOK' /\ CommandsLoveOK' /\ CommandsShownOK'
  <2>1. CommandsPlayerOK' /\ CommandsMoves /\ v5' = r /\ v6' = v6
    BY <1>0, <1>5, CommandsPlayerMoves DEF Commands!Repeat
  <2>2. CommandsLoveOK' /\ v9' = v9
    BY <1>0, <1>5, CommandsUnchangedKeeps DEF Commands!love
  <2> QED BY <1>0, <1>5, <2>1, <2>2, CommandsShownMoves
<1>6. \/ Commands!ToggleLove("command") /\ UNCHANGED <<Commands!player, Commands!shown>>
      \/ /\ \/ \E on \in BOOLEAN : Commands!Play(on)
            \/ \E d \in BOOLEAN : Commands!SeekTo(d)
            \/ \E s \in Commands!Queue : Commands!MoveTo(s)
            \/ \E b \in BOOLEAN : Commands!Shuffle(b)
         /\ UNCHANGED <<Commands!love, Commands!shown>>
      \/ \E r \in 0 .. 2 : Commands!Repeat(r) /\ v13' = Commands!MiniState(v9, r) /\
           UNCHANGED <<Commands!love, v12>>
  <2>1. v1 < CommandsSongs => v1 + 1 \in Commands!Queue
    BY <1>0 DEF Commands!CommandsAssumption, CommandsPlayerOK, Commands!Queue
  <2>2. v1 > 1 => v1 - 1 \in Commands!Queue
    BY <1>0 DEF Commands!CommandsAssumption, CommandsPlayerOK, Commands!Queue
  <2>3. \/ Commands!ToggleLove("command") /\ UNCHANGED <<Commands!player, Commands!shown>>
        \/ Commands!Play(~v3) /\ UNCHANGED <<Commands!love, Commands!shown>>
        \/ \E d \in BOOLEAN : Commands!SeekTo(d) /\ UNCHANGED <<Commands!love, Commands!shown>>
        \/ v1 < CommandsSongs /\ Commands!MoveTo(v1 + 1) /\
             UNCHANGED <<Commands!love, Commands!shown>>
        \/ (Commands!SeekTo(FALSE) \/ (v1 > 1 /\ Commands!MoveTo(v1 - 1))) /\
             UNCHANGED <<Commands!love, Commands!shown>>
        \/ Commands!Repeat(Commands!Cycled) /\ v13' = Commands!MiniState(v9, Commands!Cycled) /\
             UNCHANGED <<Commands!love, v12>>
        \/ \E r \in 0 .. 2 : Commands!Repeat(r) /\ v13' = Commands!MiniState(v9, r) /\
             UNCHANGED <<Commands!love, v12>>
        \/ Commands!Shuffle(~v6) /\ UNCHANGED <<Commands!love, Commands!shown>>
    BY DEF Commands!Command
  <2>4. PICK b, c \in BOOLEAN : b = ~v3 /\ c = ~v6
    OBVIOUS
  <2> HIDE DEF Commands!ToggleLove
  <2> QED BY <1>0, <2>1, <2>2, <2>3, <2>4, CommandsCycledFacts
<1>7. CommandsPlayerOK' /\ CommandsLoveOK' /\ CommandsShownOK'
  BY <1>3, <1>4, <1>5, <1>6
<1> QED BY <1>2, <1>7, CommandsInPartsNext

LEMMA CommandsPagePreserves ==
  ASSUME Commands!CommandsAssumption, Commands!IInv, Commands!PageControls
  PROVE  Commands!IInv'
<1>0. CommandsPlayerOK /\ CommandsLoveOK /\ CommandsShownOK /\ CommandsKeysOK /\ CommandsCountsOK
  BY CommandsInParts
<1>1. Commands!Act /\ UNCHANGED <<Commands!love, Commands!shown, Commands!keys, v21>>
  BY DEF Commands!PageControls
<1>2. CommandsLoveOK' /\ CommandsKeysOK' /\ CommandsCountsOK' /\ v9' = v9 /\ v12' = v12 /\
        v13' = v13
  BY <1>0, <1>1, CommandsUnchangedKeeps, CommandsCountsStay DEF Commands!love, Commands!shown
<1>3. PICK b \in BOOLEAN : b = ~v6
  OBVIOUS
<1>4. \/ \E s \in Commands!Queue \ {v1} : Commands!MoveTo(s)
      \/ \E r \in 0 .. 2 \ {v5} : Commands!Repeat(r)
      \/ Commands!Shuffle(~v6)
      \/ Commands!SeekTo(TRUE)
  BY DEF Commands!PageControls
<1>5. CommandsPlayerOK' /\ CommandsMoves
  BY <1>0, <1>3, <1>4, CommandsPlayerMoves
<1>6. CommandsShownOK'
  BY <1>0, <1>2, <1>5, CommandsShownMoves
<1> QED BY <1>2, <1>5, <1>6, CommandsInPartsNext

LEMMA CommandsOpenMiniPreserves ==
  ASSUME Commands!CommandsAssumption, Commands!IInv, Commands!OpenMini
  PROVE  Commands!IInv'
<1>0. CommandsPlayerOK /\ CommandsLoveOK /\ CommandsShownOK /\ CommandsKeysOK /\ CommandsCountsOK
  BY CommandsInParts
<1>1. /\ Commands!Act /\ UNCHANGED <<Commands!player, Commands!love, Commands!keys, v21>>
      /\ v12' = Commands!Metadata(v1, v9)
      /\ v13' = [Commands!MiniState(v9, v5) EXCEPT !.open = TRUE]
  BY DEF Commands!OpenMini
<1>2. CommandsPlayerOK' /\ CommandsLoveOK' /\ CommandsKeysOK' /\ CommandsCountsOK'
  BY <1>0, <1>1, CommandsUnchangedKeeps, CommandsCountsStay
<1>3. PICK m \in Commands!MiniStates : m = Commands!MiniState(v9, v5)
  BY <1>0, CommandsMiniFacts DEF CommandsShownOK, CommandsLoveOK, CommandsPlayerOK
<1>4. m.repeat = v5 /\ m.shuffle = v6
  BY <1>0, <1>3, CommandsMiniFacts DEF CommandsShownOK, CommandsLoveOK, CommandsPlayerOK
<1>5. v13' \in Commands!MiniStates /\ v13'.repeat = v5 /\ v13'.shuffle = v6
  BY <1>1, <1>3, <1>4 DEF Commands!MiniStates
<1>6. v12' \in [song : Commands!Queue, rating : Commands!Ratings]
  BY <1>0, <1>1, CommandsMetadataFacts DEF CommandsPlayerOK, CommandsLoveOK
<1>7. UNCHANGED <<v1, v7, v5, v6, v9>>
  BY <1>1 DEF Commands!player, Commands!love
<1>8. CommandsShownOK'
  BY <1>1, <1>5, <1>6, <1>7 DEF CommandsShownOK, Commands!ShownIsPlayed, Commands!Metadata
<1> QED BY <1>2, <1>8, CommandsInPartsNext

\* A key pressed: taken by the capture, or the action it is bound to is run.
LEMMA CommandsPressPreserves ==
  ASSUME Commands!CommandsAssumption, Commands!IInv, NEW k \in CommandsKeys, Commands!Press(k)
  PROVE  Commands!IInv'
<1>0. CommandsPlayerOK /\ CommandsLoveOK /\ CommandsShownOK /\ CommandsKeysOK /\ CommandsCountsOK
  BY CommandsInParts
<1>1. Commands!Act /\ UNCHANGED <<Commands!shown, v21>>
  BY DEF Commands!Press
<1>2. CommandsCountsOK' /\ v20' \in Nat /\ v12' = v12 /\ v13' = v13
  BY <1>0, <1>1, CommandsCountsStay DEF CommandsCountsOK, Commands!shown
<1>3. CASE v16.action # "none"
  <2>1. Commands!Captured(k) /\ UNCHANGED <<Commands!player, Commands!love>>
    BY <1>3 DEF Commands!Press, Commands!Captured
  <2>2. CommandsPlayerOK' /\ CommandsLoveOK' /\ CommandsKeysOK'
    BY <1>0, <1>3, <2>1, CommandsCapturedKeeps, CommandsUnchangedKeeps
  <2>3. v9' = v9
    BY <2>1 DEF Commands!love
  <2> QED BY <1>0, <1>1, <1>2, <2>1, <2>2, <2>3, CommandsUnchangedKeeps, CommandsInPartsNext
<1>4. CASE v16.action = "none"
  <2>1. PICK a \in CommandsActions : Commands!Run(a)
    BY <1>4 DEF Commands!Press
  <2>2. CommandsKeysOK'
    BY <1>0, <1>4, CommandsUnchangedKeeps DEF Commands!Press
  <2>3. CASE a = "love"
    <3>1. Commands!ToggleLove("key") /\ UNCHANGED Commands!player
      BY <2>1, <2>3 DEF Commands!Run
    <3>2. CommandsLoveOK' /\ CommandsPlayerOK'
      BY <1>0, <1>2, <3>1, CommandsToggleBegins, CommandsUnchangedKeeps
    <3>3. v9' = v9
      BY <3>1 DEF Commands!ToggleLove
    <3> QED BY <1>0, <1>1, <1>2, <2>2, <3>1, <3>2, <3>3, CommandsUnchangedKeeps,
               CommandsInPartsNext
  <2>4. CASE a # "love"
    <3>1. UNCHANGED Commands!love /\ (Commands!Play(~v3) \/ \E d \in BOOLEAN : Commands!SeekTo(d))
      BY <2>1, <2>4 DEF Commands!Run
    <3>2. PICK b \in BOOLEAN : b = ~v3
      OBVIOUS
    <3>3. CommandsPlayerOK' /\ CommandsMoves
      BY <1>0, <3>1, <3>2, CommandsPlayerMoves
    <3>4. CommandsLoveOK' /\ v9' = v9
      BY <1>0, <3>1, CommandsUnchangedKeeps DEF Commands!love
    <3>5. CommandsShownOK'
      BY <1>0, <1>2, <3>3, <3>4, CommandsShownMoves
    <3> QED BY <1>2, <2>2, <3>3, <3>4, <3>5, CommandsInPartsNext
  <2> QED BY <2>3, <2>4
<1> QED BY <1>3, <1>4

\* The settings' section: only the keys change.
LEMMA CommandsSettingsPreserve ==
  ASSUME Commands!CommandsAssumption, Commands!IInv,
         Commands!OpenSettings \/ Commands!CloseSettings \/
           (\E a \in CommandsActions : Commands!AskKey(a)) \/ Commands!ResetKeys \/ Commands!Enable
  PROVE  Commands!IInv'
<1>0. CommandsPlayerOK /\ CommandsLoveOK /\ CommandsShownOK /\ CommandsKeysOK /\ CommandsCountsOK
  BY CommandsInParts
<1>1. (Commands!Act \/ v20' = v20) /\
        UNCHANGED <<Commands!player, Commands!love, Commands!shown, v21>>
  BY DEF Commands!OpenSettings, Commands!CloseSettings, Commands!AskKey, Commands!ResetKeys,
     Commands!Enable
<1>2. CommandsKeysOK'
  BY <1>0, CommandsOpenSettingsKeeps, CommandsCloseSettingsKeeps, CommandsAskKeyKeeps,
     CommandsResetKeysKeeps, CommandsEnableKeeps
<1>3. v9' = v9
  BY <1>1 DEF Commands!love
<1> QED BY <1>0, <1>1, <1>2, <1>3, CommandsUnchangedKeeps, CommandsCountsStay, CommandsInPartsNext

LEMMA CommandsStepPreserves ==
  ASSUME Commands!CommandsAssumption, Commands!IInv, Commands!Next \/ UNCHANGED Commands!vars
  PROVE  Commands!IInv'
<1>0. CommandsPlayerOK /\ CommandsLoveOK /\ CommandsShownOK /\ CommandsKeysOK /\ CommandsCountsOK
  BY CommandsInParts
<1>1. CASE UNCHANGED Commands!vars
  <2>1. UNCHANGED <<Commands!player, Commands!love, Commands!shown, Commands!keys, v20, v21>> /\
          v9' = v9
    BY <1>1 DEF Commands!vars, Commands!love
  <2> QED BY <1>0, <2>1, CommandsUnchangedKeeps, CommandsCountsStay, CommandsInPartsNext
<1>2. CASE Commands!RatedElsewhere
  <2>1. PICK s \in Commands!Queue : v8' = [v8 EXCEPT ![s] = ~@] /\ v11' = v11 \union {s}
    BY <1>2 DEF Commands!RatedElsewhere
  <2>2. Commands!Fault /\ UNCHANGED <<Commands!player, v9, v10, Commands!shown, Commands!keys,
          v20>>
    BY <1>2 DEF Commands!RatedElsewhere
  <2>3. CommandsLoveOK'
    BY <1>0, <2>1, <2>2, CommandsRatedKeeps
  <2> QED BY <1>0, <2>2, <2>3, CommandsUnchangedKeeps, CommandsCountsStay, CommandsInPartsNext
<1>3. CASE Commands!Next /\ ~Commands!RatedElsewhere
  BY <1>3, CommandsAnswersPreserve, CommandsHearsPreserve, CommandsPagePreserves,
     CommandsCommandPreserves, CommandsOpenMiniPreserves,
     CommandsPressPreserves, CommandsSettingsPreserve DEF Commands!Next
<1> QED BY <1>1, <1>2, <1>3

LEMMA CommandsConsequences ==
  ASSUME Commands!IInv
  PROVE  Commands!TypeOK /\ Commands!LovedIsRated /\ Commands!ShownIsPlayed /\
           Commands!KeysAreTheDialogs
<1>1. ASSUME NEW s \in Commands!Queue \ v11, v9[s] # "unknown", \A t \in v10 : t.song # s
      PROVE  v9[s] = Commands!YesNo(v8[s])
  BY <1>1 DEF Commands!IInv, Commands!OneToggle
<1> QED BY <1>1 DEF Commands!IInv, Commands!LovedIsRated


-----------------------------------------------------------------------------
(* The theme (ThemeMode), and that its invariant holds at the start and is kept by
   each step. *)
Theme == INSTANCE ThemeMode WITH
  MaxChanges <- ThemeMaxChanges, themeMode <- v1, signedIn <- v2, customCssPath <- v3,
  vars <- v4, fallbackBg <- v5, sheets <- v6, customCssKey <- v7, jobs <- v8, overlap <- v9,
  changes <- v10

LEMMA ThemeInitEstablishes ==
  ASSUME Theme!Init
  PROVE  Theme!IInv
<1>1. v10 = 0 /\ v7 = 0 /\ v6 = {} /\ v8 = {} /\ v1 \in Theme!Modes
  BY Zenon DEF Theme!Init, Theme!None
<1>2. v10 \in Nat /\ v6 \subseteq 1..v10 /\ v7 \in 0..v10
  BY <1>1
<1> QED BY <1>1, <1>2, Zenon DEF Theme!Init, Theme!IInv, Theme!TypeOK, Theme!JobsFitTheMode,
           Theme!Clean

\* What is known of the page and its jobs stays so when a choice is counted.
LEMMA ThemeMoreChanges ==
  ASSUME Theme!TypeOK, Theme!Change
  PROVE  /\ v10' \in Nat /\ v10' = v10 + 1
         /\ 1..v10 \subseteq 1..v10' /\ 0..v10 \subseteq 0..v10'
         /\ v7 \in 0..v10' /\ v6 \subseteq 1..v10' /\ v10' \in 1..v10'
BY DEF Theme!TypeOK, Theme!Change

LEMMA ThemeJobTypes ==
  ASSUME Theme!TypeOK, Theme!Change
  PROVE  LET Jobs == [id : 1..v10', await : {"remove", "insert", "removeThenInsert"},
                      key : 0..v10', next : {"clear", "apply", "nothing"}]
         IN /\ \A a \in {"remove", "insert", "removeThenInsert"},
                 n \in {"clear", "apply", "nothing"} :
                 Theme!Job(a, n) \in Jobs
            /\ v8 \subseteq Jobs
            /\ \A j \in v8 : [j EXCEPT !.next = "nothing"] \in Jobs
<1> DEFINE Jobs == [id : 1..v10', await : {"remove", "insert", "removeThenInsert"},
                    key : 0..v10', next : {"clear", "apply", "nothing"}]
<1>1. \A a \in {"remove", "insert", "removeThenInsert"}, n \in {"clear", "apply", "nothing"} :
        Theme!Job(a, n) \in Jobs
  BY ThemeMoreChanges DEF Theme!Job
<1>2. v8 \subseteq Jobs
  BY ThemeMoreChanges DEF Theme!TypeOK
<1>3. \A j \in v8 : [j EXCEPT !.next = "nothing"] \in Jobs
  BY <1>2
<1> QED BY <1>1, <1>2, <1>3

\* The variables of the theme after each of the three things a handler does with them.
LEMMA ThemeThenFacts ==
  ASSUME Theme!TypeOK, NEW next \in {"clear", "apply", "nothing"}, Theme!Then(next)
  PROVE  /\ v4' \in BOOLEAN /\ v5' \in BOOLEAN
         /\ next = "clear" => ~v4' /\ ~v5'
         /\ next = "nothing" => (v4' <=> v4) /\ (v5' <=> v5)
<1>1. CASE next = "clear"
  <2>1. v4' = FALSE /\ v5' = FALSE
    BY <1>1 DEF Theme!Then
  <2> QED BY <1>1, <2>1, Zenon
<1>2. CASE next = "apply"
  <2>1. v4' = TRUE /\ UNCHANGED v5
    BY <1>2 DEF Theme!Then
  <2> QED BY <1>2, <2>1, Zenon DEF Theme!TypeOK
<1>3. CASE next = "nothing"
  <2>1. UNCHANGED <<v4, v5>>
    BY <1>3 DEF Theme!Then
  <2> QED BY <1>3, <2>1, Zenon DEF Theme!TypeOK
<1> QED BY <1>1, <1>2, <1>3, Zenon

\* A handler that starts while another waits is an overlap; else its own job is the only one.
LEMMA ThemeAwaitFacts ==
  ASSUME Theme!TypeOK, NEW js, Theme!Await(js)
  PROVE  /\ v9' \in BOOLEAN /\ v8' = v8 \union js
         /\ ~v9' => ~v9 /\ v8 = {} /\ v8' = js
<1>1. v9' = (v9 \/ v8 # {}) /\ v8' = v8 \union js
  BY DEF Theme!Await
<1>2. v9' \in BOOLEAN /\ (~v9' => ~v9 /\ v8 = {})
  BY <1>1, Zenon DEF Theme!TypeOK
<1>3. v8 = {} => v8' = js
  BY <1>1
<1> QED BY <1>1, <1>2, <1>3, Zenon

LEMMA ThemeOverPreserves ==
  ASSUME Theme!IInv, NEW j \in v8, Theme!Over(j)
  PROVE  Theme!IInv'
<1>0. Theme!TypeOK /\ Theme!JobsFitTheMode
  BY DEF Theme!IInv
<1>1. /\ j.id \in 1..v10 /\ j.key \in 0..v10 /\ j.next \in {"clear", "apply", "nothing"}
      /\ j.await \in {"remove", "insert", "removeThenInsert"}
  BY <1>0 DEF Theme!TypeOK
<1>a. v6 \subseteq 1..v10 /\ v10 \in Nat
  BY <1>0, Zenon DEF Theme!TypeOK
<1>b. 0 \in 0..v10 /\ 1..v10 \subseteq 0..v10
  BY <1>a
<1>2. /\ UNCHANGED <<v1, v2, v3, v9, v10>>
      /\ Theme!Mode' = Theme!Mode
  BY DEF Theme!Over, Theme!prefs, Theme!Mode
<1>3. CASE j.await = "remove"
  <2>1. v6' = v6 \ {j.key} /\ v7' = Theme!None /\ Theme!Then(j.next) /\ v8' = v8 \ {j}
    BY <1>3 DEF Theme!Over
  <2>2. v4' \in BOOLEAN /\ v5' \in BOOLEAN
    BY <1>0, <1>1, <2>1, ThemeThenFacts, Zenon
  <2>3. v6' \subseteq 1..v10 /\ v7' \in 0..v10
    BY <1>a, <1>b, <2>1, Zenon DEF Theme!None
  <2>4. Theme!TypeOK'
    BY <1>0, <1>2, <2>1, <2>2, <2>3, Zenon DEF Theme!TypeOK
  <2>5. ASSUME ~v9'
        PROVE  /\ v8' = {} /\ v6' = {} /\ Theme!Mode # "custom" /\ Theme!Clean(Theme!Mode, j.next)
               /\ j.next = "apply" => Theme!Mode = "accent"
    <3>1. ~v9
      BY <1>2, <2>5
    <3> QED BY <1>0, <1>3, <2>1, <3>1 DEF Theme!JobsFitTheMode
  <2>6. ASSUME ~v9', Theme!Mode = "blur"
        PROVE  ~v4' /\ ~v5'
    <3>1. j.next \in {"clear", "nothing"} /\ Theme!Clean(Theme!Mode, j.next)
      BY <1>1, <2>5, <2>6
    <3>2. CASE j.next = "clear"
      BY <2>1, <3>2, ThemeThenFacts, <1>0, <1>1, Zenon
    <3>3. CASE j.next = "nothing"
      <4>1. "nothing" # "clear"
        OBVIOUS
      <4> QED BY <2>1, <2>6, <3>1, <3>3, <4>1, ThemeThenFacts, <1>0, <1>1, Zenon DEF Theme!Clean
    <3> QED BY <3>1, <3>2, <3>3
  <2>7. Theme!JobsFitTheMode'
    BY <1>2, <2>5, <2>6, Zenon DEF Theme!JobsFitTheMode, Theme!Clean
  <2> QED BY <2>4, <2>7 DEF Theme!IInv
<1>4. CASE j.await = "removeThenInsert"
  <2> DEFINE k == [j EXCEPT !.await = "insert"]
  <2>1. /\ v6' = v6 \ {j.key} /\ v7' = Theme!None
        /\ v8' = (v8 \ {j}) \union {k} /\ UNCHANGED <<v4, v5>>
    BY <1>4 DEF Theme!Over
  <2>2. v6' \subseteq 1..v10 /\ v7' \in 0..v10
    BY <1>a, <1>b, <2>1, Zenon DEF Theme!None
  <2>3. /\ k \in [id : 1..v10, await : {"remove", "insert", "removeThenInsert"},
                  key : 0..v10, next : {"clear", "apply", "nothing"}]
        /\ k.await = "insert"
    BY <1>0 DEF Theme!TypeOK
  <2> HIDE DEF k
  <2>4. Theme!TypeOK'
    BY <1>0, <1>2, <2>1, <2>2, <2>3, Zenon DEF Theme!TypeOK
  <2>5. ASSUME ~v9'
        PROVE  v8' = {k} /\ v6' = {} /\ Theme!Mode = "custom" /\ ~v4
    <3>1. ~v9
      BY <1>2, <2>5
    <3> QED BY <1>0, <1>4, <2>1, <3>1 DEF Theme!JobsFitTheMode
  <2>6. Theme!JobsFitTheMode'
    <3> SUFFICES ASSUME ~v9'
                 PROVE  Theme!JobsFitTheMode'
      BY DEF Theme!JobsFitTheMode
    <3> QED BY <1>2, <2>1, <2>3, <2>5 DEF Theme!JobsFitTheMode
  <2> QED BY <2>4, <2>6 DEF Theme!IInv
<1>5. CASE j.await = "insert"
  <2>1. /\ v6' = v6 \union {j.id} /\ v7' = j.id
        /\ v8' = v8 \ {j} /\ UNCHANGED <<v4, v5>>
    BY <1>5 DEF Theme!Over
  <2>2. v6' \subseteq 1..v10 /\ v7' \in 0..v10
    BY <1>a, <1>b, <1>1, <2>1, Zenon
  <2>4. Theme!TypeOK'
    BY <1>0, <1>2, <2>1, <2>2, Zenon DEF Theme!TypeOK
  <2>5. ASSUME ~v9'
        PROVE  v8' = {} /\ v6' = {j.id} /\ Theme!Mode = "custom" /\ ~v4
    <3>1. ~v9
      BY <1>2, <2>5
    <3> QED BY <1>0, <1>5, <2>1, <3>1 DEF Theme!JobsFitTheMode
  <2>6. Theme!JobsFitTheMode'
    <3> SUFFICES ASSUME ~v9'
                 PROVE  Theme!JobsFitTheMode'
      BY DEF Theme!JobsFitTheMode
    <3> QED BY <1>2, <2>1, <2>5 DEF Theme!JobsFitTheMode, Theme!Clean
  <2> QED BY <2>4, <2>6 DEF Theme!IInv
<1> QED BY <1>1, <1>3, <1>4, <1>5

LEMMA ThemeHandlersPreserve ==
  ASSUME Theme!IInv, Theme!AuthState \/ Theme!SetPalette \/ Theme!ImportCss \/ Theme!NewPage \/
         \E mode \in Theme!Modes : Theme!SetMode(mode)
  PROVE  Theme!IInv'
<1>0. Theme!TypeOK /\ Theme!JobsFitTheMode
  BY DEF Theme!IInv
<1>1. Theme!Change
  BY DEF Theme!AuthState, Theme!SetPalette, Theme!ImportCss, Theme!NewPage, Theme!SetMode
<1> DEFINE Jobs == [id : 1..v10', await : {"remove", "insert", "removeThenInsert"},
                    key : 0..v10', next : {"clear", "apply", "nothing"}]
           Goal == /\ v4' \in BOOLEAN /\ v5' \in BOOLEAN /\ v9' \in BOOLEAN
                   /\ v8' \subseteq Jobs /\ Theme!JobsFitTheMode'
<1>2. /\ v1' \in Theme!Modes /\ v2' \in BOOLEAN /\ v3' \in BOOLEAN
  BY <1>0, Zenon DEF Theme!AuthState, Theme!SetPalette, Theme!ImportCss, Theme!NewPage,
     Theme!SetMode, Theme!prefs, Theme!TypeOK
<1>3. UNCHANGED v7 /\ v6' \subseteq v6
  BY DEF Theme!AuthState, Theme!SetPalette, Theme!ImportCss, Theme!NewPage, Theme!SetMode
<1>4. v6' \subseteq 1..v10' /\ v7' \in 0..v10' /\ v10' \in Nat
  BY <1>0, <1>1, <1>3, ThemeMoreChanges
<1>a. ASSUME ~v9, v8 = {}
      PROVE  /\ v6 \subseteq {v7} /\ (Theme!Mode = "custom" => ~v4)
             /\ (Theme!Mode = "blur" => ~v4 /\ ~v5) /\ (Theme!Mode # "custom" => v6 = {})
             /\ v7 = Theme!None => v6 = {}
  <2>1. "nothing" # "clear"
    OBVIOUS
  <2>2. /\ v6 \subseteq {v7} /\ (Theme!Mode = "custom" => ~v4)
        /\ (Theme!Mode = "blur" => ~v4 /\ ~v5) /\ (Theme!Mode # "custom" => v6 = {})
    BY <1>0, <1>a, <2>1, Zenon DEF Theme!JobsFitTheMode, Theme!Clean
  <2>3. v6 \subseteq 1..v10 /\ 0 \notin 1..v10
    BY <1>0, ThemeMoreChanges, <1>1 DEF Theme!TypeOK
  <2> QED BY <2>2, <2>3 DEF Theme!None
<1> DEFINE Calm == /\ Theme!Mode' = "blur" => ~v4' /\ ~v5'
                   /\ Theme!Mode' # "custom" => v6' = {}
           Wanted(js) == /\ \A i, j \in js : i = j
                         /\ Theme!Mode' = "custom" => ~v4'
                         /\ js = {} => Calm
                         /\ \A j \in js :
                              /\ j.key = v7
                              /\ j.await = "remove" =>
                                   /\ Theme!Mode' # "custom" /\ Theme!Clean(Theme!Mode, j.next)'
                                   /\ j.next = "apply" => Theme!Mode' = "accent"
                              /\ j.await = "removeThenInsert" => Theme!Mode' = "custom"
                              /\ j.await = "insert" => Theme!Mode' = "custom" /\ v6' = {}
<1>b. ASSUME NEW js \in SUBSET Jobs, v9' = (v9 \/ v8 # {}),
             v8 = {} => v8' = js, v8' \subseteq Jobs,
             v4' \in BOOLEAN, v5' \in BOOLEAN,
             ~v9 /\ v8 = {} => Wanted(js)
      PROVE  Goal
  <2>1. v9' \in BOOLEAN /\ (~v9' => ~v9 /\ v8 = {})
    BY <1>0, <1>b, Zenon DEF Theme!TypeOK
  <2>2. ASSUME ~v9'
        PROVE  v8' = js /\ Wanted(js) /\ v6' \subseteq {v7'}
    BY <1>3, <1>a, <1>b, <2>1, <2>2
  <2>3. Theme!JobsFitTheMode'
    <3>1. "nothing" # "clear"
      OBVIOUS
    <3> SUFFICES ASSUME ~v9'
                 PROVE  Theme!JobsFitTheMode'
      BY DEF Theme!JobsFitTheMode
    <3>2. v8' = js /\ Wanted(js) /\ v6' \subseteq {v7'}
      BY <2>2
    <3>3. /\ \A i, j \in v8' : i = j
          /\ Theme!Mode' = "custom" => ~v4'
          /\ v8' = {} => Theme!Clean(Theme!Mode, "nothing")' /\
               (Theme!Mode' # "custom" => v6' = {})
      <4>1. \A i, j \in v8' : i = j
        BY <3>2
      <4>2. Theme!Mode' = "custom" => ~v4'
        BY <3>2, Zenon
      <4>3. ASSUME v8' = {}
            PROVE  Calm
        <5> HIDE DEF Calm
        <5> QED BY <3>2, <4>3
      <4> QED BY <4>1, <4>2, <4>3, Zenon DEF Theme!Clean
    <3>4. ASSUME NEW j \in v8'
          PROVE  /\ j.await = "remove" =>
                      /\ Theme!Mode' # "custom" /\ j.key = v7' /\ Theme!Clean(Theme!Mode, j.next)'
                      /\ j.next = "apply" => Theme!Mode' = "accent"
                 /\ j.await = "removeThenInsert" => Theme!Mode' = "custom" /\ j.key = v7'
                 /\ j.await = "insert" => Theme!Mode' = "custom" /\ v6' = {}
      BY <1>3, <3>2, Zenon
    <3> QED BY <3>2, <3>3, <3>4, Zenon DEF Theme!JobsFitTheMode
  <2> QED BY <1>b, <2>1, <2>3
<1>c. \A a, n : /\ Theme!Job(a, n).await = a /\ Theme!Job(a, n).next = n
                /\ Theme!Job(a, n).key = v7
  BY DEF Theme!Job
<1> HIDE DEF Goal, Wanted, Jobs
<1>d. Theme!Mode \in {"blur", "accent", "custom"} /\ Theme!Mode' \in {"blur", "accent", "custom"}
  BY <1>0, <1>2 DEF Theme!Mode, Theme!Resolved, Theme!Modes, Theme!TypeOK
\* The jobs a handler can leave.
<1>e. ASSUME NEW a \in {"remove", "insert", "removeThenInsert"},
             NEW n \in {"clear", "apply", "nothing"}
      PROVE  {Theme!Job(a, n)} \in SUBSET Jobs
  BY <1>0, <1>1, <1>e, ThemeJobTypes DEF Jobs
<1>f. {} \in SUBSET Jobs /\ v8 \subseteq Jobs
  BY <1>0, <1>1, ThemeJobTypes DEF Jobs
<1>g. ASSUME NEW js \in SUBSET Jobs, Theme!Await(js), v4' \in BOOLEAN, v5' \in BOOLEAN,
             ~v9 /\ v8 = {} => Wanted(js)
      PROVE  Goal
  <2>1. v8' \subseteq Jobs /\ (v8 = {} => v8' = js) /\ v9' = (v9 \/ v8 # {})
    BY <1>f, <1>g DEF Theme!Await
  <2> QED BY <1>b, <1>g, <2>1
\* With no job to do the variables fit the mode already.
<1>h. ASSUME v4' \in BOOLEAN, v5' \in BOOLEAN, Theme!Await({}),
             ~v9 /\ v8 = {} =>
               /\ Theme!Mode' = "custom" => ~v4'
               /\ Theme!Mode' = "blur" => ~v4' /\ ~v5'
               /\ Theme!Mode' # "custom" => v6' = {}
      PROVE  Goal
  <2>1. ~v9 /\ v8 = {} => Wanted({})
    BY <1>h, Zenon DEF Wanted
  <2> QED BY <1>f, <1>g, <1>h, <2>1
\* The custom sheet is inserted.
<1>i. ASSUME NEW path, Theme!Inject(path), v4' \in BOOLEAN, v5' \in BOOLEAN, v6' = v6,
             Theme!Mode' = "custom", ~v9 /\ v8 = {} => ~v4'
      PROVE  Goal
  <2>0. "custom" # "blur" /\ "custom" # "remove" /\ "insert" # "remove" /\
          "insert" # "removeThenInsert"
        /\ "removeThenInsert" # "remove"
    OBVIOUS
  <2>1. CASE ~path
    BY <1>h, <1>i, <2>0, <2>1, Zenon DEF Theme!Inject
  <2>2. CASE path /\ v7 # Theme!None
    <3> DEFINE js == {Theme!Job("removeThenInsert", "nothing")}
    <3>1. Theme!Await(js) /\ js \in SUBSET Jobs
      BY <1>e, <1>i, <2>2 DEF Theme!Inject
    <3>2. ~v9 /\ v8 = {} => Wanted(js)
      BY <1>c, <1>i, <2>0 DEF Wanted
    <3> QED BY <1>g, <1>i, <3>1, <3>2
  <2>3. CASE path /\ v7 = Theme!None
    <3> DEFINE js == {Theme!Job("insert", "nothing")}
    <3>1. Theme!Await(js) /\ js \in SUBSET Jobs
      BY <1>e, <1>i, <2>3 DEF Theme!Inject
    <3>2. ~v9 /\ v8 = {} => v6' = {}
      BY <1>a, <1>i, <2>3, Zenon
    <3>3. ~v9 /\ v8 = {} => Wanted(js)
      BY <1>c, <1>i, <2>0, <3>2 DEF Wanted
    <3> QED BY <1>g, <1>i, <3>1, <3>3
  <2> QED BY <2>1, <2>2, <2>3, Zenon
\* The custom sheet is removed, and the variables set then.
<1>j. ASSUME NEW next \in {"clear", "apply", "nothing"}, Theme!Await({Theme!Job("remove", next)}),
             v4' \in BOOLEAN, v5' \in BOOLEAN, Theme!Mode' # "custom",
             next = "apply" => Theme!Mode' = "accent",
             ~v9 /\ v8 = {} /\ Theme!Mode' = "blur" /\ next # "clear" => ~v4' /\ ~v5'
      PROVE  Goal
  <2>0. "insert" # "remove" /\ "removeThenInsert" # "remove"
    OBVIOUS
  <2> DEFINE js == {Theme!Job("remove", next)}
  <2>1. Theme!Await(js) /\ js \in SUBSET Jobs
    BY <1>e, <1>j
  <2>2. ~v9 /\ v8 = {} => Theme!Clean(Theme!Mode, next)'
    BY <1>j, Zenon DEF Theme!Clean
  <2>3. ~v9 /\ v8 = {} => Wanted(js)
    <3> SUFFICES ASSUME ~v9, v8 = {}
                 PROVE  Wanted(js)
      OBVIOUS
    <3>1. \A j \in js : j.await = "remove" /\ j.next = next /\ j.key = v7
      BY <1>c
    <3>2. (\A i, j \in js : i = j) /\ js # {}
      OBVIOUS
    <3> HIDE DEF js
    <3>3. \A j \in js : Theme!Clean(Theme!Mode, j.next)' /\
            (j.next = "apply" => Theme!Mode' = "accent")
      BY <1>j, <2>2, <3>1
    <3> QED BY <1>j, <2>0, <3>1, <3>2, <3>3, Zenon DEF Wanted
  <2> QED BY <1>g, <1>j, <2>1, <2>3
<1>5. ASSUME Theme!AuthState PROVE Goal
  <2>1. PICK m : m = Theme!Mode'
    OBVIOUS
  <2>2. /\ Theme!ApplyThemeMode(m) /\ v2' = ~v2 /\ v1' = v1 /\ v6' = v6
    BY <1>5, <2>1 DEF Theme!AuthState, Theme!Mode
  <2>3. m # "blur" => Theme!Mode = "blur"
    BY <1>0, <2>1, <2>2 DEF Theme!Mode, Theme!Resolved, Theme!TypeOK
  <2>4. CASE m = "accent"
    <3>1. Theme!Await({}) /\ v4' = TRUE /\ UNCHANGED v5
      BY <2>2, <2>4 DEF Theme!ApplyThemeMode, Theme!Then
    <3>2. v4' \in BOOLEAN /\ v5' \in BOOLEAN
      BY <1>0, <3>1, Zenon DEF Theme!TypeOK
    <3>3. Theme!Mode' # "custom" /\ Theme!Mode' # "blur" /\ Theme!Mode # "custom"
      BY <2>1, <2>3, <2>4
    <3> QED BY <1>a, <1>h, <2>2, <3>1, <3>2, <3>3, Zenon
  <2>5. CASE m = "custom"
    <3>1. Theme!Inject(v3) /\ v5' = TRUE /\ UNCHANGED v4
      BY <2>2, <2>5 DEF Theme!ApplyThemeMode
    <3>2. v4' \in BOOLEAN /\ v5' \in BOOLEAN
      BY <1>0, <3>1, Zenon DEF Theme!TypeOK
    <3>3. Theme!Mode = "blur" /\ Theme!Mode' = "custom"
      BY <2>1, <2>3, <2>5
    <3> QED BY <1>a, <1>i, <2>2, <3>1, <3>2, <3>3, Zenon
  <2>6. CASE m = "blur"
    <3>1. /\ Theme!Await(IF v7 = Theme!None THEN {} ELSE {Theme!Job("remove", "nothing")})
          /\ v4' = FALSE /\ v5' = FALSE
      BY <2>2, <2>6 DEF Theme!ApplyThemeMode, Theme!Then
    <3>2. v4' \in BOOLEAN /\ v5' \in BOOLEAN
      BY <3>1, Zenon
    <3>3. Theme!Mode' = "blur" /\ Theme!Mode' # "custom"
      BY <2>1, <2>6
    <3>4. CASE v7 = Theme!None
      <4>1. Theme!Await({})
        BY <3>1, <3>4
      <4> QED BY <1>a, <1>h, <2>2, <3>1, <3>2, <3>3, <3>4, <4>1, Zenon
    <3>5. CASE v7 # Theme!None
      <4>1. Theme!Await({Theme!Job("remove", "nothing")}) /\ "nothing" # "apply"
        BY <3>1, <3>5
      <4> QED BY <1>j, <3>1, <3>2, <3>3, <4>1, Zenon
    <3> QED BY <3>4, <3>5
  <2> QED BY <1>d, <2>1, <2>4, <2>5, <2>6
<1>6. ASSUME Theme!SetPalette PROVE Goal
  <2>1. Theme!Await({}) /\ v4' = TRUE /\ UNCHANGED v5 /\ v6' = v6
    BY <1>6 DEF Theme!SetPalette, Theme!Then
  <2>2. v4' \in BOOLEAN /\ v5' \in BOOLEAN
    BY <1>0, <2>1, Zenon DEF Theme!TypeOK
  <2>3. Theme!Mode = "accent" /\ Theme!Mode' = "accent"
    BY <1>6 DEF Theme!SetPalette, Theme!Mode, Theme!Resolved, Theme!prefs
  <2>4. Theme!Mode # "custom" /\ Theme!Mode' # "custom" /\ Theme!Mode' # "blur"
    BY <2>3
  <2> QED BY <1>a, <1>h, <2>1, <2>2, <2>4, Zenon
<1>7. ASSUME Theme!ImportCss PROVE Goal
  <2>1. Theme!Inject(TRUE) /\ UNCHANGED <<v4, v5, v6>>
    BY <1>7 DEF Theme!ImportCss
  <2>2. v4' \in BOOLEAN /\ v5' \in BOOLEAN
    BY <1>0, <2>1, Zenon DEF Theme!TypeOK
  <2>3. Theme!Mode = "custom" /\ Theme!Mode' = "custom"
    BY <1>7 DEF Theme!ImportCss, Theme!Mode, Theme!Resolved
  <2> QED BY <1>a, <1>i, <2>1, <2>2, <2>3, Zenon
<1>8. ASSUME Theme!NewPage PROVE Goal
  <2> DEFINE kept == {[j EXCEPT !.next = "nothing"] : j \in {i \in v8 : i.await = "remove"}}
             mine == CASE Theme!Mode = "custom" /\ v3 ->
                            {Theme!Job(IF v7 # Theme!None THEN "removeThenInsert" ELSE "insert",
                              "nothing")}
                       [] Theme!Mode = "blur" /\
                         v7 # Theme!None -> {Theme!Job("remove", "nothing")}
                       [] OTHER -> {}
  <2>1. /\ v6' = {} /\ UNCHANGED <<v1, v2, v3, v7>>
        /\ v8' = kept \union mine /\ v9' = (v9 \/ v8 # {})
        /\ v4' = (Theme!Mode = "accent") /\ v5' = (Theme!Mode = "custom")
    BY <1>8 DEF Theme!NewPage, Theme!Mode, Theme!prefs
  <2>2. Theme!Mode' = Theme!Mode
    BY <2>1 DEF Theme!Mode
  <2>3. kept \subseteq Jobs
    BY <1>0, <1>1, ThemeJobTypes DEF Jobs
  <2>4. v8 = {} => kept = {}
    OBVIOUS
  <2>5. v4' \in BOOLEAN /\ v5' \in BOOLEAN
    BY <2>1, Zenon
  <2>6. /\ Theme!Mode' = "custom" => ~v4'
        /\ Theme!Mode' = "blur" => ~v4' /\ ~v5'
    <3>1. "custom" # "accent" /\ "blur" # "accent" /\ "blur" # "custom"
      OBVIOUS
    <3> QED BY <2>1, <2>2, <3>1, Zenon
  <2>7. ASSUME NEW a \in {"remove", "removeThenInsert", "insert"},
               mine = {Theme!Job(a, "nothing")},
               a = "remove" => Theme!Mode = "blur", a # "remove" => Theme!Mode = "custom"
        PROVE  mine \in SUBSET Jobs /\ Wanted(mine)
    <3>1. mine \in SUBSET Jobs
      BY <1>e, <2>7
    <3>2. \A j \in mine : j.await = a /\ j.next = "nothing" /\ j.key = v7
      BY <1>c, <2>7
    <3>3. (\A i, j \in mine : i = j) /\ mine # {}
      BY <2>7
    <3>4. /\ a = "remove" => Theme!Mode' # "custom" /\ Theme!Mode' = "blur"
          /\ a # "remove" => Theme!Mode' = "custom"
          /\ "nothing" # "apply" /\ "removeThenInsert" # "remove" /\ "insert" # "remove"
      BY <2>2, <2>7
    <3>5. Theme!Clean(Theme!Mode, "nothing")'
      BY <2>6, Zenon DEF Theme!Clean
    <3> HIDE DEF mine
    <3>6. \A j \in mine : Theme!Clean(Theme!Mode, j.next)'
      BY <3>2, <3>5
    <3>7. Wanted(mine)
      BY <2>1, <2>6, <3>2, <3>3, <3>4, <3>6, Zenon DEF Wanted
    <3> QED BY <3>1, <3>7
  <2>8. mine \in SUBSET Jobs /\ Wanted(mine)
    <3>1. CASE Theme!Mode = "custom" /\ v3
      <4>1. mine = {Theme!Job(IF v7 # Theme!None THEN "removeThenInsert" ELSE "insert", "nothing")}
        BY <3>1
      <4> HIDE DEF mine
      <4>2. CASE v7 # Theme!None
        BY <2>7, <3>1, <4>1, <4>2
      <4>3. CASE v7 = Theme!None
        BY <2>7, <3>1, <4>1, <4>3
      <4> QED BY <4>2, <4>3
    <3>2. CASE Theme!Mode = "blur" /\ v7 # Theme!None
      <4>1. mine = {Theme!Job("remove", "nothing")}
        BY <3>2
      <4> HIDE DEF mine
      <4> QED BY <2>7, <3>2, <4>1
    <3>3. CASE ~(Theme!Mode = "custom" /\ v3) /\ ~(Theme!Mode = "blur" /\ v7 # Theme!None)
      <4>1. mine = {}
        BY <3>3
      <4>2. Wanted({})
        BY <2>1, <2>6, Zenon DEF Wanted
      <4> QED BY <1>f, <4>1, <4>2
    <3> QED BY <3>1, <3>2, <3>3
  <2> HIDE DEF mine, kept
  <2>9. v8' \subseteq Jobs /\ (v8 = {} => v8' = mine)
    BY <2>1, <2>3, <2>4, <2>8
  <2> QED BY <1>b, <2>1, <2>5, <2>8, <2>9
<1>9. ASSUME NEW mode \in Theme!Modes, Theme!SetMode(mode)
      PROVE  Goal
  <2>0. mode \in {"blur", "accent", "custom"}
    BY DEF Theme!Modes
  <2>1. Theme!Mode' = mode /\ UNCHANGED <<v6, v7>>
    BY <1>9 DEF Theme!SetMode, Theme!Mode, Theme!Resolved
  <2>2. ASSUME NEW next \in {"clear", "apply"}, Theme!ClearCssThen(next),
               next = "clear" => mode = "blur", next = "apply" => mode = "accent"
        PROVE  Goal
    <3>1. mode # "custom" /\ (mode = "blur" => next = "clear")
      BY <2>2
    <3>2. CASE v7 = Theme!None
      <4>1. Theme!Await({}) /\ Theme!Then(next)
        BY <2>2, <3>2 DEF Theme!ClearCssThen
      <4>2. /\ v4' \in BOOLEAN /\ v5' \in BOOLEAN
            /\ next = "clear" => ~v4' /\ ~v5'
        BY <1>0, <4>1, ThemeThenFacts
      <4> QED BY <1>a, <1>h, <2>1, <3>1, <3>2, <4>1, <4>2, Zenon
    <3>3. CASE v7 # Theme!None
      <4>1. Theme!Await({Theme!Job("remove", next)}) /\ UNCHANGED <<v4, v5>>
        BY <2>2, <3>3 DEF Theme!ClearCssThen
      <4>2. v4' \in BOOLEAN /\ v5' \in BOOLEAN
        BY <1>0, <4>1, Zenon DEF Theme!TypeOK
      <4>3. next \in {"clear", "apply", "nothing"}
        OBVIOUS
      <4> QED BY <1>j, <2>1, <2>2, <3>1, <4>1, <4>2, <4>3, Zenon
    <3> QED BY <3>2, <3>3
  <2>3. CASE mode = "accent"
    <3>1. Theme!ClearCssThen("apply") /\ "apply" # "clear" /\ "apply" \in {"clear", "apply"}
      BY <1>9, <2>3 DEF Theme!SetMode
    <3> QED BY <2>2, <2>3, <3>1, Zenon
  <2>4. CASE mode = "blur"
    <3>1. Theme!ClearCssThen("clear") /\ "apply" # "clear" /\ "clear" \in {"clear", "apply"}
      BY <1>9, <2>4 DEF Theme!SetMode
    <3> QED BY <2>2, <2>4, <3>1, Zenon
  <2>5. CASE mode = "custom"
    <3>1. Theme!Inject(v3) /\ v4' = FALSE /\ v5' = TRUE
      BY <1>9, <2>5 DEF Theme!SetMode
    <3>2. v4' \in BOOLEAN /\ v5' \in BOOLEAN
      BY <3>1, Zenon
    <3> QED BY <1>i, <2>1, <2>5, <3>1, <3>2, Zenon
  <2> QED BY <2>0, <2>3, <2>4, <2>5
<1>10. Goal
  BY <1>5, <1>6, <1>7, <1>8, <1>9
<1> QED BY <1>0, <1>2, <1>4, <1>10, Zenon DEF Theme!IInv, Theme!TypeOK, Goal, Jobs

LEMMA ThemeStepPreserves ==
  Theme!IInv /\ [Theme!Next]_(Theme!allVars) => Theme!IInv'
<1> SUFFICES ASSUME Theme!IInv, [Theme!Next]_(Theme!allVars)
             PROVE  Theme!IInv'
  OBVIOUS
<1>1. CASE UNCHANGED Theme!allVars
  BY <1>1, Zenon DEF Theme!allVars, Theme!prefs, Theme!page, Theme!IInv, Theme!TypeOK,
     Theme!JobsFitTheMode, Theme!Clean, Theme!Mode
<1>2. CASE Theme!Next
  BY <1>2, ThemeOverPreserves, ThemeHandlersPreserve, Zenon DEF Theme!Next
<1> QED BY <1>1, <1>2

LEMMA ThemeConsequences ==
  ASSUME Theme!IInv
  PROVE  Theme!TypeOK /\ Theme!ThemeIsShown
<1>1. Theme!TypeOK /\ Theme!JobsFitTheMode
  BY DEF Theme!IInv
<1> SUFFICES ASSUME v8 = {}, ~v9
             PROVE  Theme!ThemeIsShown
  BY <1>1, Zenon DEF Theme!ThemeIsShown
<1>2. "nothing" # "clear"
  OBVIOUS
<1>3. /\ v6 \subseteq {v7} /\ (Theme!Mode = "custom" => ~v4)
      /\ Theme!Clean(Theme!Mode, "nothing") /\ (Theme!Mode # "custom" => v6 = {})
  BY <1>1, Zenon DEF Theme!JobsFitTheMode
<1>4. \A k, l \in v6 : k = l
  BY <1>3
<1> QED BY <1>1, <1>2, <1>3, <1>4, Zenon DEF Theme!ThemeIsShown, Theme!Clean


-----------------------------------------------------------------------------
(* Levels (AudioLevels), and that its invariant holds at the start and is kept by
   each step. *)
Levels == INSTANCE AudioLevels WITH
  Tracks <- LevelsTracks, Lossless <- LevelsLossless, Soft <- LevelsSoft,
  MaxUser <- LevelsMaxUser, MaxPosts <- LevelsMaxPosts, track <- v1, path <- v2, enabled <- v3,
  factor <- v4, gain <- v5, graph <- v6, fetches <- v7, volume <- v8, loads <- v9, posts <- v10,
  heard <- v11, posted <- v12, user <- v13, calls <- v14, strayed <- v15, decodes <- v16,
  planned <- v17, planSession <- v18, armed <- v19, fade <- v20, untold <- v21

LEMMA LevelsInitEstablishes ==
  ASSUME Levels!LevelsAssumption, Levels!Init
  PROVE  Levels!IInv
<1>1. v11 \in [volume : Nat, factor : {Levels!Unity} \union LevelsTracks] /\ v8 \in Nat /\
        v14 \in Nat
  BY DEF Levels!Init
<1>2. Levels!TypeOK
  <2>0. LevelsMaxPosts \in Nat /\ LevelsMaxUser \in Nat /\ Levels!Cardinality(LevelsTracks) \in Nat
    BY DEF Levels!LevelsAssumption
  <2>1. v12 \in 0..LevelsMaxPosts /\ v13 \in 0..LevelsMaxUser /\
          v1 \in 0..Levels!Cardinality(LevelsTracks)
    <3>1. v12 = 0 /\ v13 = 0 /\ v1 = 0
      BY DEF Levels!Init
    <3> QED BY <2>0, <3>1
  <2> QED BY <1>1, <2>1, ZenonT(60) DEF Levels!Init, Levels!TypeOK
<1>3. Levels!FactorIsOwn /\ Levels!GainNeedsGraph /\ Levels!PostsAreNew /\ Levels!PostsNumbered
  BY DEF Levels!Init, Levels!FactorIsOwn, Levels!GainNeedsGraph, Levels!PostsAreNew,
     Levels!PostsNumbered
<1> QED BY <1>2, <1>3 DEF Levels!Init, Levels!IInv, Levels!FadeIsOwn

LevelsFetching == [id : Nat, track : LevelsTracks, pc : {"fetch", "resume"}]
LevelsLoading == [track : LevelsTracks, volume : Nat]
LevelsPosting == [n : Nat, volume : Nat, factor : {Levels!Unity} \union LevelsTracks]

\* A post: what is on its way is then the one made now, or two have crossed.
LEMMA LevelsPosted ==
  ASSUME Levels!TypeOK, Levels!PostsNumbered, NEW v \in Nat,
         NEW f \in {Levels!Unity} \union LevelsTracks,
         LevelsMaxPosts \in Nat, Levels!Post(v, f)
  PROVE  /\ v10' \subseteq LevelsPosting /\ v12' \in 0..LevelsMaxPosts
         /\ v10' # {} /\ Levels!PostsNumbered'
         /\ ~Levels!Crosses => \A p \in v10' : p.volume = v /\ p.factor = f
<1> DEFINE new == [n |-> v12 + 1, volume |-> v, factor |-> f]
<1>1. v10' = v10 \union {new} /\ v12' = v12 + 1 /\ v12 < LevelsMaxPosts
  BY DEF Levels!Post
<1>2. v12 \in 0..LevelsMaxPosts /\ v10 \subseteq LevelsPosting
  BY Zenon DEF Levels!TypeOK, LevelsPosting
<1>3. v12 + 1 \in Nat /\ v12 + 1 \in 0..LevelsMaxPosts
  BY <1>1, <1>2
<1>4. new \in LevelsPosting /\ new.n = v12 + 1 /\ new.volume = v /\ new.factor = f
  BY <1>3 DEF LevelsPosting
<1> HIDE DEF new
<1>5. \A p \in v10 : p.n \in Nat /\ p.n <= v12
  BY <1>2 DEF LevelsPosting, Levels!PostsNumbered
<1>6. ~Levels!Crosses => v10 = {}
  BY DEF Levels!Crosses
<1>7. Levels!PostsNumbered'
  BY <1>1, <1>2, <1>4, <1>5 DEF Levels!PostsNumbered
<1> QED BY <1>1, <1>2, <1>3, <1>4, <1>6, <1>7

LEMMA LevelsStepPreserves ==
  ASSUME Levels!LevelsAssumption
  PROVE  Levels!IInv /\ [Levels!Next]_(Levels!vars) => Levels!IInv'
<1> SUFFICES ASSUME Levels!IInv, [Levels!Next]_(Levels!vars) PROVE Levels!IInv'
  OBVIOUS
<1>0. /\ Levels!TypeOK /\ Levels!FactorIsOwn /\ Levels!GainNeedsGraph /\ Levels!PostsAreNew
      /\ Levels!PostsNumbered
      /\ v17 = v18 /\ Levels!FadeIsOwn /\ (v2 # "none" => v1 # 0)
      /\ LevelsMaxPosts \in Nat /\ LevelsMaxUser \in Nat
      /\ LevelsTracks = 1..Levels!Cardinality(LevelsTracks)
      /\ Levels!Cardinality(LevelsTracks) \in Nat
      /\ v1 # 0 => v1 \in LevelsTracks
  <2>1. v1 \in 0..Levels!Cardinality(LevelsTracks)
    BY Zenon DEF Levels!IInv, Levels!TypeOK
  <2>2. LevelsTracks = 1..Levels!Cardinality(LevelsTracks) /\
          Levels!Cardinality(LevelsTracks) \in Nat /\ LevelsMaxPosts \in Nat
        /\ LevelsMaxUser \in Nat
    BY DEF Levels!LevelsAssumption
  <2>3. v1 # 0 => v1 \in LevelsTracks
    BY <2>1, <2>2
  <2> QED BY <2>2, <2>3, Zenon DEF Levels!IInv
\* What a step leaves alone.
<1> DEFINE
  PlanHolds == /\ v17 \in {Levels!None} \union LevelsTracks
               /\ v18 \in {Levels!None} \union LevelsTracks
               /\ v20 \in {Levels!None} \union LevelsTracks /\ v19 \in BOOLEAN
               /\ v16 \subseteq LevelsTracks
               /\ v17 = v18 /\ Levels!FadeIsOwn
  SoundTypes == /\ v1 \in 0..Levels!Cardinality(LevelsTracks) /\ v2 \in {"none", "vlc", "mse"}
                /\ v4 \in {Levels!Unity} \union LevelsTracks
                /\ v5 \in {Levels!Unity} \union LevelsTracks
                /\ v6 \in {"none", "made", "failed"} /\ v8 \in Nat /\ v14 \in Nat
                /\ v3 \in BOOLEAN /\ v15 \in BOOLEAN /\ v21 \in BOOLEAN
                /\ v7 \subseteq LevelsFetching /\ v9 \subseteq LevelsLoading
                /\ v10 \subseteq LevelsPosting
                /\ v11 \in [volume : Nat, factor : {Levels!Unity} \union LevelsTracks]
                /\ v12 \in 0..LevelsMaxPosts /\ v13 \in 0..LevelsMaxUser
                /\ (v2 # "none" => v1 # 0)
  SoundHolds == Levels!FactorIsOwn /\ Levels!GainNeedsGraph /\ Levels!PostsAreNew /\
    Levels!PostsNumbered
<1>a. PlanHolds /\ SoundTypes /\ SoundHolds
  BY <1>0, ZenonT(60) DEF Levels!TypeOK, LevelsFetching, LevelsLoading, LevelsPosting
<1>b. ASSUME PlanHolds', SoundTypes', SoundHolds'
      PROVE  Levels!IInv'
  <2>1. Levels!TypeOK'
    BY <1>b, ZenonT(60) DEF Levels!TypeOK, LevelsFetching, LevelsLoading, LevelsPosting
  <2> QED BY <1>b, <2>1 DEF Levels!IInv
<1>c. UNCHANGED <<v1, Levels!planVars>> => PlanHolds'
  BY <1>a DEF Levels!planVars, Levels!FadeIsOwn
<1>d. UNCHANGED <<v1, Levels!soundVars>> => SoundTypes' /\ SoundHolds'
  <2> SUFFICES ASSUME UNCHANGED <<v1, Levels!soundVars>> PROVE SoundTypes' /\ SoundHolds'
    OBVIOUS
  <2>1. SoundTypes'
    BY <1>a, ZenonT(60) DEF Levels!soundVars
  <2>2. SoundHolds'
    BY <1>a, ZenonT(60) DEF Levels!soundVars, Levels!FactorIsOwn, Levels!GainNeedsGraph,
       Levels!PostsAreNew, Levels!PostsNumbered
  <2> QED BY <2>1, <2>2
<1>e. /\ v1 \in 0..Levels!Cardinality(LevelsTracks) /\ v2 \in {"none", "vlc", "mse"}
      /\ v4 \in {Levels!Unity} \union LevelsTracks /\ v5 \in {Levels!Unity} \union LevelsTracks
      /\ v8 \in Nat /\ v14 \in Nat
      /\ v7 \subseteq LevelsFetching /\ v9 \subseteq LevelsLoading /\ v10 \subseteq LevelsPosting
      /\ v12 \in 0..LevelsMaxPosts /\ v13 \in 0..LevelsMaxUser
      /\ Levels!TypeOK /\ Levels!FactorIsOwn /\ Levels!GainNeedsGraph /\ Levels!PostsAreNew
      /\ Levels!PostsNumbered
  BY <1>0, <1>a, Zenon
<1>1. CASE Levels!NextTrack
  <2>1. PICK t : t = v1'
    OBVIOUS
  <2>2. /\ t \in LevelsTracks /\ t \in 0..Levels!Cardinality(LevelsTracks) /\ v1' = t
        /\ v2' = "none" /\ t # 0
        /\ v4' = Levels!Unity /\ v5' = (IF v6 = "made" THEN Levels!Unity ELSE v5)
        /\ v15' = FALSE
        /\ v19' = FALSE /\ v17' = Levels!None /\ v18' = Levels!None /\ v20' = Levels!None
        /\ UNCHANGED <<v3, v6, v8, v9, v10, v11, v12, v13, v16, v21>>
    <3>1. v1 + 1 \in LevelsTracks /\ v1 + 1 \in 0..Levels!Cardinality(LevelsTracks) /\ v1 + 1 # 0
      BY <1>0, <1>1, <1>e DEF Levels!NextTrack
    <3> QED BY <1>1, <2>1, <3>1 DEF Levels!NextTrack, Levels!Apply, Levels!Unattenuated
  <2>3. v5' = Levels!Unity
    BY <1>a, <2>2 DEF Levels!GainNeedsGraph
  <2>4. /\ v7' \subseteq LevelsFetching /\ v14' \in Nat
        /\ \A f \in v7' : f.pc = "resume" => f \in v7
    <3>1. CASE v3
      <4>1. /\ v7' = v7 \union {[id |-> v14 + 1, track |-> t, pc |-> "fetch"]}
            /\ v14' = v14 + 1
        BY <1>1, <2>1, <2>2, <3>1 DEF Levels!NextTrack, Levels!Apply
      <4>2. v14 + 1 \in Nat
        BY <1>e
      <4>3. [id |-> v14 + 1, track |-> t, pc |-> "fetch"] \in LevelsFetching
        BY <2>2, <4>2 DEF LevelsFetching
      <4> QED BY <1>e, <4>1, <4>2, <4>3
    <3>2. CASE ~v3
      BY <1>1, <1>a, <2>1, <2>2, <3>2 DEF Levels!NextTrack, Levels!Apply
    <3> QED BY <3>1, <3>2
  <2>5. PlanHolds'
    BY <1>a, <2>2, ZenonT(60) DEF Levels!FadeIsOwn
  <2>6. SoundTypes'
    <3>1. v15' \in BOOLEAN /\ v4' \in {Levels!Unity} \union LevelsTracks /\
            v5' \in {Levels!Unity} \union LevelsTracks
      BY <1>a, <2>2, <2>3
    <3> QED BY <1>a, <2>2, <2>4, <3>1, ZenonT(60)
  <2>7. Levels!FactorIsOwn'
    BY <2>2, <2>3 DEF Levels!FactorIsOwn
  <2>8. Levels!GainNeedsGraph'
    BY <1>a, <2>2, <2>3, <2>4 DEF Levels!GainNeedsGraph
  <2>9. Levels!PostsAreNew' /\ Levels!PostsNumbered'
    <3>1. \A l \in v9 : l.track \in Nat /\ l.track <= v1
      BY <1>0, <1>e DEF Levels!PostsAreNew, LevelsLoading
    <3>2. t = v1 + 1 /\ v1 \in Nat
      BY <1>1, <1>e, <2>1 DEF Levels!NextTrack
    <3>3. \A l \in v9 : l.track <= t /\ l.track # t
      BY <3>1, <3>2
    <3> QED BY <1>a, <2>2, <3>3 DEF Levels!PostsAreNew, Levels!PostsNumbered
  <2> HIDE DEF PlanHolds, SoundTypes
  <2> QED BY <1>b, <2>5, <2>6, <2>7, <2>8, <2>9
<1>2. CASE Levels!SetUp
  <2>1. /\ v1 \in LevelsTracks /\ v2 = "none" /\ v2' \in {"vlc", "mse"}
        /\ v9' = IF v2' = "vlc" THEN v9 \union {[track |-> v1, volume |-> v8]} ELSE v9
        /\ UNCHANGED <<v1, v3, v4, v5, v6, v7, v8, v10, v11, v12, v13, v14,
                       v15, v21, Levels!planVars>>
    BY <1>0, <1>2 DEF Levels!SetUp
  <2>2. v9' \subseteq LevelsLoading /\ \A l \in v9' : l \in v9 \/ (l.track = v1 /\ l.volume = v8)
    BY <1>e, <2>1 DEF LevelsLoading
  <2>3. SoundTypes'
    <3>1. v2' \in {"none", "vlc", "mse"} /\ v1 # 0
      BY <1>2, <2>1 DEF Levels!SetUp
    <3> QED BY <1>a, <2>1, <2>2, <3>1, ZenonT(60)
  <2>4. Levels!FactorIsOwn' /\ Levels!GainNeedsGraph' /\ Levels!PostsNumbered'
    BY <1>a, <2>1 DEF Levels!FactorIsOwn, Levels!GainNeedsGraph, Levels!PostsNumbered
  <2>5. Levels!PostsAreNew'
    <3>1. \A l \in v9 : l.track # v1 /\ l.track <= v1
      BY <1>e, <2>1 DEF Levels!PostsAreNew
    <3>2. v1 <= v1
      BY <1>e
    <3>3. CASE v2' = "vlc"
      <4>1. PICK n : n = [track |-> v1, volume |-> v8]
        OBVIOUS
      <4>2. n \in v9' /\ n.track = v1 /\ \A l \in v9' : l \in v9 \/ l = n
        BY <2>1, <3>3, <4>1
      <4> QED BY <2>1, <2>2, <3>1, <3>2, <3>3, <4>2 DEF Levels!PostsAreNew
    <3>4. CASE v2' # "vlc"
      BY <2>1, <3>1, <3>4 DEF Levels!PostsAreNew
    <3> QED BY <3>3, <3>4
  <2>6. PlanHolds'
    BY <1>c, <2>1
  <2> HIDE DEF PlanHolds, SoundTypes
  <2> QED BY <1>b, <2>3, <2>4, <2>5, <2>6
<1>3. ASSUME NEW l \in v9, Levels!VlcLoaded(l)
      PROVE  Levels!IInv'
  <2>1. /\ v9' = v9 \ {l} /\ l.volume \in Nat /\ v9' \subseteq LevelsLoading
        /\ UNCHANGED <<v1, v2, v3, v4, v5, v6, v7, v8, v11, v13, v14, v15, Levels!planVars>>
    BY <1>3, <1>a DEF Levels!VlcLoaded, LevelsLoading
  <2>2. PlanHolds'
    BY <1>c, <2>1
  <2>3. Levels!FactorIsOwn' /\ Levels!GainNeedsGraph'
    BY <1>a, <2>1 DEF Levels!FactorIsOwn, Levels!GainNeedsGraph
  <2>4. ASSUME Levels!Post(l.volume, v4), v21' = (Levels!Crosses \/ l.track # v1)
        PROVE  Levels!IInv'
    <3>1. /\ v10' \subseteq LevelsPosting /\ v12' \in 0..LevelsMaxPosts
          /\ v10' # {} /\ Levels!PostsNumbered'
          /\ ~Levels!Crosses => \A p \in v10' : p.volume = l.volume /\ p.factor = v4
      BY <1>0, <1>e, <2>1, <2>4, LevelsPosted
    <3>2. v21' \in BOOLEAN /\ (~v21' => ~Levels!Crosses /\ l.track = v1)
      BY <2>4, Zenon
    <3>3. SoundTypes'
      BY <1>a, <2>1, <3>1, <3>2, ZenonT(60)
    <3>4. Levels!PostsAreNew'
      BY <1>e, <2>1, <3>1, <3>2 DEF Levels!PostsAreNew
    <3> HIDE DEF PlanHolds, SoundTypes
    <3> QED BY <1>b, <2>2, <2>3, <3>1, <3>3, <3>4
  <2>5. ASSUME l.track # v1, UNCHANGED <<v10, v12, v21>>
        PROVE  Levels!IInv'
    <3>1. SoundTypes'
      BY <1>a, <2>1, <2>5, ZenonT(60)
    <3>2. Levels!PostsAreNew' /\ Levels!PostsNumbered'
      BY <1>e, <2>1, <2>5 DEF Levels!PostsAreNew, Levels!PostsNumbered
    <3> HIDE DEF PlanHolds, SoundTypes
    <3> QED BY <1>b, <2>2, <2>3, <3>1, <3>2
  <2> HIDE DEF PlanHolds, SoundTypes
  <2> QED BY <1>3, <2>4, <2>5 DEF Levels!VlcLoaded
<1>4. CASE Levels!SyncVolume
  <2>1. /\ v2 = "vlc" /\ v9 = {} /\ v10 = {} /\ v8' \in Nat
        /\ v11' = [volume |-> v8', factor |-> v4] /\ v21' = FALSE
        /\ UNCHANGED <<v1, v2, v3, v4, v5, v6, v7, v9, v10, v12, v13, v14,
                       v15, Levels!planVars>>
    BY <1>4, <1>a DEF Levels!SyncVolume, Levels!Distorted
  <2>2. SoundTypes'
    <3>1. v11' \in [volume : Nat, factor : {Levels!Unity} \union LevelsTracks]
      BY <1>e, <2>1
    <3> QED BY <1>a, <2>1, <3>1, ZenonT(60)
  <2>3. Levels!FactorIsOwn' /\ Levels!GainNeedsGraph' /\ Levels!PostsNumbered'
    BY <1>a, <2>1 DEF Levels!FactorIsOwn, Levels!GainNeedsGraph, Levels!PostsNumbered
  <2>4. Levels!PostsAreNew'
    BY <2>1 DEF Levels!PostsAreNew
  <2>5. PlanHolds'
    BY <1>c, <2>1
  <2> HIDE DEF PlanHolds, SoundTypes
  <2> QED BY <1>b, <2>2, <2>3, <2>4, <2>5
<1>5. ASSUME NEW f \in v7, Levels!Loudness(f)
      PROVE  Levels!IInv'
  <2>1. /\ f.pc = "fetch" /\ f.track \in LevelsTracks /\ f.id \in Nat
        /\ UNCHANGED <<v1, v2, v3, v8, v9, v11, v13, v14, Levels!planVars>>
    BY <1>5, <1>e DEF Levels!Loudness, LevelsFetching
  <2>2. PlanHolds'
    BY <1>c, <2>1
  <2>3. CASE v7' = v7 \ {f} /\ UNCHANGED <<v4, v5, v6, v10, v12, v15, v21>>
    <3>1. SoundTypes'
      <4>1. v7' \subseteq LevelsFetching
        BY <1>e, <2>3
      <4> QED BY <1>a, <2>1, <2>3, <4>1, ZenonT(60)
    <3>2. Levels!FactorIsOwn' /\ Levels!GainNeedsGraph' /\ Levels!PostsAreNew' /\
            Levels!PostsNumbered'
      BY <1>e, <2>1, <2>3 DEF Levels!FactorIsOwn, Levels!GainNeedsGraph, Levels!PostsAreNew,
         Levels!PostsNumbered
    <3> HIDE DEF PlanHolds, SoundTypes
    <3> QED BY <1>b, <2>2, <3>1, <3>2
  <2>4. ASSUME v7' = v7 \ {f}, v4' = Levels!Unity, UNCHANGED <<v5, v6, v10, v12, v15>>,
               v21' = (v21 \/ (v2 = "vlc" /\ v4 # Levels!Unity))
        PROVE  Levels!IInv'
    <3>1. v21' \in BOOLEAN /\ (~v21' /\ v2 = "vlc" => ~v21 /\ v4' = v4)
      BY <2>4, Zenon
    <3>2. SoundTypes'
      <4>1. v7' \subseteq LevelsFetching /\ v4' \in {Levels!Unity} \union LevelsTracks
        BY <1>e, <2>4
      <4> QED BY <1>a, <2>1, <2>4, <3>1, <4>1, ZenonT(60)
    <3>3. Levels!FactorIsOwn' /\ Levels!GainNeedsGraph' /\ Levels!PostsNumbered'
      BY <1>e, <2>1, <2>4 DEF Levels!FactorIsOwn, Levels!GainNeedsGraph, Levels!PostsNumbered
    <3>4. Levels!PostsAreNew'
      BY <1>e, <2>1, <2>4, <3>1 DEF Levels!PostsAreNew
    <3> HIDE DEF PlanHolds, SoundTypes
    <3> QED BY <1>b, <2>2, <3>2, <3>3, <3>4
  <2>5. ASSUME v4' = f.track, v15' = (v15 \/ ~Levels!Mine(f)), v2 = "vlc",
               Levels!Reapply(f.track), v7' = v7 \ {f}, UNCHANGED <<v5, v6>>
        PROVE  Levels!IInv'
    <3>0. Levels!Post(v8, f.track) /\ v21' = Levels!Crosses
      BY <2>5 DEF Levels!Reapply
    <3>1. /\ v10' \subseteq LevelsPosting /\ v12' \in 0..LevelsMaxPosts
          /\ v10' # {} /\ Levels!PostsNumbered'
          /\ ~Levels!Crosses => \A p \in v10' : p.volume = v8 /\ p.factor = f.track
      BY <1>0, <1>e, <2>1, <3>0, LevelsPosted
    <3>2. v21' \in BOOLEAN
      BY <3>0, Zenon DEF Levels!Crosses
    <3>3. v15' \in BOOLEAN /\ (~v15' => ~v15 /\ f.track = v1 /\ v3)
      BY <2>5, Zenon DEF Levels!Mine
    <3>4. SoundTypes'
      <4>1. v7' \subseteq LevelsFetching /\ v4' \in {Levels!Unity} \union LevelsTracks
        BY <1>e, <2>1, <2>5
      <4> QED BY <1>a, <2>1, <2>5, <3>1, <3>2, <3>3, <4>1, ZenonT(60)
    <3>5. Levels!FactorIsOwn'
      BY <1>e, <2>1, <2>5, <3>3 DEF Levels!FactorIsOwn
    <3>6. Levels!GainNeedsGraph'
      BY <1>e, <2>5 DEF Levels!GainNeedsGraph
    <3>7. Levels!PostsAreNew'
      BY <1>e, <2>1, <2>5, <3>0, <3>1 DEF Levels!PostsAreNew
    <3> HIDE DEF PlanHolds, SoundTypes
    <3> QED BY <1>b, <2>2, <3>1, <3>4, <3>5, <3>6, <3>7
  <2>6. ASSUME v4' = f.track, v15' = (v15 \/ ~Levels!Mine(f)), v2 # "vlc",
               v6' \in Levels!GraphMade,
               v7' = (v7 \ {f}) \union
                       (IF v6' = "made" THEN {[f EXCEPT !.pc = "resume"]} ELSE {}),
               UNCHANGED <<v5, v10, v12, v21>>
        PROVE  Levels!IInv'
    <3>1. [f EXCEPT !.pc = "resume"] \in LevelsFetching
      BY <1>e DEF LevelsFetching
    <3>2. /\ v7' \subseteq LevelsFetching
          /\ \A g \in v7' : g \in v7 \/ v6' = "made"
      BY <1>e, <2>6, <3>1
    <3>3. v6' \in {"none", "made", "failed"} /\ (v6 = "made" => v6' = "made")
      BY <1>a, <2>6 DEF Levels!GraphMade
    <3>4. v15' \in BOOLEAN /\ (~v15' => ~v15 /\ f.track = v1 /\ v3)
      BY <2>6, Zenon DEF Levels!Mine
    <3>5. SoundTypes'
      <4>1. v4' \in {Levels!Unity} \union LevelsTracks
        BY <2>1, <2>6
      <4> QED BY <1>a, <2>1, <2>6, <3>2, <3>3, <3>4, <4>1, ZenonT(60)
    <3>6. Levels!FactorIsOwn'
      BY <1>e, <2>1, <2>6, <3>4 DEF Levels!FactorIsOwn
    <3>7. Levels!GainNeedsGraph'
      BY <1>e, <2>6, <3>2, <3>3 DEF Levels!GainNeedsGraph
    <3>8. Levels!PostsAreNew' /\ Levels!PostsNumbered'
      BY <1>e, <2>1, <2>6 DEF Levels!PostsAreNew, Levels!PostsNumbered
    <3> HIDE DEF PlanHolds, SoundTypes
    <3> QED BY <1>b, <2>2, <3>5, <3>6, <3>7, <3>8
  <2> HIDE DEF PlanHolds, SoundTypes
  <2> QED BY <1>5, <2>3, <2>4, <2>5, <2>6 DEF Levels!Loudness
<1>6. ASSUME NEW f \in v7, Levels!Resumed(f)
      PROVE  Levels!IInv'
  <2>1. /\ f.pc = "resume" /\ v7' = v7 \ {f} /\ v5' = f.track /\ f.track \in LevelsTracks
        /\ v15' = (v15 \/ ~Levels!Mine(f))
        /\ UNCHANGED <<v1, v2, v3, v4, v6, v8, v9, v10, v11, v12, v13, v14, v21,
                       Levels!planVars>>
    BY <1>6, <1>e DEF Levels!Resumed, LevelsFetching
  <2>2. v15' \in BOOLEAN /\ (~v15' => ~v15 /\ f.track = v1 /\ v3)
    BY <2>1, Zenon DEF Levels!Mine
  <2>3. SoundTypes'
    <3>1. v5' \in {Levels!Unity} \union LevelsTracks /\ v7' \subseteq LevelsFetching
      BY <1>e, <2>1
    <3> QED BY <1>a, <2>1, <2>2, <3>1, ZenonT(60)
  <2>4. Levels!FactorIsOwn'
    BY <1>e, <2>1, <2>2 DEF Levels!FactorIsOwn
  <2>5. Levels!GainNeedsGraph'
    BY <1>e, <2>1 DEF Levels!GainNeedsGraph
  <2>6. Levels!PostsAreNew' /\ Levels!PostsNumbered'
    BY <1>e, <2>1 DEF Levels!PostsAreNew, Levels!PostsNumbered
  <2>7. PlanHolds'
    BY <1>c, <2>1
  <2> HIDE DEF PlanHolds, SoundTypes
  <2> QED BY <1>b, <2>3, <2>4, <2>5, <2>6, <2>7
<1>7. CASE Levels!Toggle
  <2>1. /\ v13' \in 0..LevelsMaxUser /\ v3' = ~v3 /\ v15' = FALSE
        /\ v4' = Levels!Unity /\ v5' = (IF v6 = "made" THEN Levels!Unity ELSE v5)
        /\ UNCHANGED <<v1, v2, v6, v8, v9, v11, Levels!planVars>>
    BY <1>0, <1>e, <1>7 DEF Levels!Toggle, Levels!Apply, Levels!Unattenuated
  <2>2. v5' = Levels!Unity
    BY <1>e, <2>1 DEF Levels!GainNeedsGraph
  <2>3. v15' \in BOOLEAN /\ v3' \in BOOLEAN
    BY <2>1
  <2>4. PlanHolds'
    BY <1>c, <2>1
  <2>5. Levels!FactorIsOwn'
    BY <2>1, <2>2 DEF Levels!FactorIsOwn
  <2>6. CASE ~v3
    <3>1. /\ UNCHANGED <<v10, v12>> /\ v7' \subseteq LevelsFetching /\ v14' \in Nat
          /\ \A f \in v7' : f.pc = "resume" => f \in v7
      <4>1. UNCHANGED <<v10, v12>>
        BY <1>7, <2>1, <2>6 DEF Levels!Toggle
      <4>2. CASE v1 # 0
        <5>1. /\ v7' = v7 \union {[id |-> v14 + 1, track |-> v1, pc |-> "fetch"]}
              /\ v14' = v14 + 1
          BY <1>7, <2>1, <2>6, <4>2 DEF Levels!Toggle, Levels!Apply
        <5>2. v14 + 1 \in Nat /\ v1 \in LevelsTracks
          BY <1>0, <1>e, <4>2
        <5>3. [id |-> v14 + 1, track |-> v1, pc |-> "fetch"] \in LevelsFetching
          BY <5>2 DEF LevelsFetching
        <5> QED BY <1>e, <4>1, <5>1, <5>2, <5>3
      <4>3. CASE v1 = 0
        BY <1>7, <1>e, <2>1, <2>6, <4>1, <4>3 DEF Levels!Toggle, Levels!Apply
      <4> QED BY <4>2, <4>3
    <3>2. v21' = (v21 \/ (v2 = "vlc" /\ v4 # v4'))
      BY <1>7, <2>1, <2>6 DEF Levels!Toggle
    <3>3. v21' \in BOOLEAN /\ (~v21' /\ v2 = "vlc" => ~v21 /\ v4' = v4)
      BY <3>2, Zenon
    <3>4. SoundTypes'
      <4>1. v4' \in {Levels!Unity} \union LevelsTracks /\
              v5' \in {Levels!Unity} \union LevelsTracks
        BY <2>1, <2>2
      <4> QED BY <1>a, <2>1, <2>3, <3>1, <3>3, <4>1, ZenonT(60)
    <3>5. Levels!GainNeedsGraph'
      BY <1>e, <2>1, <2>2, <3>1 DEF Levels!GainNeedsGraph
    <3>6. Levels!PostsNumbered'
      BY <1>e, <3>1 DEF Levels!PostsNumbered
    <3>7. Levels!PostsAreNew'
      BY <1>e, <2>1, <3>1, <3>3 DEF Levels!PostsAreNew
    <3> HIDE DEF PlanHolds, SoundTypes
    <3> QED BY <1>b, <2>4, <2>5, <3>4, <3>5, <3>6, <3>7
  <2>7. CASE v3
    <3>0. Levels!Reapply(Levels!Unity) /\ UNCHANGED <<v7, v14>>
      BY <1>7, <2>1, <2>7 DEF Levels!Toggle
    <3>1. /\ v10' \subseteq LevelsPosting /\ v12' \in 0..LevelsMaxPosts
          /\ v21' \in BOOLEAN /\ Levels!PostsNumbered'
          /\ v2 = "vlc" =>
               /\ v21' = Levels!Crosses /\ v10' # {}
               /\ ~Levels!Crosses => \A p \in v10' : p.volume = v8 /\ p.factor = Levels!Unity
      <4>1. CASE v2 = "vlc"
        <5>1. Levels!Post(v8, Levels!Unity) /\ v21' = Levels!Crosses
          BY <3>0, <4>1 DEF Levels!Reapply
        <5>2. v21' \in BOOLEAN
          BY <5>1, Zenon DEF Levels!Crosses
        <5> QED BY <1>0, <1>e, <5>1, <5>2, LevelsPosted
      <4>2. CASE v2 # "vlc"
        <5>1. UNCHANGED <<v10, v12, v21>>
          BY <3>0, <4>2 DEF Levels!Reapply
        <5> QED BY <1>a, <1>e, <4>2, <5>1 DEF Levels!PostsNumbered
      <4> QED BY <4>1, <4>2
    <3>2. SoundTypes'
      <4>1. v4' \in {Levels!Unity} \union LevelsTracks /\
              v5' \in {Levels!Unity} \union LevelsTracks
        BY <2>1, <2>2
      <4> QED BY <1>a, <2>1, <2>3, <3>0, <3>1, <4>1, ZenonT(60)
    <3>3. Levels!GainNeedsGraph'
      BY <1>e, <2>1, <2>2, <3>0 DEF Levels!GainNeedsGraph
    <3>4. Levels!PostsAreNew'
      BY <1>e, <2>1, <3>1 DEF Levels!PostsAreNew
    <3> HIDE DEF PlanHolds, SoundTypes
    <3> QED BY <1>b, <2>4, <2>5, <3>1, <3>2, <3>3, <3>4
  <2> HIDE DEF PlanHolds, SoundTypes
  <2> QED BY <1>a, <2>6, <2>7
<1>8. CASE Levels!SetVolume
  <2>1. /\ v13' \in 0..LevelsMaxUser /\ v8' = v8 + 1
        /\ v9' = {IF l.track = v1 THEN [l EXCEPT !.volume = v8'] ELSE l : l \in v9}
        /\ v21' = Levels!Crosses
        /\ UNCHANGED <<v1, v2, v3, v4, v5, v6, v7, v11, v14, v15, Levels!planVars>>
    BY <1>0, <1>e, <1>8 DEF Levels!SetVolume
  <2>2. PICK v \in Nat : v = v8' /\ Levels!Post(v, v4)
    BY <1>e, <1>8, <2>1 DEF Levels!SetVolume
  <2>3. /\ v10' \subseteq LevelsPosting /\ v12' \in 0..LevelsMaxPosts /\ Levels!PostsNumbered'
        /\ v10' # {}
        /\ ~Levels!Crosses => \A p \in v10' : p.volume = v /\ p.factor = v4
    BY <1>0, <1>e, <2>1, <2>2, LevelsPosted
  <2>4. \A l \in v9 : /\ [l EXCEPT !.volume = v] \in LevelsLoading /\ l \in LevelsLoading
                      /\ [l EXCEPT !.volume = v].track = l.track
                      /\ [l EXCEPT !.volume = v].volume = v
    BY <1>e DEF LevelsLoading
  <2>5. v9' \subseteq LevelsLoading
    BY <2>1, <2>2, <2>4
  <2>6. SoundTypes'
    <3>1. v21' \in BOOLEAN
      BY <2>1, Zenon DEF Levels!Crosses
    <3>2. v8' \in Nat
      BY <2>2
    <3> QED BY <1>a, <2>1, <2>3, <2>5, <3>1, <3>2, ZenonT(60)
  <2>7. Levels!FactorIsOwn' /\ Levels!GainNeedsGraph'
    BY <1>e, <2>1 DEF Levels!FactorIsOwn, Levels!GainNeedsGraph
  <2>8. Levels!PostsAreNew'
    <3>1. v2 = "vlc"
      BY <1>8 DEF Levels!SetVolume
    <3>2. \A l \in v9 : l.track <= v1
      BY <1>e DEF Levels!PostsAreNew
    <3>3. \A l \in v9' : l.track <= v1 /\ (l.track = v1 => l.volume = v)
      BY <2>1, <2>2, <2>4, <3>2
    <3> QED BY <2>1, <2>2, <2>3, <3>1, <3>3 DEF Levels!PostsAreNew
  <2>9. PlanHolds'
    BY <1>c, <2>1
  <2> HIDE DEF PlanHolds, SoundTypes
  <2> QED BY <1>b, <2>3, <2>6, <2>7, <2>8, <2>9
<1>9. ASSUME NEW p \in v10, Levels!VolumeSet(p)
      PROVE  Levels!IInv'
  <2>1. /\ v10' = v10 \ {p} /\ v11' = [volume |-> p.volume, factor |-> p.factor]
        /\ UNCHANGED <<v1, v2, v3, v4, v5, v6, v7, v8, v9, v12, v13, v14,
                       v15, v21, Levels!planVars>>
    BY <1>9 DEF Levels!VolumeSet
  <2>2. v11' \in [volume : Nat, factor : {Levels!Unity} \union LevelsTracks] /\
          v10' \subseteq LevelsPosting
    BY <1>e, <2>1 DEF LevelsPosting
  <2>3. SoundTypes'
    BY <1>a, <2>1, <2>2, ZenonT(60)
  <2>4. Levels!FactorIsOwn' /\ Levels!GainNeedsGraph' /\ Levels!PostsNumbered'
    BY <1>e, <2>1 DEF Levels!FactorIsOwn, Levels!GainNeedsGraph, Levels!PostsNumbered
  <2>5. Levels!PostsAreNew'
    BY <1>e, <2>1 DEF Levels!PostsAreNew
  <2>6. PlanHolds'
    BY <1>c, <2>1
  <2> HIDE DEF PlanHolds, SoundTypes
  <2> QED BY <1>b, <2>3, <2>4, <2>5, <2>6
<1>10. CASE Levels!ArmGapless
  <2>1. /\ v1 \in LevelsTracks /\ v19' = TRUE /\ v16' \subseteq v16 \union {v1}
        /\ UNCHANGED <<v1, Levels!soundVars, v17, v18, v20>>
    BY <1>0, <1>10 DEF Levels!ArmGapless
  <2>2. PlanHolds'
    <3>1. v16' \subseteq LevelsTracks
      BY <1>a, <2>1, Zenon
    <3> QED BY <1>a, <2>1, <3>1, ZenonT(60) DEF Levels!FadeIsOwn
  <2>3. SoundTypes' /\ SoundHolds'
    BY <1>d, <2>1
  <2> HIDE DEF PlanHolds, SoundTypes
  <2> QED BY <1>b, <2>2, <2>3
<1>11. ASSUME NEW t \in v16, Levels!Decoded(t)
      PROVE  Levels!IInv'
  <2>1. /\ t \in LevelsTracks /\ v16' = v16 \ {t}
        /\ (v17' = t /\ v18' = t) \/ UNCHANGED <<v17, v18>>
        /\ UNCHANGED <<v1, Levels!soundVars, v19, v20>>
    BY <1>a, <1>11 DEF Levels!Decoded
  <2>2. PlanHolds'
    BY <1>a, <2>1, ZenonT(60) DEF Levels!FadeIsOwn
  <2>3. SoundTypes' /\ SoundHolds'
    BY <1>d, <2>1
  <2> HIDE DEF PlanHolds, SoundTypes
  <2> QED BY <1>b, <2>2, <2>3
<1>12. CASE Levels!FadeOut
  <2>1. /\ v1 \in LevelsTracks /\ v20' = v1
        /\ v6' = v6 \/ v6' \in Levels!GraphMade
        /\ UNCHANGED <<v1, v2, v3, v4, v5, v7, v8, v9, v10, v11, v12, v13, v14,
                       v15, v21>>
        /\ UNCHANGED <<v16, v17, v18, v19>>
    BY <1>0, <1>12 DEF Levels!FadeOut, Levels!OwnPlan
  <2>2. v6' \in {"none", "made", "failed"} /\ (v6 = "made" => v6' = "made")
    BY <1>a, <2>1 DEF Levels!GraphMade
  <2>3. PlanHolds'
    BY <1>a, <2>1, ZenonT(60) DEF Levels!FadeIsOwn
  <2>4. SoundTypes'
    BY <1>a, <2>1, <2>2, ZenonT(60)
  <2>5. SoundHolds'
    BY <1>e, <2>1, <2>2 DEF Levels!FactorIsOwn, Levels!GainNeedsGraph, Levels!PostsAreNew,
       Levels!PostsNumbered
  <2> HIDE DEF PlanHolds, SoundTypes
  <2> QED BY <1>b, <2>3, <2>4, <2>5
<1>13. CASE UNCHANGED Levels!vars
  <2>1. PlanHolds' /\ SoundTypes' /\ SoundHolds'
    BY <1>c, <1>d, <1>13 DEF Levels!vars
  <2> HIDE DEF PlanHolds, SoundTypes
  <2> QED BY <1>b, <2>1
<1> HIDE DEF PlanHolds, SoundTypes, SoundHolds
<1> QED BY <1>1, <1>2, <1>3, <1>4, <1>5, <1>6, <1>7, <1>8, <1>9, <1>10, <1>11, <1>12,
           <1>13 DEF Levels!Next, Levels!Answers

LEMMA LevelsConsequences ==
  ASSUME Levels!IInv
  PROVE  Levels!TypeOK /\ Levels!LevelIsOwn /\ Levels!FadeIsOwn
BY DEF Levels!IInv, Levels!LevelIsOwn, Levels!VolumeIsTold, Levels!PostsAreNew


-----------------------------------------------------------------------------
(* The store (EncryptedStore), and that its invariant holds at the start and is kept by
   each step. *)
Store == INSTANCE EncryptedStore WITH
  Keys <- StoreKeys, MaxWrites <- StoreMaxWrites, MaxLoads <- StoreMaxLoads,
  MaxFaults <- StoreMaxFaults, MaxStops <- StoreMaxStops, disk <- v1, cache <- v2, dirty <- v3,
  timer <- v4, chain <- v5, loads <- v6, signOut <- v7, backstop <- v8, auto <- v9,
  phase <- v10, restart <- v11, latest <- v12, written <- v13, faults <- v14, stops <- v15

LEMMA StoreNoDataFacts ==
  ASSUME Store!StoreAssumption
  PROVE  /\ Store!NoData \notin Store!Stores /\ "account" \in StoreKeys /\ "resume" \in StoreKeys
         /\ 0 \in 0..StoreMaxWrites /\ 1 \in 0..StoreMaxWrites
<1>1. "account" \in StoreKeys /\ "resume" \in StoreKeys
  BY DEF Store!StoreAssumption
<1>2. DOMAIN Store!NoData = {}
  BY DEF Store!NoData
<1>3. Store!NoData \notin Store!Stores
  BY <1>1, <1>2 DEF Store!Stores
<1> QED BY <1>1, <1>3 DEF Store!StoreAssumption

LEMMA StoreInitEstablishes ==
  ASSUME Store!StoreAssumption, Store!Init
  PROVE  Store!IInv
<1>1. v1 \in Store!Stores /\ v12 \in Store!Stores
  BY StoreNoDataFacts DEF Store!Init, Store!Stores, Store!Absent
<1>2. v13 \in 1..StoreMaxWrites
  BY DEF Store!Init, Store!StoreAssumption
<1>3. v5 = <<>> /\ DOMAIN v5 = {} /\ v5 \in Seq(Store!Entries)
  BY DEF Store!Init
<1>4. Store!TypeOK
  BY <1>1, <1>2, <1>3, Zenon DEF Store!Init, Store!TypeOK
<1>5. v7 = "no" /\ v2 = Store!NoData
  BY DEF Store!Init
<1> QED BY <1>3, <1>4, <1>5
        DEF Store!IInv, Store!OneUnderWay, Store!SignOutWrites, Store!NothingBringsItBack,
            Store!SignedOutStaysOut, Store!Out

\* What a write at the end of the chain, and the end of the one at its head, leave of the chain.
LEMMA StoreChainFacts ==
  ASSUME NEW c \in Seq(Store!Entries)
  PROVE  /\ \A e \in Store!Entries : /\ Append(c, e) \in Seq(Store!Entries)
                                     /\ DOMAIN Append(c, e) = DOMAIN c \union {Len(c) + 1}
                                     /\ Append(c, e)[Len(c) + 1] = e
                                     /\ \A i \in DOMAIN c : Append(c, e)[i] = c[i]
         /\ c # <<>> => /\ Store!RemoveAt(c, 1) \in Seq(Store!Entries)
                        /\ DOMAIN Store!RemoveAt(c, 1) = 1..(Len(c) - 1)
                        /\ \A i \in 1..(Len(c) - 1) : Store!RemoveAt(c, 1)[i] = c[i + 1]
<1>1. ASSUME NEW e \in Store!Entries
      PROVE  /\ Append(c, e) \in Seq(Store!Entries)
             /\ DOMAIN Append(c, e) = DOMAIN c \union {Len(c) + 1}
             /\ Append(c, e)[Len(c) + 1] = e
             /\ \A i \in DOMAIN c : Append(c, e)[i] = c[i]
  OBVIOUS
<1>2. ASSUME c # <<>>
      PROVE  /\ Store!RemoveAt(c, 1) \in Seq(Store!Entries)
             /\ DOMAIN Store!RemoveAt(c, 1) = 1..(Len(c) - 1)
             /\ \A i \in 1..(Len(c) - 1) : Store!RemoveAt(c, 1)[i] = c[i + 1]
  BY <1>2 DEF Store!RemoveAt
<1> QED BY <1>1, <1>2

\* A change of one key that is not the account's, or takes the account away.
LEMMA StoreChangeFacts ==
  ASSUME Store!StoreAssumption, NEW s \in Store!Stores, NEW k \in StoreKeys,
         NEW v \in 0..StoreMaxWrites
  PROVE  /\ [s EXCEPT ![k] = v] \in Store!Stores
         /\ Store!Out([s EXCEPT ![k] = v]) <=>
              IF k = "account" THEN v = Store!Absent ELSE Store!Out(s)
         /\ Store!Out(s) <=> s["account"] = Store!Absent
BY StoreNoDataFacts DEF Store!Stores, Store!Out

LEMMA StoreStepPreserves ==
  ASSUME Store!StoreAssumption
  PROVE  Store!IInv /\ [Store!Next]_(Store!vars) => Store!IInv'
<1> SUFFICES ASSUME Store!IInv, [Store!Next]_(Store!vars)
             PROVE  Store!IInv'
  OBVIOUS
<1>1. /\ v1 \in Store!Stores /\ v12 \in Store!Stores /\ v2 \in Store!Stores \union {Store!NoData}
      /\ v5 \in Seq(Store!Entries) /\ v6 \subseteq [key : StoreKeys, value : 0..StoreMaxWrites]
      /\ v13 \in 1..StoreMaxWrites /\ StoreMaxWrites \in Nat
      /\ v7 \in {"no", "writing", "done", "failed"} /\ v9 \in {"idle", "asked", "over"}
  BY DEF Store!IInv, Store!TypeOK, Store!StoreAssumption
<1>2. v3 \in BOOLEAN /\ v4 \in BOOLEAN /\ v8 \in BOOLEAN
  BY DEF Store!IInv, Store!TypeOK
<1>3. Store!OneUnderWay /\ Store!SignOutWrites /\ Store!NothingBringsItBack /\
        Store!SignedOutStaysOut
  BY DEF Store!IInv
<1> DEFINE Flags == v3' \in BOOLEAN /\ v4' \in BOOLEAN /\ v8' \in BOOLEAN
           Types == /\ v1' \in Store!Stores /\ v12' \in Store!Stores
                    /\ v2' \in Store!Stores \union {Store!NoData}
                    /\ v5' \in Seq(Store!Entries) /\
                         v6' \subseteq [key : StoreKeys, value : 0..StoreMaxWrites]
                    /\ v13' \in 1..StoreMaxWrites
                    /\ v7' \in {"no", "writing", "done", "failed"}
                    /\ v9' \in {"idle", "asked", "over"}
           Rest == Store!OneUnderWay' /\ Store!SignOutWrites' /\ Store!NothingBringsItBack' /\
             Store!SignedOutStaysOut'
\* A step that leaves chain and sign-out, and changes the cache by a key or not at all.
<1>4. ASSUME UNCHANGED <<v5, v7>>, v1' \in Store!Stores,
             v2' \in Store!Stores \union {Store!NoData},
             v7 \in {"writing", "done"} => Store!Out(v2'),
             v7 = "done" => Store!Out(v1'),
             v7 = "writing" => v2' # Store!NoData /\ v6' = {}
      PROVE  Rest
  BY <1>1, <1>3, <1>4, StoreNoDataFacts
     DEF Store!OneUnderWay, Store!SignOutWrites, Store!NothingBringsItBack,
         Store!SignedOutStaysOut, Store!Loaded, Store!Out, Store!Absent, Store!NoData
\* The same when the account is written: nothing is signed out.
<1>5. ASSUME UNCHANGED <<v5, v1>>, v7' = "no", v7 # "writing"
      PROVE  Rest
  BY <1>1, <1>3, <1>5
     DEF Store!OneUnderWay, Store!SignOutWrites, Store!NothingBringsItBack,
         Store!SignedOutStaysOut, Store!Loaded, Store!Out, Store!Absent, Store!NoData
<1>a. ASSUME UNCHANGED Store!vars PROVE Flags /\ Types /\ Rest
  <2>1. UNCHANGED <<v1, v2, v3, v4, v5, v6, v7, v8, v9, v12, v13>>
    BY <1>a DEF Store!vars, Store!writes
  <2>2. Flags
    BY <1>2, <2>1, Zenon
  <2>3. Rest
    BY <1>1, <1>3, <1>4, <2>1
       DEF Store!SignOutWrites, Store!NothingBringsItBack, Store!SignedOutStaysOut, Store!Loaded,
           Store!Out
  <2> QED BY <1>1, <2>1, <2>2, <2>3
<1>b. ASSUME NEW k \in StoreKeys, Store!Write(k) PROVE Flags /\ Types /\ Rest
  <2>1. /\ Store!Loaded /\ (k = "account" => v7 # "writing")
        /\ v13 < StoreMaxWrites /\ v13' = v13 + 1
        /\ v7' = IF k = "account" THEN "no" ELSE v7
        /\ UNCHANGED <<v1, v5, v6, v8, v9>>
    BY <1>b DEF Store!Write, Store!NextValue
  <2>2. PICK v \in {Store!Absent, v13'} : Store!Change(v2, k, v)
    BY <1>b DEF Store!Write
  <2>3. v13' \in 1..StoreMaxWrites /\ v \in 0..StoreMaxWrites
    BY <1>1, <2>1, <2>2 DEF Store!Absent
  <2>4. v2 \in Store!Stores
    BY <1>1, <2>1 DEF Store!Loaded
  <2>5. /\ v2' \in Store!Stores /\ v12' \in Store!Stores
        /\ k # "account" => (Store!Out(v2') <=> Store!Out(v2))
    BY <1>1, <2>2, <2>3, <2>4, StoreChangeFacts DEF Store!Change
  <2>6. Flags
    BY <1>2, <2>1, <2>2, Zenon DEF Store!Change
  <2>7. Types
    BY <1>1, <2>1, <2>3, <2>5
  <2>8. CASE k = "account"
    BY <1>1, <1>5, <2>1, <2>6, <2>7, <2>8
  <2>9. CASE k # "account"
    <3>1. v2' # Store!NoData
      BY <2>5, StoreNoDataFacts
    <3> QED BY <1>1, <1>3, <1>4, <2>1, <2>5, <2>6, <2>7, <2>9, <3>1
            DEF Store!NothingBringsItBack, Store!SignOutWrites, Store!SignedOutStaysOut, Store!Out
  <2> QED BY <2>8, <2>9
<1>c. ASSUME NEW k \in StoreKeys, Store!WriteUnloaded(k) PROVE Flags /\ Types /\ Rest
  <2>1. /\ ~Store!Loaded /\ v13 < StoreMaxWrites /\ v13' = v13 + 1
        /\ v6' = v6 \union {[key |-> k, value |-> v13']}
        /\ UNCHANGED <<v1, v2, v3, v4, v5, v7, v8, v9, v12>>
    BY <1>c DEF Store!WriteUnloaded, Store!NextValue, Store!writes
  <2>2. Flags
    BY <1>2, <2>1, Zenon
  <2>3. v13' \in 1..StoreMaxWrites /\ v13' \in 0..StoreMaxWrites
    BY <1>1, <2>1
  <2>4. Types
    BY <1>1, <2>1, <2>3
  <2>5. v7 # "writing"
    BY <1>3, <2>1 DEF Store!SignOutWrites
  <2> QED BY <1>1, <1>3, <1>4, <2>1, <2>2, <2>4, <2>5
          DEF Store!NothingBringsItBack, Store!SignedOutStaysOut, Store!Out
<1>d. ASSUME NEW l \in v6, Store!LoadEnds(l) PROVE Flags /\ Types /\ Rest
  <2>1. /\ v6' = v6 \ {l} /\ Store!Change(v1, l.key, l.value)
        /\ v7' = IF l.key = "account" THEN "no" ELSE v7
        /\ UNCHANGED <<v1, v5, v8, v9, v13>>
    BY <1>d DEF Store!LoadEnds
  <2>2. l.key \in StoreKeys /\ l.value \in 0..StoreMaxWrites
    BY <1>1
  <2>3. v7 # "writing"
    BY <1>3 DEF Store!SignOutWrites
  <2>4. /\ v2' \in Store!Stores /\ v12' \in Store!Stores
        /\ l.key # "account" => (Store!Out(v2') <=> v1["account"] = Store!Absent)
    BY <1>1, <2>1, <2>2, StoreChangeFacts DEF Store!Change
  <2>5. Flags
    BY <1>2, <2>1, Zenon DEF Store!Change
  <2>6. Types
    BY <1>1, <2>1, <2>4
  <2>7. CASE l.key = "account"
    BY <1>1, <1>5, <2>1, <2>3, <2>5, <2>6, <2>7
  <2>8. CASE l.key # "account"
    BY <1>1, <1>3, <1>4, <2>1, <2>3, <2>4, <2>5, <2>6, <2>8, StoreChangeFacts, StoreNoDataFacts
       DEF Store!SignedOutStaysOut
  <2> QED BY <2>7, <2>8
<1>e. ASSUME Store!Read PROVE Flags /\ Types /\ Rest
  <2>1. /\ ~Store!Loaded /\ v2' = v1 /\ v3' \in BOOLEAN /\ v4' = (v4 \/ v3')
        /\ UNCHANGED <<v1, v5, v6, v7, v8, v9, v12, v13>>
    BY <1>e DEF Store!Read
  <2>2. Flags
    BY <1>2, <2>1, Zenon
  <2>3. v7 # "writing"
    BY <1>3, <2>1 DEF Store!SignOutWrites
  <2> QED BY <1>1, <1>3, <1>4, <2>1, <2>2, <2>3, StoreChangeFacts,
             StoreNoDataFacts DEF Store!SignedOutStaysOut
<1>f. ASSUME Store!TimerFires PROVE Flags /\ Types /\ Rest
  <2>1. /\ v4' = FALSE
        /\ UNCHANGED <<v1, v2, v6, v7, v8, v9, v12, v13>>
    BY <1>f DEF Store!TimerFires
  <2>2. Flags
    BY <1>2, <1>f, <2>1, Zenon DEF Store!TimerFires
  <2>3. CASE UNCHANGED v5
    BY <1>1, <1>3, <1>4, <2>1, <2>2, <2>3 DEF Store!SignOutWrites, Store!NothingBringsItBack,
       Store!SignedOutStaysOut, Store!Loaded, Store!Out
  <2>4. CASE v5' = Store!Queued("later")
    <3> DEFINE e == [kind |-> "later", data |-> Store!NoData]
    <3>1. e \in Store!Entries /\ e.kind = "later" /\ e.data = Store!NoData
      BY DEF Store!Entries
    <3>2. v5' = Append(v5, e)
      BY <2>4 DEF Store!Queued
    <3> HIDE DEF e
    <3>3. /\ v5' \in Seq(Store!Entries) /\ DOMAIN v5' = DOMAIN v5 \union {Len(v5) + 1}
          /\ v5'[Len(v5) + 1] = e /\ \A i \in DOMAIN v5 : v5'[i] = v5[i]
      BY <1>1, <3>1, <3>2, StoreChainFacts
    <3>4. Rest
      BY <1>1, <1>3, <2>1, <3>1, <3>3
         DEF Store!OneUnderWay, Store!SignOutWrites, Store!NothingBringsItBack,
             Store!SignedOutStaysOut, Store!Loaded, Store!Out, Store!NoData, Store!Absent
    <3> QED BY <1>1, <2>1, <2>2, <3>3, <3>4
  <2> QED BY <1>f, <2>3, <2>4 DEF Store!TimerFires
<1>g. ASSUME NEW i \in DOMAIN v5, Store!WriteStarts(i) PROVE Flags /\ Types /\ Rest
  <2>1. /\ i = 1 /\ v5[i].data = Store!NoData /\ v5' = [v5 EXCEPT ![i].data = v2]
        /\ UNCHANGED <<v1, v2, v3, v4, v6, v7, v8, v9, v12, v13>>
    BY <1>g DEF Store!WriteStarts, Store!Turn
  <2>2. Flags
    BY <1>2, <2>1, Zenon
  <2>3. /\ v5' \in Seq(Store!Entries) /\ DOMAIN v5' = DOMAIN v5
        /\ v5'[i].data = v2 /\ v5'[i].kind = v5[i].kind
        /\ \A j \in DOMAIN v5 : j # i => v5'[j] = v5[j]
    <3>1. v5[i] \in Store!Entries
      BY <1>1, <1>g
    <3>2. PICK e : e = [v5[i] EXCEPT !.data = v2]
      OBVIOUS
    <3>3. e \in Store!Entries /\ e.data = v2 /\ e.kind = v5[i].kind
      BY <1>1, <3>1, <3>2 DEF Store!Entries
    <3>4. v5' = [v5 EXCEPT ![i] = e]
      BY <2>1, <3>2
    <3> QED BY <1>1, <1>g, <3>3, <3>4
  <2>4. Rest
    BY <1>1, <1>3, <1>g, <2>1, <2>3
       DEF Store!OneUnderWay, Store!SignOutWrites, Store!NothingBringsItBack,
           Store!SignedOutStaysOut, Store!Loaded, Store!NoData, Store!Absent, Store!Out
  <2> QED BY <1>1, <2>1, <2>2, <2>3, <2>4
\* A write that is under way is the oldest; once it is over the others wait.
<1>6. ASSUME NEW i \in DOMAIN v5, v5[i].data # Store!NoData, v5' = Store!RemoveAt(v5, i)
      PROVE  /\ i = 1 /\ v5[i] \in Store!Entries /\ v5' \in Seq(Store!Entries)
             /\ \A j \in DOMAIN v5' : /\ j + 1 \in DOMAIN v5 /\ j + 1 # i
                                      /\ v5'[j] = v5[j + 1] /\ v5'[j].data = Store!NoData
  <2>1. i = 1 /\ v5 # <<>> /\ DOMAIN v5 = 1..Len(v5) /\ Len(v5) \in Nat
    BY <1>1, <1>3, <1>6 DEF Store!OneUnderWay
  <2>2. /\ Store!RemoveAt(v5, 1) \in Seq(Store!Entries)
        /\ DOMAIN Store!RemoveAt(v5, 1) = 1..(Len(v5) - 1)
        /\ \A j \in 1..(Len(v5) - 1) : Store!RemoveAt(v5, 1)[j] = v5[j + 1]
    BY <1>1, <2>1, StoreChainFacts
  <2>3. ASSUME NEW j \in DOMAIN v5'
        PROVE  /\ j + 1 \in DOMAIN v5 /\ j + 1 # i
               /\ v5'[j] = v5[j + 1] /\ v5'[j].data = Store!NoData
    <3>1. j \in 1..(Len(v5) - 1)
      BY <1>6, <2>1, <2>2
    <3>2. j + 1 \in DOMAIN v5 /\ j + 1 > 1
      BY <2>1, <3>1
    <3>3. v5[j + 1].data = Store!NoData
      BY <1>3, <3>2 DEF Store!OneUnderWay
    <3> QED BY <1>6, <2>1, <2>2, <3>1, <3>2, <3>3
  <2> QED BY <1>1, <1>6, <2>1, <2>2, <2>3
<1>h. ASSUME NEW i \in DOMAIN v5, Store!WriteEnds(i) PROVE Flags /\ Types /\ Rest
  <2>1. /\ v5[i].data # Store!NoData /\ v1' = v5[i].data /\ v5' = Store!RemoveAt(v5, i)
        /\ IF v5[i].kind = "now" THEN v3' = FALSE /\ v7' = "done"
           ELSE UNCHANGED <<v3, v7>>
        /\ UNCHANGED <<v2, v4, v6, v8, v9, v12, v13>>
    BY <1>h DEF Store!WriteEnds
  <2>2. Flags
    BY <1>2, <2>1, Zenon
  <2>3. /\ i = 1 /\ v5[i] \in Store!Entries /\ v5' \in Seq(Store!Entries)
        /\ \A j \in DOMAIN v5' : /\ j + 1 \in DOMAIN v5 /\ j + 1 # i
                                 /\ v5'[j] = v5[j + 1] /\ v5'[j].data = Store!NoData
    BY <1>6, <2>1
  <2>4. v1' \in Store!Stores
    BY <2>1, <2>3 DEF Store!Entries
  <2>5. Types
    BY <1>1, <2>1, <2>3, <2>4
  <2>6. CASE v5[i].kind = "now"
    <3>1. /\ v7 = "writing" /\ Store!Out(v5[i].data) /\ v7' = "done"
          /\ \A j \in DOMAIN v5 : v5[j].kind = "now" => i = j
      BY <1>3, <2>1, <2>6 DEF Store!SignOutWrites
    <3>2. \A j \in DOMAIN v5' : v5'[j].kind # "now"
      BY <2>3, <3>1
    <3>3. Store!Out(v2) /\ v1'["account"] = Store!Absent
      BY <1>3, <2>1, <3>1 DEF Store!NothingBringsItBack, Store!Out
    <3>4. Rest
      BY <2>1, <2>3, <3>1, <3>2, <3>3
         DEF Store!OneUnderWay, Store!SignOutWrites, Store!NothingBringsItBack,
             Store!SignedOutStaysOut, Store!Out, Store!NoData, Store!Absent
    <3> QED BY <2>2, <2>5, <3>4
  <2>7. CASE v5[i].kind # "now"
    <3>1. UNCHANGED v7 /\ (v7 = "done" => v1'["account"] = Store!Absent)
      BY <1>3, <2>1, <2>7 DEF Store!NothingBringsItBack, Store!Out
    <3>2. Store!OneUnderWay'
      BY <2>3 DEF Store!OneUnderWay, Store!NoData
    <3>3. Store!SignOutWrites'
      BY <1>3, <2>1, <2>3, <3>1 DEF Store!SignOutWrites, Store!Loaded, Store!Out, Store!NoData,
         Store!Absent
    <3>4. Store!NothingBringsItBack' /\ Store!SignedOutStaysOut'
      BY <1>3, <2>1, <2>3, <3>1 DEF Store!NothingBringsItBack, Store!SignedOutStaysOut, Store!Out,
         Store!NoData, Store!Absent
    <3> QED BY <2>2, <2>5, <3>2, <3>3, <3>4
  <2> QED BY <2>6, <2>7
<1>i. ASSUME NEW i \in DOMAIN v5, Store!WriteFails(i) PROVE Flags /\ Types /\ Rest
  <2>1. /\ v5[i].data # Store!NoData /\ v5' = Store!RemoveAt(v5, i) /\ v3' = TRUE
        /\ v7' = IF v5[i].kind = "now" THEN "failed" ELSE v7
        /\ UNCHANGED <<v1, v2, v4, v6, v8, v9, v12, v13>>
    BY <1>i DEF Store!WriteFails
  <2>2. Flags
    BY <1>2, <2>1, Zenon
  <2>3. /\ i = 1 /\ v5[i] \in Store!Entries /\ v5' \in Seq(Store!Entries)
        /\ \A j \in DOMAIN v5' : /\ j + 1 \in DOMAIN v5 /\ j + 1 # i
                                 /\ v5'[j] = v5[j + 1] /\ v5'[j].data = Store!NoData
    BY <1>6, <2>1
  <2>4. Types
    BY <1>1, <2>1, <2>3
  <2>5. CASE v5[i].kind = "now"
    <3>1. /\ v7' = "failed" /\ \A j \in DOMAIN v5 : v5[j].kind = "now" => i = j
      BY <1>3, <2>1, <2>5 DEF Store!SignOutWrites
    <3>2. \A j \in DOMAIN v5' : v5'[j].kind # "now"
      BY <2>3, <3>1
    <3> QED BY <2>2, <2>3, <2>4, <3>1, <3>2
            DEF Store!OneUnderWay, Store!SignOutWrites, Store!NothingBringsItBack,
                Store!SignedOutStaysOut, Store!NoData
  <2>6. CASE v5[i].kind # "now"
    <3>1. UNCHANGED v7
      BY <2>1, <2>6
    <3>2. Store!OneUnderWay'
      BY <2>3 DEF Store!OneUnderWay, Store!NoData
    <3>3. Store!SignOutWrites'
      BY <1>3, <2>1, <2>3, <3>1 DEF Store!SignOutWrites, Store!Loaded, Store!Out, Store!NoData,
         Store!Absent
    <3>4. Store!NothingBringsItBack' /\ Store!SignedOutStaysOut'
      BY <1>3, <2>1, <2>3, <3>1 DEF Store!NothingBringsItBack, Store!SignedOutStaysOut, Store!Out,
         Store!NoData, Store!Absent
    <3> QED BY <2>2, <2>4, <3>2, <3>3, <3>4
  <2> QED BY <2>5, <2>6
<1>j. ASSUME Store!SignOut PROVE Flags /\ Types /\ Rest
  <2>1. /\ Store!Loaded /\ v6 = {} /\ v7 # "writing" /\ v8' \in {v8, TRUE}
        /\ v2' = [v2 EXCEPT !["account"] = Store!Absent]
        /\ v12' = [v12 EXCEPT !["account"] = Store!Absent]
        /\ v3' = TRUE /\ v4' = FALSE /\ v5' = Store!Queued("now") /\ v7' = "writing"
        /\ UNCHANGED <<v1, v6, v9, v13>>
    BY <1>j DEF Store!SignOut
  <2>2. Flags
    BY <1>2, <2>1, Zenon
  <2>3. v2 \in Store!Stores /\ Store!Absent \in 0..StoreMaxWrites
    BY <1>1, <2>1, StoreNoDataFacts DEF Store!Loaded, Store!Absent
  <2>4. v2' \in Store!Stores /\ v12' \in Store!Stores /\ Store!Out(v2')
    BY <1>1, <2>1, <2>3, StoreChangeFacts, StoreNoDataFacts
  <2> DEFINE e == [kind |-> "now", data |-> Store!NoData]
  <2>5. e \in Store!Entries /\ e.kind = "now" /\ e.data = Store!NoData
    BY DEF Store!Entries
  <2>6. v5' = Append(v5, e)
    BY <2>1 DEF Store!Queued
  <2> HIDE DEF e
  <2>7. /\ v5' \in Seq(Store!Entries) /\ DOMAIN v5' = DOMAIN v5 \union {Len(v5) + 1}
        /\ v5'[Len(v5) + 1] = e /\ \A i \in DOMAIN v5 : v5'[i] = v5[i]
    BY <1>1, <2>5, <2>6, StoreChainFacts
  <2>8. \A i \in DOMAIN v5 : v5[i].kind # "now"
    BY <1>3, <2>1 DEF Store!SignOutWrites
  <2>9. Types
    BY <1>1, <2>1, <2>4, <2>7
  <2>10. Store!OneUnderWay'
    BY <1>3, <2>5, <2>7 DEF Store!OneUnderWay, Store!NoData
  <2>11. Store!SignOutWrites'
    <3>1. v2' # Store!NoData
      BY <2>4, StoreNoDataFacts
    <3> QED BY <2>1, <2>5, <2>7, <2>8, <3>1 DEF Store!SignOutWrites, Store!Loaded, Store!Out,
               Store!NoData, Store!Absent
  <2>12. Store!NothingBringsItBack' /\ Store!SignedOutStaysOut'
    BY <2>1, <2>4 DEF Store!NothingBringsItBack, Store!SignedOutStaysOut, Store!Out, Store!NoData,
       Store!Absent
  <2> QED BY <2>2, <2>9, <2>10, <2>11, <2>12
<1>k. ASSUME Store!MarkerFails \/ Store!AutoAsks \/ Store!AutoKeeps \/ Store!BeforeQuit
      PROVE  Flags /\ Types /\ Rest
  <2>1. UNCHANGED <<v1, v2, v3, v4, v5, v6, v8, v12, v13>>
    BY <1>k DEF Store!MarkerFails, Store!AutoAsks, Store!AutoKeeps, Store!BeforeQuit, Store!writes
  <2>2. /\ v7' = v7 \/ (v7' = "failed" /\ v7 # "writing")
        /\ v9' \in {v9, "over", "asked"}
    BY <1>k DEF Store!MarkerFails, Store!AutoAsks, Store!AutoKeeps, Store!BeforeQuit
  <2>3. Flags
    BY <1>2, <2>1, Zenon
  <2>4. Types
    BY <1>1, <2>1, <2>2
  <2>5. Rest
    BY <1>1, <1>3, <2>1, <2>2
       DEF Store!OneUnderWay, Store!SignOutWrites, Store!NothingBringsItBack,
           Store!SignedOutStaysOut, Store!Loaded, Store!Out, Store!NoData, Store!Absent
  <2> QED BY <2>3, <2>4, <2>5
<1>l. ASSUME Store!AutoForgets PROVE Flags /\ Types /\ Rest
  <2>1. /\ v9' = "over" /\ Store!Loaded /\ v7 # "writing"
        /\ Store!Change(v2, "account", Store!Absent)
        /\ UNCHANGED <<v1, v5, v6, v7, v8, v13>>
    BY <1>l DEF Store!AutoForgets
  <2>2. v2 \in Store!Stores /\ Store!Absent \in 0..StoreMaxWrites
    BY <1>1, <2>1, StoreNoDataFacts DEF Store!Loaded, Store!Absent
  <2>3. v2' \in Store!Stores /\ v12' \in Store!Stores /\ Store!Out(v2')
    BY <1>1, <2>1, <2>2, StoreChangeFacts, StoreNoDataFacts DEF Store!Change
  <2>4. Flags
    BY <1>2, <2>1, Zenon DEF Store!Change
  <2>5. Types
    BY <1>1, <2>1, <2>3
  <2> QED BY <1>1, <1>3, <1>4, <2>1, <2>3, <2>4, <2>5 DEF Store!SignedOutStaysOut, Store!Out,
             Store!Absent
<1>m. ASSUME Store!FlushSync PROVE Flags /\ Types /\ Rest
  <2>1. /\ v4' = FALSE /\ UNCHANGED <<v2, v5, v6, v7, v8, v9, v12, v13>>
        /\ \/ Store!Unwritten /\ v1' = v2 /\ v3' = FALSE
           \/ UNCHANGED <<v1, v3>>
    BY <1>m DEF Store!FlushSync
  <2>2. Flags
    BY <1>2, <2>1, Zenon
  <2>3. v1' \in Store!Stores
    BY <1>1, <2>1 DEF Store!Unwritten, Store!Loaded
  <2>4. v7 = "done" => Store!Out(v1')
    BY <1>3, <2>1 DEF Store!NothingBringsItBack, Store!SignedOutStaysOut, Store!Out
  <2>5. Types
    BY <1>1, <2>1, <2>3
  <2> QED BY <1>1, <1>3, <1>4, <2>1, <2>2, <2>3, <2>4, <2>5 DEF Store!NothingBringsItBack,
             Store!SignOutWrites, Store!Loaded, Store!Out
<1>n. ASSUME Store!RestartApp PROVE Flags /\ Types /\ Rest
  <2>1. /\ Store!Loaded /\ v6 = {} /\ v2' = [v2 EXCEPT !["resume"] = Store!Absent]
        /\ v12' = [v12 EXCEPT !["resume"] = Store!Absent] /\ v1' = v2'
        /\ v3' = FALSE /\ v4' = FALSE
        /\ UNCHANGED <<v5, v6, v7, v8, v9, v13>>
    BY <1>n DEF Store!RestartApp
  <2>2. Flags
    BY <1>2, <2>1, Zenon
  <2>3. v2 \in Store!Stores /\ Store!Absent \in 0..StoreMaxWrites /\ "resume" # "account"
    BY <1>1, <2>1, StoreNoDataFacts DEF Store!Loaded, Store!Absent
  <2>4. v2' \in Store!Stores /\ v12' \in Store!Stores /\ (Store!Out(v2') <=> Store!Out(v2)) /\
          v2' # Store!NoData
    <3>1. "resume" \in StoreKeys /\ v12 \in Store!Stores
      BY <1>1, StoreNoDataFacts
    <3>2. /\ [v2 EXCEPT !["resume"] = Store!Absent] \in Store!Stores
          /\ Store!Out([v2 EXCEPT !["resume"] = Store!Absent]) <=> Store!Out(v2)
      BY <2>3, <3>1, StoreChangeFacts
    <3>3. [v12 EXCEPT !["resume"] = Store!Absent] \in Store!Stores
      BY <2>3, <3>1, StoreChangeFacts
    <3> QED BY <2>1, <3>2, <3>3, StoreNoDataFacts
  <2>5. Types
    BY <1>1, <2>1, <2>4
  <2> QED BY <1>1, <1>3, <1>4, <2>1, <2>2, <2>4, <2>5 DEF Store!NothingBringsItBack, Store!Out
<1>o. ASSUME Store!Exit \/ Store!Crash PROVE Flags /\ Types /\ Rest
  <2>1. /\ v2' = Store!NoData /\ v3' = FALSE /\ v4' = FALSE /\ v5' = <<>> /\ v6' = {}
        /\ v7' = (IF v7 = "writing" THEN "failed" ELSE v7)
        /\ UNCHANGED <<v1, v8, v9, v12, v13>>
    BY <1>o DEF Store!Exit, Store!Crash, Store!Stops
  <2>2. Flags
    BY <1>2, <2>1, Zenon
  <2>3. v5' \in Seq(Store!Entries) /\ DOMAIN v5' = {}
    BY <2>1
  <2>4. Types
    BY <1>1, <2>1, <2>3
  <2>5. Rest
    BY <1>1, <1>3, <2>1, <2>3
       DEF Store!OneUnderWay, Store!SignOutWrites, Store!NothingBringsItBack,
           Store!SignedOutStaysOut, Store!Loaded, Store!Out, Store!NoData, Store!Absent
  <2> QED BY <2>2, <2>4, <2>5
<1>p. ASSUME Store!Start PROVE Flags /\ Types /\ Rest
  <2>1. /\ v12' = v1 /\ v8' = FALSE /\ v9' = "idle"
        /\ UNCHANGED <<v1, v2, v3, v4, v5, v6, v7, v13>>
    BY <1>p DEF Store!Start, Store!writes
  <2>2. Flags
    BY <1>2, <2>1, Zenon
  <2>3. Types
    BY <1>1, <2>1
  <2> QED BY <1>1, <1>3, <1>4, <2>1, <2>2, <2>3 DEF Store!NothingBringsItBack,
             Store!SignOutWrites, Store!SignedOutStaysOut, Store!Loaded, Store!Out
<1>z. ASSUME Flags, Types, Rest
      PROVE  Store!IInv'
  <2>1. Store!Stores' = Store!Stores /\ Store!Entries' = Store!Entries
    BY DEF Store!Stores, Store!Entries, Store!NoData
  <2> QED BY <1>z, <2>1, Zenon DEF Store!IInv, Store!TypeOK, Store!NoData
<1> HIDE DEF Flags, Types, Rest
<1> QED BY <1>a, <1>b, <1>c, <1>d, <1>e, <1>f, <1>g, <1>h, <1>i, <1>j, <1>k, <1>l, <1>m, <1>n,
           <1>o, <1>p, <1>z, Zenon DEF Store!Next, Store!Handlers, Store!DiskWrites,
           Store!Account, Store!Process


-----------------------------------------------------------------------------
(* Discord (DiscordPresence), and that its invariant holds at the start and is kept by
   each step. *)
Presence == INSTANCE DiscordPresence WITH
  Paths <- PresencePaths, MaxSocks <- PresenceMaxSocks, MaxSongs <- PresenceMaxSongs,
  MaxFaults <- PresenceMaxFaults, wanted <- v1, song <- v2, enabled <- v3, pending <- v4,
  ready <- v5, connecting <- v6, timer <- v7, socket <- v8, socks <- v9, up <- v10,
  presses <- v11, faults <- v12

LEMMA PresenceInitEstablishes ==
  ASSUME Presence!PresenceAssumption, Presence!Init
  PROVE  Presence!IInv
<1>1. Presence!Unused \in Presence!Connections
  BY DEF Presence!Unused, Presence!Init, Presence!PresenceAssumption, Presence!None,
     Presence!Connections
<1>2. v9 \in [Presence!Socks -> Presence!Connections]
  BY <1>1 DEF Presence!Init
<1>3. /\ v2 = 1 /\ v4 = 0 /\ v11 = 0 /\ v8 = 0
      /\ v10 \subseteq 1..PresencePaths
  BY DEF Presence!Init, Presence!None
<1>4. v11 \in 0..PresenceMaxSongs /\ v2 \in 1..v11 + 1 /\ v4 \in 0..v2
  BY <1>3 DEF Presence!PresenceAssumption
<1>5. Presence!TypeOK
  BY <1>2, <1>3, <1>4, Zenon DEF Presence!Init, Presence!TypeOK, Presence!None
<1>6. \A k \in Presence!Socks : v9[k].at = "unused" /\ v9[k].shows = Presence!None
  BY DEF Presence!Init, Presence!Unused
<1>7. Presence!OneConnection /\ Presence!ShownOnTheSocket /\ Presence!UnseenIsUnseen
  BY <1>3, <1>6 DEF Presence!OneConnection, Presence!ShownOnTheSocket, Presence!UnseenIsUnseen,
     Presence!Live, Presence!None
<1> QED BY <1>3, <1>5, <1>7 DEF Presence!IInv, Presence!None
\* What closing and trying do to the connections.
LEMMA PresenceConnectionFacts ==
  ASSUME Presence!PresenceAssumption, NEW ss \in [Presence!Socks -> Presence!Connections],
         v2 \in Nat, NEW k \in Presence!Socks
  PROVE  /\ Presence!Closed(ss, k) \in [Presence!Socks -> Presence!Connections]
         /\ \A l \in Presence!Socks : l # k => Presence!Closed(ss, k)[l] = ss[l]
         /\ Presence!Closed(ss, k)[k].at = "closed"
         /\ Presence!Closed(ss, k)[k].shows = Presence!None
         /\ \A p \in 1..PresencePaths :
              /\ Presence!Trying(ss, k, p) \in [Presence!Socks -> Presence!Connections]
              /\ \A l \in Presence!Socks : l # k => Presence!Trying(ss, k, p)[l] = ss[l]
              /\ Presence!Trying(ss, k, p)[k].at = "trying"
              /\ Presence!Trying(ss, k, p)[k].shows = Presence!None
<1>1. 0 \in 0..v2 /\ \A p \in 1..PresencePaths : p \in 0..PresencePaths
  BY DEF Presence!PresenceAssumption
<1>2. /\ Presence!Closed(ss, k) \in [Presence!Socks -> Presence!Connections]
      /\ \A l \in Presence!Socks : l # k => Presence!Closed(ss, k)[l] = ss[l]
      /\ Presence!Closed(ss, k)[k].at = "closed" /\ Presence!Closed(ss, k)[k].shows = Presence!None
  <2> DEFINE c == [[ss[k] EXCEPT !.at = "closed"] EXCEPT !.shows = Presence!None]
  <2>1. c \in Presence!Connections /\ c.at = "closed" /\ c.shows = Presence!None
    BY <1>1 DEF Presence!Connections, Presence!None
  <2>2. Presence!Closed(ss, k) = [ss EXCEPT ![k] = c]
    BY DEF Presence!Closed
  <2> HIDE DEF c
  <2> QED BY <2>1, <2>2
<1>3. ASSUME NEW p \in 1..PresencePaths
      PROVE  /\ Presence!Trying(ss, k, p) \in [Presence!Socks -> Presence!Connections]
             /\ \A l \in Presence!Socks : l # k => Presence!Trying(ss, k, p)[l] = ss[l]
             /\ Presence!Trying(ss, k, p)[k].at = "trying"
             /\ Presence!Trying(ss, k, p)[k].shows = Presence!None
  <2> DEFINE c == [path |-> p, at |-> "trying", shows |-> Presence!None]
  <2>1. c \in Presence!Connections /\ c.at = "trying" /\ c.shows = Presence!None
    BY <1>1 DEF Presence!Connections, Presence!None
  <2>2. Presence!Trying(ss, k, p) = [ss EXCEPT ![k] = c]
    BY DEF Presence!Trying
  <2> HIDE DEF c
  <2> QED BY <2>1, <2>2
<1> QED BY <1>2, <1>3

\* A step that lets the song alone.
LEMMA PresenceSearchSteps ==
  ASSUME Presence!PresenceAssumption, Presence!IInv,
         \/ \E k \in Presence!Socks : Presence!Answered(k) \/ Presence!Ready(k) \/
              Presence!Breaks(k)
         \/ Presence!TimerFires
  PROVE  /\ v9' \in [Presence!Socks -> Presence!Connections]
         /\ v8' \in {Presence!None} \union Presence!Socks
         /\ Presence!OneConnection' /\ Presence!ShownOnTheSocket' /\ Presence!UnseenIsUnseen'
<1>1. /\ v9 \in [Presence!Socks -> Presence!Connections]
      /\ v8 \in {Presence!None} \union Presence!Socks
      /\ v2 \in Nat /\ v4 \in 0..v2
      /\ Presence!OneConnection /\ Presence!ShownOnTheSocket /\ Presence!UnseenIsUnseen
      /\ ~v1 => v4 = Presence!None
      /\ PresencePaths \in Nat \ {0}
  BY DEF Presence!IInv, Presence!TypeOK, Presence!PresenceAssumption
<1>2. 0 \notin Presence!Socks /\ 1 \in 1..PresencePaths
  BY <1>1 DEF Presence!Socks
<1>3. \A k \in Presence!Socks : v9[k].path \in 0..PresencePaths /\
        v9[k].at \in {"unused", "trying", "open", "ready", "closed"}
  BY <1>1 DEF Presence!Connections
<1>4. \A k \in Presence!Socks : v9[k].path < PresencePaths => v9[k].path + 1 \in 1..PresencePaths
  BY <1>1, <1>3
<1>5. Presence!Fresh \subseteq Presence!Socks /\ \A k \in Presence!Fresh : v9[k].at = "unused"
  BY DEF Presence!Fresh, Presence!Tried
<1> DEFINE Goal == /\ v9' \in [Presence!Socks -> Presence!Connections]
                   /\ v8' \in {Presence!None} \union Presence!Socks
                   /\ Presence!OneConnection' /\ Presence!ShownOnTheSocket'
                   /\ Presence!UnseenIsUnseen'
<1>a. ASSUME v8 = Presence!None
      PROVE  \A l \in Presence!Socks : ~Presence!Live(l) /\ v9[l].shows = Presence!None
  BY <1>1, <1>2, <1>a DEF Presence!OneConnection, Presence!ShownOnTheSocket, Presence!Live,
     Presence!None
<1>6. ASSUME NEW k \in Presence!Socks, Presence!Answered(k)
      PROVE  Goal
  <2>1. /\ v9[k].at = "trying" /\ UNCHANGED <<v1, v2, v5>>
        /\ \/ /\ v8' = k /\ v9' = [v9 EXCEPT ![k].at = "open"]
           \/ Presence!TryNext(k) /\ UNCHANGED v8
    BY <1>6 DEF Presence!Answered, Presence!page
  <2>2. v8 = Presence!None
    BY <1>1, <2>1 DEF Presence!OneConnection
  <2>3. \A l \in Presence!Socks : ~Presence!Live(l) /\ v9[l].shows = Presence!None /\
          (l # k => v9[l].at # "trying")
    BY <1>1, <1>a, <2>1, <2>2 DEF Presence!OneConnection
  <2>4. CASE v8' = k /\ v9' = [v9 EXCEPT ![k].at = "open"]
    <3>1. v9' \in [Presence!Socks -> Presence!Connections]
      BY <1>1, <2>1, <2>4 DEF Presence!Connections
    <3>2. /\ v9'[k].at = "open" /\ v9'[k].shows = Presence!None
          /\ \A l \in Presence!Socks : l # k => v9'[l] = v9[l]
      BY <1>1, <2>3, <2>4 DEF Presence!Connections
    <3> QED BY <1>2, <2>3, <2>4, <3>1, <3>2
            DEF Presence!OneConnection, Presence!ShownOnTheSocket, Presence!UnseenIsUnseen,
                Presence!Live, Presence!None
  <2>5. CASE UNCHANGED v8 /\ v9' = Presence!Closed(v9, k)
    <3>1. /\ v9' \in [Presence!Socks -> Presence!Connections]
          /\ v9'[k].at = "closed" /\ v9'[k].shows = Presence!None
          /\ \A l \in Presence!Socks : l # k => v9'[l] = v9[l]
      BY <1>1, <2>1, <2>5, PresenceConnectionFacts
    <3> QED BY <1>1, <2>1, <2>2, <2>3, <2>5, <3>1 DEF Presence!OneConnection,
               Presence!ShownOnTheSocket, Presence!UnseenIsUnseen, Presence!Live
  <2>6. CASE /\ UNCHANGED v8 /\ v9[k].path < PresencePaths
             /\ \E l \in Presence!Fresh :
                  v9' = Presence!Trying(Presence!Closed(v9, k), l, v9[k].path + 1)
    <3>1. PICK l \in Presence!Fresh : v9' = Presence!Trying(Presence!Closed(v9, k), l,
                 v9[k].path + 1)
      BY <2>6
    <3>2. l \in Presence!Socks /\ l # k /\ v9[k].path + 1 \in 1..PresencePaths
      BY <1>4, <1>5, <2>1, <2>6
    <3>3. /\ Presence!Closed(v9, k) \in [Presence!Socks -> Presence!Connections]
          /\ Presence!Closed(v9, k)[k].at = "closed"
          /\ Presence!Closed(v9, k)[k].shows = Presence!None
          /\ \A m \in Presence!Socks : m # k => Presence!Closed(v9, k)[m] = v9[m]
      BY <1>1, <2>1, PresenceConnectionFacts
    <3>4. /\ v9' \in [Presence!Socks -> Presence!Connections]
          /\ v9'[l].at = "trying" /\ v9'[l].shows = Presence!None
          /\ \A m \in Presence!Socks : m # l => v9'[m] = Presence!Closed(v9, k)[m]
      BY <1>1, <2>1, <3>1, <3>2, <3>3, PresenceConnectionFacts
    <3> HIDE DEF Goal
    <3>5. \A m \in Presence!Socks : /\ v9'[m].shows = Presence!None
                                    /\ v9'[m].at \notin {"open", "ready"}
                                    /\ v9'[m].at = "trying" => m = l
      BY <2>3, <3>2, <3>3, <3>4 DEF Presence!Live
    <3>6. v8' = Presence!None
      BY <2>2, <2>6
    <3>7. Presence!OneConnection'
      BY <3>5, <3>6 DEF Presence!OneConnection, Presence!Live, Presence!None
    <3>8. Presence!ShownOnTheSocket' /\ Presence!UnseenIsUnseen'
      BY <3>5 DEF Presence!ShownOnTheSocket, Presence!UnseenIsUnseen, Presence!None
    <3> QED BY <3>4, <3>6, <3>7, <3>8 DEF Goal
  <2> QED BY <2>1, <2>4, <2>5, <2>6 DEF Presence!TryNext
<1>7. ASSUME NEW k \in Presence!Socks, Presence!Ready(k)
      PROVE  Goal
  <2>1. /\ v9[k].at = "open" /\ v5' = TRUE /\ UNCHANGED <<v1, v2, v8>>
        /\ v9' = Presence!SendPending([v9 EXCEPT ![k].at = "ready"], v8, v4)
    BY <1>7 DEF Presence!Ready, Presence!page
  <2>2. v8 = k /\ \A l \in Presence!Socks : l # k =>
          ~Presence!Live(l) /\ v9[l].shows = Presence!None /\ v9[l].at # "trying"
    BY <1>1, <2>1, <1>2 DEF Presence!OneConnection, Presence!ShownOnTheSocket, Presence!Live,
       Presence!None
  <2>3. v9[k].shows = Presence!None
    BY <1>1, <2>1 DEF Presence!ShownOnTheSocket
  <2> DEFINE ss == [v9 EXCEPT ![k].at = "ready"]
  <2>4. /\ ss \in [Presence!Socks -> Presence!Connections] /\ ss[k].at = "ready"
        /\ ss[k].shows = Presence!None
        /\ \A l \in Presence!Socks : l # k => ss[l] = v9[l]
    BY <1>1, <2>3 DEF Presence!Connections
  <2> HIDE DEF ss
  <2>5. v9' = IF v4 = Presence!None THEN ss ELSE [ss EXCEPT ![k].shows = v4]
    BY <1>2, <2>1, <2>2, <2>4 DEF Presence!SendPending, Presence!Send, Presence!None, ss
  <2>6. /\ v9' \in [Presence!Socks -> Presence!Connections] /\ v9'[k].at = "ready"
        /\ v4 = Presence!None => v9'[k].shows = Presence!None
        /\ \A l \in Presence!Socks : l # k => v9'[l] = v9[l]
    BY <1>1, <2>1, <2>4, <2>5 DEF Presence!Connections
  <2>7. v5' = TRUE
    BY <2>1
  <2>8. Presence!OneConnection'
    BY <1>1, <2>1, <2>2, <2>6, <2>7 DEF Presence!OneConnection, Presence!Live
  <2>9. Presence!ShownOnTheSocket' /\ Presence!UnseenIsUnseen'
    BY <1>1, <2>1, <2>2, <2>6 DEF Presence!ShownOnTheSocket, Presence!UnseenIsUnseen
  <2> QED BY <1>1, <2>1, <2>6, <2>8, <2>9
<1>8. ASSUME NEW k \in Presence!Socks, Presence!Breaks(k)
      PROVE  Goal
  <2>1. Presence!Live(k) /\ UNCHANGED <<v1, v2>> /\ v5' = FALSE /\ v8' = Presence!None
    BY <1>8 DEF Presence!Breaks, Presence!OnClose, Presence!NoLongerReady, Presence!page
  <2>2. v8 = k /\ v8 # Presence!None
        /\ \A l \in Presence!Socks : l # k =>
             ~Presence!Live(l) /\ v9[l].shows = Presence!None /\ v9[l].at # "trying"
    BY <1>1, <1>2, <2>1 DEF Presence!OneConnection, Presence!ShownOnTheSocket, Presence!Live,
       Presence!None
  <2> DEFINE once == Presence!Closed(v9, k)
             ss == Presence!Closed(once, k)
  <2>0. /\ once \in [Presence!Socks -> Presence!Connections]
        /\ \A l \in Presence!Socks : l # k => once[l] = v9[l]
    BY <1>1, PresenceConnectionFacts
  <2>3. /\ ss \in [Presence!Socks -> Presence!Connections]
        /\ \A l \in Presence!Socks : ~(ss[l].at \in {"open", "ready"}) /\
             ss[l].shows = Presence!None /\ ss[l].at # "trying"
        /\ \A l \in Presence!Socks : l # k => ss[l] = v9[l]
    <3> HIDE DEF once
    <3>1. /\ ss \in [Presence!Socks -> Presence!Connections]
          /\ \A l \in Presence!Socks : l # k => ss[l] = once[l]
          /\ ss[k].at = "closed" /\ ss[k].shows = Presence!None
      BY <1>1, <2>0, PresenceConnectionFacts
    <3> HIDE DEF ss
    <3> QED BY <2>0, <2>2, <3>1 DEF Presence!Live
  <2> HIDE DEF ss
  <2>4. CASE v9' = ss
    BY <2>1, <2>3, <2>4 DEF Presence!OneConnection, Presence!ShownOnTheSocket,
       Presence!UnseenIsUnseen, Presence!Live
  <2>5. CASE /\ v9[k].path < PresencePaths
             /\ \E l \in Presence!Fresh : v9' = Presence!Trying(ss, l, v9[k].path + 1)
    <3>1. PICK l \in Presence!Fresh : v9' = Presence!Trying(ss, l, v9[k].path + 1)
      BY <2>5
    <3>2. l \in Presence!Socks /\ v9[k].path + 1 \in 1..PresencePaths
      BY <1>4, <1>5, <2>5
    <3>3. /\ v9' \in [Presence!Socks -> Presence!Connections]
          /\ v9'[l].at = "trying" /\ v9'[l].shows = Presence!None
          /\ \A m \in Presence!Socks : m # l => v9'[m] = ss[m]
      BY <1>1, <2>1, <2>3, <3>1, <3>2, PresenceConnectionFacts
    <3> QED BY <2>1, <2>3, <3>3 DEF Presence!OneConnection, Presence!ShownOnTheSocket,
               Presence!UnseenIsUnseen, Presence!Live
  <2>6. \/ v9' = ss
        \/ /\ v9[k].path < PresencePaths
           /\ \E l \in Presence!Fresh : v9' = Presence!Trying(ss, l, v9[k].path + 1)
    BY <1>8, <2>2 DEF Presence!Breaks, Presence!OnClose, ss, once
  <2> QED BY <2>4, <2>5, <2>6
<1>9. ASSUME Presence!TimerFires
      PROVE  Goal
  <2>1. Presence!Connect /\ UNCHANGED <<v1, v2, v5, v8>>
        /\ \A l \in Presence!Socks : v9[l].at \notin {"trying", "open"}
    BY <1>9 DEF Presence!TimerFires, Presence!Answers, Presence!page
  <2>2. CASE UNCHANGED v9
    BY <1>1, <2>1, <2>2 DEF Presence!OneConnection, Presence!ShownOnTheSocket,
       Presence!UnseenIsUnseen, Presence!Live
  <2>3. CASE ~v5 /\ \E l \in Presence!Fresh : v9' = Presence!Trying(v9, l, 1)
    <3>1. v8 = Presence!None
      BY <1>1, <2>1, <2>3 DEF Presence!OneConnection, Presence!Live
    <3>2. PICK l \in Presence!Fresh : v9' = Presence!Trying(v9, l, 1)
      BY <2>3
    <3>3. /\ l \in Presence!Socks /\ v9' \in [Presence!Socks -> Presence!Connections]
          /\ v9'[l].at = "trying" /\ v9'[l].shows = Presence!None
          /\ \A m \in Presence!Socks : m # l => v9'[m] = v9[m]
      BY <1>1, <1>2, <1>5, <3>2, PresenceConnectionFacts
    <3>4. \A m \in Presence!Socks : /\ v9'[m].shows = Presence!None
                                    /\ v9'[m].at \notin {"open", "ready"}
                                    /\ v9'[m].at = "trying" => m = l
      BY <1>a, <2>1, <3>1, <3>3 DEF Presence!Live
    <3>5. Presence!OneConnection'
      BY <2>1, <3>1, <3>4 DEF Presence!OneConnection, Presence!Live, Presence!None
    <3>6. Presence!ShownOnTheSocket' /\ Presence!UnseenIsUnseen'
      BY <3>4 DEF Presence!ShownOnTheSocket, Presence!UnseenIsUnseen, Presence!None
    <3> QED BY <1>1, <2>1, <3>3, <3>5, <3>6
  <2> QED BY <2>1, <2>2, <2>3 DEF Presence!Connect
<1> QED BY <1>6, <1>7, <1>8, <1>9

\* discord:update, told to a user who wants to be seen.
LEMMA PresenceUpdateHolds ==
  ASSUME Presence!PresenceAssumption, Presence!IInv, Presence!Quiet, NEW s \in Nat,
         Presence!Update(s), v1' = TRUE, UNCHANGED v10,
         v2' \in Nat, v2 <= v2', s <= v2'
  PROVE  /\ v9' \in [Presence!Socks -> Presence!Connections'] /\ v8' = v8 /\ v5' = v5 /\ v4' = s
         /\ Presence!OneConnection' /\ Presence!ShownOnTheSocket' /\ Presence!UnseenIsUnseen'
<1>1. /\ v9 \in [Presence!Socks -> Presence!Connections]
      /\ v8 \in {Presence!None} \union Presence!Socks
      /\ v2 \in Nat
      /\ Presence!OneConnection /\ Presence!ShownOnTheSocket
      /\ PresencePaths \in Nat \ {0}
  BY DEF Presence!IInv, Presence!TypeOK, Presence!PresenceAssumption
<1>2. 0 \notin Presence!Socks /\ 1 \in 1..PresencePaths
  BY <1>1 DEF Presence!Socks
<1>3. Presence!Fresh \subseteq Presence!Socks
  BY DEF Presence!Fresh
<1>4. Presence!Connections \subseteq Presence!Connections' /\
        \A c \in Presence!Connections : [c EXCEPT !.shows = s] \in Presence!Connections'
  BY <1>1 DEF Presence!Connections
<1>5. v5' = v5 /\ v8' = v8 /\ v4' = s /\ Presence!UnseenIsUnseen'
  BY DEF Presence!Update, Presence!UnseenIsUnseen
<1>6. CASE UNCHANGED v9
  <2>1. v9' \in [Presence!Socks -> Presence!Connections']
    BY <1>1, <1>4, <1>6
  <2> QED BY <1>1, <1>5, <1>6, <2>1 DEF Presence!OneConnection, Presence!ShownOnTheSocket,
             Presence!Live
<1>7. CASE v8 = Presence!None /\ ~v6 /\ \E l \in Presence!Fresh : v9' = Presence!Trying(v9, l, 1)
  <2>1. PICK l \in Presence!Fresh : v9' = Presence!Trying(v9, l, 1)
    BY <1>7
  <2>2. /\ l \in Presence!Socks /\ v9' \in [Presence!Socks -> Presence!Connections]
        /\ v9'[l].at = "trying" /\ v9'[l].shows = Presence!None
        /\ \A m \in Presence!Socks : m # l => v9'[m] = v9[m]
    BY <1>1, <1>2, <1>3, <2>1, PresenceConnectionFacts
  <2>3. \A m \in Presence!Socks : ~Presence!Live(m) /\ v9[m].shows = Presence!None /\
          v9[m].at # "trying"
    BY <1>1, <1>2, <1>7 DEF Presence!OneConnection, Presence!ShownOnTheSocket, Presence!Live,
       Presence!Quiet, Presence!None
  <2>4. \A m \in Presence!Socks : /\ v9'[m].shows = Presence!None
                                  /\ v9'[m].at \notin {"open", "ready"}
                                  /\ v9'[m].at = "trying" => m = l
    BY <2>2, <2>3 DEF Presence!Live
  <2>5. Presence!OneConnection'
    BY <1>5, <1>7, <2>4 DEF Presence!OneConnection, Presence!Live, Presence!None
  <2>6. Presence!ShownOnTheSocket'
    BY <2>4 DEF Presence!ShownOnTheSocket, Presence!None
  <2>7. v9' \in [Presence!Socks -> Presence!Connections']
    BY <1>4, <2>2
  <2> QED BY <1>5, <2>5, <2>6, <2>7
<1>8. CASE /\ v8 # Presence!None /\ v9[v8].at = "ready"
           /\ v9' = [v9 EXCEPT ![v8].shows = s]
  <2>1. v9' \in [Presence!Socks -> Presence!Connections']
    BY <1>1, <1>4, <1>8
  <2>2. \A m \in Presence!Socks : /\ v9'[m].at = v9[m].at
                                  /\ m # v8 => v9'[m] = v9[m]
    BY <1>1, <1>8 DEF Presence!Connections
  <2> HIDE DEF Presence!Connections
  <2>3. Presence!OneConnection'
    BY <1>1, <1>5, <2>2 DEF Presence!OneConnection, Presence!Live, Presence!None
  <2>4. Presence!ShownOnTheSocket'
    BY <1>1, <1>8, <2>2 DEF Presence!ShownOnTheSocket
  <2> QED BY <1>5, <2>1, <2>3, <2>4
<1> QED BY <1>6, <1>7, <1>8 DEF Presence!Update, Presence!Connect, Presence!Send

LEMMA PresenceStepPreserves ==
  ASSUME Presence!PresenceAssumption
  PROVE  Presence!IInv /\ [Presence!Next]_(Presence!vars) => Presence!IInv'
<1> SUFFICES ASSUME Presence!IInv, [Presence!Next]_(Presence!vars)
             PROVE  Presence!IInv'
  OBVIOUS
<1>1. /\ v9 \in [Presence!Socks -> Presence!Connections]
      /\ v8 \in {Presence!None} \union Presence!Socks
      /\ v11 \in 0..PresenceMaxSongs /\ v2 \in 1..v11 + 1 /\ v4 \in 0..v2
      /\ v10 \subseteq 1..PresencePaths /\ Presence!OneConnection /\ Presence!ShownOnTheSocket
      /\ Presence!UnseenIsUnseen
      /\ PresenceMaxSongs \in Nat
  BY DEF Presence!IInv, Presence!TypeOK, Presence!PresenceAssumption
<1> DEFINE Flags == /\ v1' \in BOOLEAN /\ v3' \in BOOLEAN /\ v5' \in BOOLEAN
                    /\ v6' \in BOOLEAN /\ v7' \in BOOLEAN
           Goal == /\ v10' \subseteq 1..PresencePaths
                   /\ v11' \in 0..PresenceMaxSongs /\ v2' \in 1..v11' + 1 /\ v4' \in 0..v2'
                   /\ v8' \in {Presence!None} \union Presence!Socks
                   /\ v9' \in [Presence!Socks -> Presence!Connections']
                   /\ Presence!OneConnection' /\ Presence!ShownOnTheSocket'
                   /\ Presence!UnseenIsUnseen'
                   /\ ~v1' => v4' = Presence!None
<1>a. ~v1 => v4 = Presence!None
  BY DEF Presence!IInv
<1>b. /\ v1 \in BOOLEAN /\ v3 \in BOOLEAN /\ v5 \in BOOLEAN /\ v6 \in BOOLEAN
      /\ v7 \in BOOLEAN
  BY DEF Presence!IInv, Presence!TypeOK
<1>c. ASSUME UNCHANGED v2
      PROVE  Presence!Connections' = Presence!Connections
  BY <1>c DEF Presence!Connections
<1>2. CASE UNCHANGED Presence!vars
  <2>1. UNCHANGED <<v1, v2, v3, v4, v5, v6, v7, v8, v9, v10, v11>>
    BY <1>2 DEF Presence!vars, Presence!page, Presence!main
  <2>2. Flags
    BY <1>b, <2>1, Zenon
  <2>3. Presence!OneConnection' /\ Presence!ShownOnTheSocket' /\ Presence!UnseenIsUnseen'
    BY <1>1, <2>1 DEF Presence!OneConnection, Presence!ShownOnTheSocket, Presence!UnseenIsUnseen,
       Presence!Live
  <2>4. Goal
    BY <1>1, <1>a, <1>c, <2>1, <2>3
  <2> QED BY <2>2, <2>4, Zenon DEF Presence!IInv, Presence!TypeOK, Presence!Socks
<1>3. ASSUME Presence!Searches \/ Presence!TimerFires \/
             \E k \in Presence!Socks : Presence!Breaks(k)
      PROVE  Flags /\ Goal
  <2>1. UNCHANGED <<v1, v2, v11, v3, v4, v10>>
    BY <1>3, Zenon DEF Presence!Searches, Presence!Answered, Presence!Ready, Presence!TimerFires,
       Presence!Breaks, Presence!page
  <2>2. Flags
    BY <1>3, <1>b, <2>1, Zenon DEF Presence!Searches, Presence!Answered, Presence!Ready,
       Presence!TimerFires, Presence!Breaks, Presence!Connect, Presence!OnClose,
                                   Presence!NoLongerReady
  <2>3. /\ v9' \in [Presence!Socks -> Presence!Connections]
        /\ v8' \in {Presence!None} \union Presence!Socks
        /\ Presence!OneConnection' /\ Presence!ShownOnTheSocket' /\ Presence!UnseenIsUnseen'
    BY <1>3, PresenceSearchSteps, Zenon DEF Presence!Searches
  <2> QED BY <1>1, <1>a, <1>c, <2>1, <2>2, <2>3
<1>4. ASSUME Presence!Discord
      PROVE  Flags /\ Goal
  <2>1. UNCHANGED <<v1, v2, v3, v4, v5, v6, v7, v8, v9, v11>>
    BY <1>4 DEF Presence!Discord, Presence!page, Presence!main
  <2>2. Flags
    BY <1>b, <2>1, Zenon
  <2>3. Presence!OneConnection' /\ Presence!ShownOnTheSocket' /\ Presence!UnseenIsUnseen'
    BY <1>1, <2>1 DEF Presence!OneConnection, Presence!ShownOnTheSocket, Presence!UnseenIsUnseen,
       Presence!Live
  <2>4. v10' \subseteq 1..PresencePaths
    BY <1>4 DEF Presence!Discord
  <2> QED BY <1>1, <1>a, <1>c, <2>1, <2>2, <2>3, <2>4
\* The user is, or becomes, one who wants to be seen, and is told of.
<1>d. ASSUME v1' = TRUE, UNCHANGED v10, NEW s \in Nat, Presence!Update(s), Presence!Quiet,
             v11' \in 0..PresenceMaxSongs, v2' \in 1..v11' + 1, v2 <= v2', s <= v2'
      PROVE  Flags /\ Goal
  <2>1. v2' \in Nat /\ s \in 0..v2'
    BY <1>1, <1>d
  <2>2. /\ v9' \in [Presence!Socks -> Presence!Connections'] /\ v8' = v8 /\ v5' = v5 /\ v4' = s
        /\ Presence!OneConnection' /\ Presence!ShownOnTheSocket' /\ Presence!UnseenIsUnseen'
    BY <1>d, <2>1, PresenceUpdateHolds
  <2>3. Flags
    BY <1>b, <1>d, <2>2, Zenon DEF Presence!Update, Presence!Connect
  <2> QED BY <1>1, <1>d, <2>1, <2>2, <2>3
<1>5. ASSUME Presence!Plays
      PROVE  Flags /\ Goal
  <2>1. /\ Presence!Quiet /\ v11 < PresenceMaxSongs /\ v11' = v11 + 1 /\ v2' = v2 + 1
        /\ UNCHANGED <<v1, v10>>
    BY <1>5 DEF Presence!Plays
  <2>2. v11' \in 0..PresenceMaxSongs /\ v2' \in 1..v11' + 1 /\ v2 <= v2' /\ v2' \in Nat
    BY <1>1, <2>1
  <2>3. CASE v1
    <3>1. PICK s : s = v2'
      OBVIOUS
    <3>2. Presence!Update(s) /\ s \in Nat /\ s <= v2'
      BY <1>5, <2>2, <2>3, <3>1 DEF Presence!Plays
    <3>3. v1' = TRUE
      BY <1>b, <2>1, <2>3
    <3> QED BY <1>d, <2>1, <2>2, <3>2, <3>3
  <2>4. CASE ~v1
    <3>1. UNCHANGED <<v1, v3, v4, v5, v6, v7, v8, v9>>
      BY <1>5, <2>1, <2>4 DEF Presence!Plays, Presence!main
    <3>2. Flags
      BY <1>b, <3>1, Zenon
    <3>3. Presence!OneConnection' /\ Presence!ShownOnTheSocket' /\ Presence!UnseenIsUnseen'
      BY <1>1, <3>1 DEF Presence!OneConnection, Presence!ShownOnTheSocket,
         Presence!UnseenIsUnseen, Presence!Live
    <3>4. Presence!Connections \subseteq Presence!Connections' /\ v4' \in 0..v2'
      BY <1>1, <2>2, <3>1 DEF Presence!Connections
    <3> QED BY <1>1, <1>a, <2>1, <2>2, <3>1, <3>2, <3>3, <3>4
  <2> QED BY <2>3, <2>4
<1>6. ASSUME Presence!Refresh
      PROVE  Flags /\ Goal
  <2>1. Presence!Quiet /\ v1 /\ Presence!Update(v2) /\ UNCHANGED <<v1, v2, v11, v10>>
    BY <1>6 DEF Presence!Refresh, Presence!page
  <2>2. v1' = TRUE
    BY <1>b, <2>1
  <2>3. v2 \in Nat /\ v2 <= v2' /\ v11' \in 0..PresenceMaxSongs /\ v2' \in 1..v11' + 1
    BY <1>1, <2>1
  <2> QED BY <1>d, <2>1, <2>2, <2>3
<1>7. ASSUME Presence!Toggle
      PROVE  Flags /\ Goal
  <2>1. /\ Presence!Quiet /\ v11 < PresenceMaxSongs /\ v11' = v11 + 1 /\ v1' = ~v1
        /\ UNCHANGED <<v2, v10>>
    BY <1>7 DEF Presence!Toggle
  <2>2. v11' \in 0..PresenceMaxSongs /\ v2' \in 1..v11' + 1 /\ v2 <= v2' /\ v2 \in Nat
    BY <1>1, <2>1
  <2>3. CASE ~v1
    <3>1. Presence!Update(v2) /\ v1' = TRUE
      BY <1>7, <1>b, <2>1, <2>3 DEF Presence!Toggle
    <3> QED BY <1>d, <2>1, <2>2, <3>1
  <2>4. CASE v1
    <3>1. /\ v3' = FALSE /\ v4' = Presence!None /\ v7' = FALSE /\ v8' = Presence!None
          /\ v5' = FALSE
          /\ v6' = (v6 /\ v8 = Presence!None) /\ v1' = FALSE
          /\ v9' = IF v8 = Presence!None THEN v9 ELSE Presence!Closed(v9, v8)
      BY <1>7, <1>b, <2>1, <2>4 DEF Presence!Toggle, Presence!NothingPending
    <3>2. Flags
      BY <3>1, Zenon
    <3>3. 0 \notin Presence!Socks
      BY DEF Presence!Socks
    <3>4. \A k \in Presence!Socks : k # v8 => ~Presence!Live(k) /\ v9[k].shows = Presence!None
      BY <1>1 DEF Presence!OneConnection, Presence!ShownOnTheSocket, Presence!Live
    <3>5. /\ v9' \in [Presence!Socks -> Presence!Connections]
          /\ \A k \in Presence!Socks : v9'[k].shows = Presence!None /\
               v9'[k].at \notin {"open", "ready"}
          /\ \A k \in Presence!Socks : v9'[k].at = "trying" => v9[k].at = "trying"
      <4>1. CASE v8 = Presence!None
        BY <1>1, <3>1, <3>3, <3>4, <4>1 DEF Presence!Live, Presence!None
      <4>2. CASE v8 # Presence!None
        <5>1. /\ v9' \in [Presence!Socks -> Presence!Connections] /\ v8 \in Presence!Socks
              /\ v9'[v8].at = "closed" /\ v9'[v8].shows = Presence!None
              /\ \A k \in Presence!Socks : k # v8 => v9'[k] = v9[k]
          BY <1>1, <2>2, <3>1, <4>2, PresenceConnectionFacts
        <5> QED BY <3>4, <5>1 DEF Presence!Live
      <4> QED BY <4>1, <4>2
    <3>6. Presence!OneConnection'
      BY <1>1, <3>1, <3>5 DEF Presence!OneConnection, Presence!Live
    <3>7. Presence!ShownOnTheSocket' /\ Presence!UnseenIsUnseen'
      BY <3>5 DEF Presence!ShownOnTheSocket, Presence!UnseenIsUnseen
    <3>8. v4' \in 0..v2'
      BY <1>1, <2>1, <3>1 DEF Presence!None
    <3> QED BY <1>1, <1>c, <2>1, <2>2, <3>1, <3>2, <3>5, <3>6, <3>7, <3>8
  <2> QED BY <2>3, <2>4
<1>8. ASSUME Flags, Goal
      PROVE  Presence!IInv'
  BY <1>8, Zenon DEF Presence!IInv, Presence!TypeOK, Presence!Socks
<1> HIDE DEF Flags, Goal
<1> QED BY <1>2, <1>3, <1>4, <1>5, <1>6, <1>7, <1>8, Zenon DEF Presence!Next


-----------------------------------------------------------------------------
(* What is remembered (SessionMemory), and that its invariant holds at the start and is kept by
   each step. *)
Memory == INSTANCE SessionMemory WITH
  Tracks <- MemoryTracks, HistMax <- MemoryHistMax, MaxMoves <- MemoryMaxMoves,
  MaxToggles <- MemoryMaxToggles, MaxCalls <- MemoryMaxCalls, MaxFaults <- MemoryMaxFaults,
  place <- v1, asset <- v2, enabled <- v3, state <- v4, dirty <- v5, history <- v6, ipc <- v7,
  clearing <- v8, pref <- v9, stored <- v10, storedHist <- v11, moves <- v12, toggles <- v13,
  faults <- v14

\* A call more: its kind settles on its value, and the other kinds stay as they were.
LEMMA MemorySettlesOnAppend ==
  ASSUME NEW q \in Seq(Memory!Calls), NEW op2, NEW x, Memory!Call(op2, x) \in Memory!Calls
  PROVE  /\ Append(q, Memory!Call(op2, x)) \in Seq(Memory!Calls)
         /\ \E i \in DOMAIN Append(q, Memory!Call(op2, x)) :
              Append(q, Memory!Call(op2, x))[i] = Memory!Call(op2, x)
         /\ \A c : (\E i \in DOMAIN q : q[i] = c) =>
                     \E i \in DOMAIN Append(q, Memory!Call(op2, x)) :
                       Append(q, Memory!Call(op2, x))[i] = c
         /\ \A held : Memory!Settles(Append(q, Memory!Call(op2, x)), op2, held, x)
         /\ \A op, held, v : op # op2 /\ Memory!Settles(q, op, held, v) =>
                               Memory!Settles(Append(q, Memory!Call(op2, x)), op, held, v)
<1> DEFINE c == Memory!Call(op2, x)
           r == Append(q, c)
<1>1. c.op = op2 /\ c.val = x
  BY DEF Memory!Call
<1> HIDE DEF c
<1>2. /\ r \in Seq(Memory!Calls) /\ DOMAIN r = 1..Len(q) + 1 /\ Len(q) \in Nat
      /\ DOMAIN q = 1..Len(q)
      /\ r[Len(q) + 1] = c /\ \A i \in 1..Len(q) : r[i] = q[i]
  BY DEF c
<1> HIDE DEF r
<1>3. \E i \in DOMAIN r : r[i] = c
  BY <1>2
<1>4. \A d : (\E i \in DOMAIN q : q[i] = d) => \E i \in DOMAIN r : r[i] = d
  BY <1>2
<1>5. \A held : Memory!Settles(r, op2, held, x)
  <2>1. ASSUME NEW i \in DOMAIN r, \A j \in DOMAIN r : j > i => r[j].op # op2
        PROVE  r[i].val = x
    <3>1. i = Len(q) + 1
      BY <1>1, <1>2, <2>1
    <3> QED BY <1>1, <1>2, <3>1
  <2>2. \E i \in DOMAIN r : r[i].op = op2
    BY <1>1, <1>2
  <2> QED BY <2>1, <2>2 DEF Memory!Settles
<1>6. ASSUME NEW op, NEW held, NEW v, op # op2, Memory!Settles(q, op, held, v)
      PROVE  Memory!Settles(r, op, held, v)
  <2>1. ASSUME \A i \in DOMAIN r : r[i].op # op
        PROVE  held = v
    <3>1. \A i \in DOMAIN q : q[i].op # op
      BY <1>2, <2>1
    <3> QED BY <1>6, <3>1 DEF Memory!Settles
  <2>2. ASSUME NEW i \in DOMAIN r, r[i].op = op, \A j \in DOMAIN r : j > i => r[j].op # op
        PROVE  r[i].val = v
    <3>1. i \in DOMAIN q /\ q[i] = r[i]
      BY <1>1, <1>2, <1>6, <2>2
    <3>2. \A j \in DOMAIN q : j > i => q[j].op # op
      BY <1>2, <2>2
    <3> QED BY <1>6, <2>2, <3>1, <3>2 DEF Memory!Settles
  <2> QED BY <2>1, <2>2 DEF Memory!Settles
<1> QED BY <1>2, <1>3, <1>4, <1>5, <1>6 DEF c, r

\* A call less: what it is of its kind is held.
LEMMA MemorySettlesOnTake ==
  ASSUME NEW q \in Seq(Memory!Calls), q # <<>>
  PROVE  /\ Tail(q) \in Seq(Memory!Calls) /\ Head(q) \in Memory!Calls
         /\ \A c : (\E i \in DOMAIN q : q[i] = c) /\ c # Head(q) =>
              \E i \in DOMAIN Tail(q) : Tail(q)[i] = c
         /\ \A op, held, v : Memory!Settles(q, op, held, v) =>
              /\ Head(q).op = op => Memory!Settles(Tail(q), op, Head(q).val, v)
              /\ Head(q).op # op => Memory!Settles(Tail(q), op, held, v)
<1> DEFINE r == Tail(q)
<1>1. /\ r \in Seq(Memory!Calls) /\ Head(q) \in Memory!Calls /\ Head(q) = q[1]
      /\ Len(q) \in Nat \ {0}
      /\ DOMAIN q = 1..Len(q) /\ DOMAIN r = 1..(Len(q) - 1)
      /\ \A i \in 1..(Len(q) - 1) : r[i] = q[i + 1]
  OBVIOUS
<1> HIDE DEF r
<1>2. \A i \in DOMAIN q : i = 1 \/ (i - 1 \in DOMAIN r /\ r[i - 1] = q[i])
  BY <1>1
<1>3. \A c : (\E i \in DOMAIN q : q[i] = c) /\ c # Head(q) => \E i \in DOMAIN r : r[i] = c
  BY <1>1, <1>2
<1>4. ASSUME NEW op, NEW held, NEW v, Memory!Settles(q, op, held, v), NEW h,
             h = IF q[1].op = op THEN q[1].val ELSE held
      PROVE  Memory!Settles(r, op, h, v)
  <2>1. ASSUME \A i \in DOMAIN r : r[i].op # op
        PROVE  h = v
    <3>1. \A i \in DOMAIN q : i # 1 => q[i].op # op
      BY <1>2, <2>1
    <3>2. CASE q[1].op = op
      <4>1. 1 \in DOMAIN q /\ \A j \in DOMAIN q : j > 1 => q[j].op # op
        BY <1>1, <3>1
      <4> QED BY <1>4, <3>2, <4>1 DEF Memory!Settles
    <3>3. CASE q[1].op # op
      BY <1>4, <3>1, <3>3 DEF Memory!Settles
    <3> QED BY <3>2, <3>3
  <2>2. ASSUME NEW i \in DOMAIN r, r[i].op = op, \A j \in DOMAIN r : j > i => r[j].op # op
        PROVE  r[i].val = v
    <3>1. i + 1 \in DOMAIN q /\ r[i] = q[i + 1]
      BY <1>1
    <3>2. \A j \in DOMAIN q : j > i + 1 => q[j].op # op
      BY <1>1, <1>2, <2>2
    <3> QED BY <1>4, <2>2, <3>1, <3>2 DEF Memory!Settles
  <2> QED BY <2>1, <2>2 DEF Memory!Settles
<1> QED BY <1>1, <1>3, <1>4 DEF r

LEMMA MemoryInitEstablishes ==
  ASSUME Memory!MemoryAssumption, Memory!Init
  PROVE  Memory!IInv
<1>1. <<>> \in Memory!Histories /\ <<>> \in Seq(Memory!Calls)
  BY DEF Memory!MemoryAssumption, Memory!Histories
<1>2. Memory!StoreFollows
  BY DEF Memory!Init, Memory!StoreFollows, Memory!Settles
<1> QED BY <1>1, <1>2 DEF Memory!Init, Memory!IInv, Memory!TypeOK, Memory!OffIsCleared,
           Memory!Kept, Memory!Unsaved, Memory!None

\* A snapshot taken of the session.
LEMMA MemorySnapshotKept ==
  ASSUME NEW p \in MemoryTracks, NEW a \in MemoryTracks
  PROVE  <<[place |-> p, asset |-> a]>> \in Memory!Kept /\
           <<[place |-> p, asset |-> a]>> # Memory!Unsaved
BY DEF Memory!Kept, Memory!Snapshots, Memory!Unsaved

LEMMA MemoryPushedKept ==
  ASSUME Memory!MemoryAssumption, Memory!TypeOK
  PROVE  Memory!Pushed \in Memory!Histories
<1>1. v6 \in Seq(MemoryTracks) /\ Len(v6) <= MemoryHistMax /\ v6 \in Memory!Histories
  BY DEF Memory!TypeOK, Memory!Histories
<1>2. CASE v2 \in MemoryTracks
  <2> DEFINE h == <<v2>> \o v6
             n == IF Len(v6) < MemoryHistMax THEN Len(v6) + 1 ELSE MemoryHistMax
  <2>1. h \in Seq(MemoryTracks) /\ Len(h) = Len(v6) + 1 /\ Len(v6) \in Nat
    BY <1>1, <1>2
  <2>2. n \in 1..Len(h) /\ n <= MemoryHistMax
    BY <1>1, <2>1 DEF Memory!MemoryAssumption
  <2> HIDE DEF n, h
  <2>3. SubSeq(h, 1, n) \in Seq(MemoryTracks) /\ Len(SubSeq(h, 1, n)) = n
    BY <2>1, <2>2
  <2>4. SubSeq(h, 1, n) \in Memory!Histories
    BY <2>2, <2>3 DEF Memory!Histories
  <2> QED BY <1>1, <2>4 DEF Memory!Pushed, h, n
<1> QED BY <1>1, <1>2 DEF Memory!TypeOK, Memory!Pushed, Memory!None

LEMMA MemoryCallTypes ==
  /\ \A h \in Memory!Histories : Memory!Call("hist", h) \in Memory!Calls
  /\ \A k \in Memory!Kept : Memory!Call("write", k) \in Memory!Calls
  /\ \A b \in BOOLEAN : Memory!Call("pref", b) \in Memory!Calls
  /\ Memory!Unsaved \in Memory!Kept
  /\ \A op, x : Memory!Call(op, x).op = op /\ Memory!Call(op, x).val = x
<1>1. \A h \in Memory!Histories : Memory!Call("hist", h) \in Memory!Calls
  BY DEF Memory!Call, Memory!Calls
<1>2. \A k \in Memory!Kept : Memory!Call("write", k) \in Memory!Calls
  BY DEF Memory!Call, Memory!Calls
<1>3. \A b \in BOOLEAN : Memory!Call("pref", b) \in Memory!Calls
  BY DEF Memory!Call, Memory!Calls
<1>4. Memory!Unsaved \in Memory!Kept
  BY DEF Memory!Kept
<1>5. \A op, x : Memory!Call(op, x).op = op /\ Memory!Call(op, x).val = x
  BY DEF Memory!Call
<1> QED BY <1>1, <1>2, <1>3, <1>4, <1>5

\* A write more, of a snapshot that is on or was marked.
LEMMA MemoryWriteFollows ==
  ASSUME Memory!TypeOK, Memory!StoreFollows, Memory!OffIsCleared, NEW k \in Memory!Kept,
         v7' = Append(v7, Memory!Call("write", k)),
         v3 \/ v4 # Memory!Unsaved,
         UNCHANGED <<v3, v6, v8, v9, v10, v11, v14>>
  PROVE  Memory!StoreFollows' /\ Memory!OffIsCleared' /\ v7' \in Seq(Memory!Calls)
<1>0. v7 \in Seq(Memory!Calls) /\ Memory!Call("write", k) \in Memory!Calls
  BY MemoryCallTypes DEF Memory!TypeOK
<1>1. /\ v7' \in Seq(Memory!Calls)
      /\ \A c : (\E i \in DOMAIN v7 : v7[i] = c) => \E i \in DOMAIN v7' : v7'[i] = c
      /\ \A op, held, v : op # "write" /\ Memory!Settles(v7, op, held, v) =>
           Memory!Settles(v7', op, held, v)
  BY <1>0, MemorySettlesOnAppend
<1>2. Memory!StoreFollows'
  BY <1>1 DEF Memory!StoreFollows
<1>3. Memory!OffIsCleared'
  BY <1>1 DEF Memory!OffIsCleared
<1> QED BY <1>1, <1>2, <1>3

\* A flush: the snapshot is what it was, or one of the song that plays.
LEMMA MemoryFlushFollows ==
  ASSUME Memory!MemoryAssumption, Memory!IInv, Memory!Flush(v7),
         v1' \in MemoryTracks \union {Memory!None},
         v2' \in MemoryTracks \union {Memory!None}, v2' # Memory!None => v1' # Memory!None,
         UNCHANGED <<v3, v6, v8, v9, v10, v11, v12, v13, v14>>
  PROVE  Memory!IInv'
<1>1. CASE Memory!Marks
  <2>1. v3 /\ v1' \in MemoryTracks /\ v2' \in MemoryTracks
    BY <1>1 DEF Memory!Marks, Memory!None
  <2>2. PICK k : k = <<[place |-> v1', asset |-> v2']>>
    OBVIOUS
  <2>3. /\ v4' = k /\ v5' = FALSE /\ v7' = Append(v7, Memory!Call("write", k))
        /\ k \in Memory!Kept
    BY <1>1, <2>1, <2>2, MemorySnapshotKept DEF Memory!Flush
  <2>4. Memory!StoreFollows' /\ Memory!OffIsCleared' /\ v7' \in Seq(Memory!Calls)
    BY <2>1, <2>3, MemoryWriteFollows DEF Memory!IInv
  <2> QED BY <2>3, <2>4 DEF Memory!IInv, Memory!TypeOK
<1>2. CASE ~Memory!Marks /\ v5 /\ v4 # Memory!Unsaved
  <2>1. v4' = v4 /\ v5' = FALSE /\ v7' = Append(v7, Memory!Call("write", v4))
    BY <1>2 DEF Memory!Flush
  <2>2. Memory!StoreFollows' /\ Memory!OffIsCleared' /\ v7' \in Seq(Memory!Calls)
    BY <1>2, <2>1, MemoryWriteFollows DEF Memory!IInv, Memory!TypeOK
  <2> QED BY <2>1, <2>2 DEF Memory!IInv, Memory!TypeOK
<1>3. CASE ~Memory!Marks /\ ~(v5 /\ v4 # Memory!Unsaved)
  <2>1. v4' = v4 /\ v5' = FALSE /\ v7' = v7
    BY <1>3 DEF Memory!Flush
  <2> QED BY <2>1 DEF Memory!IInv, Memory!TypeOK, Memory!StoreFollows, Memory!OffIsCleared
<1> QED BY <1>1, <1>2, <1>3

\* The store takes a call.
LEMMA MemoryTakePreserves ==
  ASSUME Memory!MemoryAssumption, Memory!IInv, Memory!StoreTakes
  PROVE  Memory!IInv'
<1> DEFINE c == Head(v7)
<1>1. /\ v7 # <<>> /\ v7' = Tail(v7) /\ v7 \in Seq(Memory!Calls)
      /\ UNCHANGED <<v1, v2, v3, v4, v5, v6, v12, v13>>
  BY DEF Memory!StoreTakes, Memory!IInv, Memory!TypeOK
<1>2. /\ v7' \in Seq(Memory!Calls) /\ c \in Memory!Calls
      /\ \A d : (\E i \in DOMAIN v7 : v7[i] = d) /\ d # c => \E i \in DOMAIN v7' : v7'[i] = d
      /\ \A op, held, v : Memory!Settles(v7, op, held, v) =>
           /\ c.op = op => Memory!Settles(v7', op, c.val, v)
           /\ c.op # op => Memory!Settles(v7', op, held, v)
  BY <1>1, MemorySettlesOnTake
<1>3. v8' = IF c.op = "pref" /\ c.val = FALSE THEN v8 + 1 ELSE v8
  BY DEF Memory!StoreTakes
<1>4. CASE v14' = v14 + 1 /\ UNCHANGED <<v9, v10, v11>>
  <2>1. v14' # 0 /\ v14' \in Nat /\ v8' \in Nat
    BY <1>3, <1>4 DEF Memory!IInv, Memory!TypeOK
  <2> QED BY <1>1, <1>2, <1>4, <2>1 DEF Memory!IInv, Memory!TypeOK, Memory!StoreFollows,
             Memory!OffIsCleared
<1>5. CASE /\ v9' = IF c.op = "pref" THEN c.val ELSE v9
           /\ v10' = IF c.op = "write" THEN c.val ELSE v10
           /\ v11' = IF c.op = "hist" THEN c.val ELSE v11
           /\ UNCHANGED v14
  <2>1. /\ c.op = "pref" => c.val \in BOOLEAN
        /\ c.op = "write" => c.val \in Memory!Kept
        /\ c.op = "hist" => c.val \in Memory!Histories
    BY <1>2 DEF Memory!Calls
  <2>2. v10' \in Memory!Kept /\ v11' \in Memory!Histories /\ v8' \in Nat
    BY <1>3, <1>5, <2>1 DEF Memory!IInv, Memory!TypeOK
  <2>3. v9' \in BOOLEAN
    <3>1. v9 \in BOOLEAN
      BY DEF Memory!IInv, Memory!TypeOK
    <3> QED BY <1>5, <2>1, <3>1
  <2>4. Memory!TypeOK'
    BY <1>1, <1>2, <1>5, <2>2, <2>3 DEF Memory!IInv, Memory!TypeOK
  <2>5. \A op, held, v : Memory!Settles(v7, op, held, v) =>
          Memory!Settles(v7', op, IF c.op = op THEN c.val ELSE held, v)
    BY <1>2
  <2>6. Memory!StoreFollows'
    <3> SUFFICES ASSUME v14 = 0
                 PROVE  /\ Memory!Settles(v7', "pref", v9', v3)
                        /\ Memory!Settles(v7', "hist", v11', v6)
      BY <1>1, <1>5 DEF Memory!StoreFollows
    <3> QED BY <1>5, <2>5 DEF Memory!IInv, Memory!StoreFollows
  <2>7. Memory!OffIsCleared'
    <3> SUFFICES ASSUME v14 = 0, ~v3
                 PROVE  \/ v8' > 0
                        \/ \E i \in DOMAIN v7' : v7'[i] = Memory!Call("pref", FALSE)
                        \/ v4 = Memory!Unsaved /\ Memory!Settles(v7', "write", v10',
                             Memory!Unsaved)
      BY <1>1, <1>5 DEF Memory!OffIsCleared
    <3>1. CASE v8 > 0
      <4>1. v8 \in Nat /\ (v8' = v8 + 1 \/ v8' = v8)
        BY <1>3 DEF Memory!IInv, Memory!TypeOK
      <4>2. v8' > 0
        BY <3>1, <4>1
      <4> QED BY <4>2
    <3>2. CASE \E i \in DOMAIN v7 : v7[i] = Memory!Call("pref", FALSE)
      <4>1. CASE c = Memory!Call("pref", FALSE)
        <5>1. v8' = v8 + 1 /\ v8 \in Nat
          BY <1>3, <4>1, MemoryCallTypes DEF Memory!IInv, Memory!TypeOK
        <5>2. v8' > 0
          BY <5>1
        <5> QED BY <5>2
      <4>2. CASE c # Memory!Call("pref", FALSE)
        BY <1>2, <3>2, <4>2
      <4> QED BY <4>1, <4>2
    <3>3. CASE v4 = Memory!Unsaved /\ Memory!Settles(v7, "write", v10, Memory!Unsaved)
      BY <1>5, <2>5, <3>3
    <3> QED BY <3>1, <3>2, <3>3 DEF Memory!IInv, Memory!OffIsCleared
  <2> QED BY <1>1, <2>4, <2>6, <2>7 DEF Memory!IInv
<1> QED BY <1>4, <1>5 DEF Memory!StoreTakes

LEMMA MemoryStepPreserves ==
  ASSUME Memory!MemoryAssumption
  PROVE  Memory!IInv /\ [Memory!Next]_(Memory!vars) => Memory!IInv'
<1> SUFFICES ASSUME Memory!IInv, [Memory!Next]_(Memory!vars)
             PROVE  Memory!IInv'
  OBVIOUS
<1>0. /\ Memory!TypeOK /\ (v2 # Memory!None => v1 # Memory!None) /\ Memory!StoreFollows /\
           Memory!OffIsCleared
      /\ v7 \in Seq(Memory!Calls) /\ v8 \in Nat /\ 0 \notin MemoryTracks
      /\ <<>> \in Memory!Histories
  BY DEF Memory!IInv, Memory!TypeOK, Memory!MemoryAssumption, Memory!Histories
<1>1. CASE UNCHANGED Memory!vars
  BY <1>0, <1>1 DEF Memory!vars, Memory!IInv, Memory!TypeOK, Memory!StoreFollows,
     Memory!OffIsCleared
<1>2. ASSUME NEW t \in MemoryTracks, Memory!Move(t)
      PROVE  Memory!IInv'
  <2>1. PICK h : h = Memory!Pushed
    OBVIOUS
  <2>2. /\ h \in Memory!Histories /\ v6' = h /\ v1' = t /\ v2' = v2
        /\ v7' = IF h # v6 THEN Append(v7, Memory!Call("hist", h)) ELSE v7
        /\ UNCHANGED <<v3, v4, v5, v8, v9, v10, v11, v13, v14>>
    BY <1>0, <1>2, <2>1, MemoryPushedKept DEF Memory!Move
  <2>3. t # Memory!None
    BY <1>0 DEF Memory!None
  <2>4. CASE h = v6
    BY <1>0, <2>2, <2>3, <2>4 DEF Memory!IInv, Memory!TypeOK, Memory!StoreFollows,
       Memory!OffIsCleared
  <2>5. CASE h # v6
    <3>1. v7' = Append(v7, Memory!Call("hist", h)) /\ Memory!Call("hist", h) \in Memory!Calls
      BY <2>2, <2>5, MemoryCallTypes
    <3>2. /\ v7' \in Seq(Memory!Calls)
          /\ \A c : (\E i \in DOMAIN v7 : v7[i] = c) => \E i \in DOMAIN v7' : v7'[i] = c
          /\ \A held : Memory!Settles(v7', "hist", held, h)
          /\ \A op, held, v : op # "hist" /\ Memory!Settles(v7, op, held, v) =>
               Memory!Settles(v7', op, held, v)
      BY <1>0, <3>1, MemorySettlesOnAppend
    <3>3. Memory!TypeOK'
      BY <1>0, <2>2, <3>2 DEF Memory!TypeOK
    <3>4. Memory!StoreFollows'
      BY <1>0, <2>2, <3>2 DEF Memory!StoreFollows
    <3>5. Memory!OffIsCleared'
      BY <1>0, <2>2, <3>2 DEF Memory!OffIsCleared
    <3> QED BY <2>2, <2>3, <3>3, <3>4, <3>5 DEF Memory!IInv
  <2> QED BY <2>4, <2>5
<1>3. ASSUME Memory!Broadcast PROVE Memory!IInv'
  BY <1>0, <1>3, MemoryFlushFollows DEF Memory!Broadcast, Memory!TypeOK
<1>4. ASSUME Memory!TimeUpdate PROVE Memory!IInv'
  <2>1. v1 \in MemoryTracks /\ v2 \in MemoryTracks
    BY <1>0, <1>4 DEF Memory!TimeUpdate, Memory!TypeOK
  <2>2. v4' \in Memory!Kept /\ v4' # Memory!Unsaved /\ v5' = TRUE /\ v3 /\ v3' = v3
    BY <1>4, <2>1, MemorySnapshotKept DEF Memory!TimeUpdate
  <2>3. UNCHANGED <<v1, v2, v6, v7, v8, v9, v10, v11, v14>>
    BY <1>4 DEF Memory!TimeUpdate
  <2> QED BY <1>0, <2>2, <2>3 DEF Memory!IInv, Memory!TypeOK, Memory!StoreFollows,
             Memory!OffIsCleared
<1>5. ASSUME Memory!FlushTimer PROVE Memory!IInv'
  <2>1. /\ v4 # Memory!Unsaved /\ v5' = FALSE /\ v7' = Append(v7, Memory!Call("write", v4))
        /\ UNCHANGED <<v1, v2, v3, v4, v6, v8, v9, v10, v11,
                       v14>>
    BY <1>5 DEF Memory!FlushTimer
  <2>2. Memory!StoreFollows' /\ Memory!OffIsCleared' /\ v7' \in Seq(Memory!Calls)
    BY <1>0, <2>1, MemoryWriteFollows DEF Memory!TypeOK
  <2> QED BY <1>0, <2>1, <2>2 DEF Memory!IInv, Memory!TypeOK
<1>6. ASSUME Memory!Pause PROVE Memory!IInv'
  BY <1>0, <1>6, MemoryFlushFollows DEF Memory!Pause, Memory!TypeOK
<1>7. ASSUME Memory!Toggle PROVE Memory!IInv'
  <2>1. PICK b \in BOOLEAN : b = ~v3
    BY <1>0 DEF Memory!TypeOK
  <2>2. /\ v3' = b /\ v7' = Append(v7, Memory!Call("pref", b))
        /\ UNCHANGED <<v1, v2, v4, v5, v6, v8, v9, v10, v11,
                       v14>>
    BY <1>7, <2>1 DEF Memory!Toggle
  <2>3. /\ v7' \in Seq(Memory!Calls)
        /\ \E i \in DOMAIN v7' : v7'[i] = Memory!Call("pref", b)
        /\ \A held : Memory!Settles(v7', "pref", held, b)
        /\ \A op, held, v : op # "pref" /\ Memory!Settles(v7, op, held, v) =>
             Memory!Settles(v7', op, held, v)
    BY <1>0, <2>2, MemoryCallTypes, MemorySettlesOnAppend
  <2>4. Memory!TypeOK'
    BY <1>0, <2>2, <2>3 DEF Memory!TypeOK
  <2>5. Memory!StoreFollows'
    BY <1>0, <2>2, <2>3 DEF Memory!StoreFollows
  <2>6. Memory!OffIsCleared'
    <3>1. b = TRUE \/ b = FALSE
      OBVIOUS
    <3> QED BY <2>2, <2>3, <3>1 DEF Memory!OffIsCleared
  <2> QED BY <1>0, <2>2, <2>4, <2>5, <2>6 DEF Memory!IInv
<1>8. ASSUME Memory!Clear PROVE Memory!IInv'
  <2>1. /\ v8 > 0 /\ v8' = v8 - 1 /\ v4' = Memory!Unsaved /\ v5' = FALSE
        /\ v7' = Append(v7, Memory!Call("write", Memory!Unsaved))
        /\ UNCHANGED <<v1, v2, v3, v6, v9, v10, v11, v14>>
    BY <1>8 DEF Memory!Clear
  <2>2. /\ v7' \in Seq(Memory!Calls)
        /\ \A held : Memory!Settles(v7', "write", held, Memory!Unsaved)
        /\ \A op, held, v : op # "write" /\ Memory!Settles(v7, op, held, v) =>
             Memory!Settles(v7', op, held, v)
    BY <1>0, <2>1, MemoryCallTypes, MemorySettlesOnAppend
  <2>a. v8' \in Nat
    BY <1>0, <2>1
  <2>b. v5' \in BOOLEAN /\ ~v5'
    BY <2>1
  <2>3. Memory!TypeOK'
    BY <1>0, <2>1, <2>2, <2>a, <2>b, MemoryCallTypes, Zenon DEF Memory!TypeOK
  <2>4. Memory!StoreFollows' /\ Memory!OffIsCleared'
    BY <1>0, <2>1, <2>2 DEF Memory!StoreFollows, Memory!OffIsCleared
  <2> QED BY <1>0, <2>1, <2>3, <2>4 DEF Memory!IInv
<1>9. ASSUME Memory!ClearHistory PROVE Memory!IInv'
  <2>1. /\ v6' = <<>> /\ v7' = Append(v7, Memory!Call("hist", <<>>))
        /\ UNCHANGED <<v1, v2, v3, v4, v5, v8, v9, v10, v11,
                       v14>>
    BY <1>9 DEF Memory!ClearHistory
  <2>2. /\ v7' \in Seq(Memory!Calls)
        /\ \A c : (\E i \in DOMAIN v7 : v7[i] = c) => \E i \in DOMAIN v7' : v7'[i] = c
        /\ \A held : Memory!Settles(v7', "hist", held, <<>>)
        /\ \A op, held, v : op # "hist" /\ Memory!Settles(v7, op, held, v) =>
             Memory!Settles(v7', op, held, v)
    BY <1>0, <2>1, MemoryCallTypes, MemorySettlesOnAppend
  <2>3. Memory!TypeOK'
    BY <1>0, <2>1, <2>2 DEF Memory!TypeOK
  <2>4. Memory!StoreFollows' /\ Memory!OffIsCleared'
    BY <1>0, <2>1, <2>2 DEF Memory!StoreFollows, Memory!OffIsCleared
  <2> QED BY <1>0, <2>1, <2>3, <2>4 DEF Memory!IInv
<1>10. ASSUME Memory!StoreTakes PROVE Memory!IInv'
  BY <1>10, MemoryTakePreserves
<1>11. ASSUME Memory!Reload PROVE Memory!IInv'
  <2>1. /\ v7 = <<>> /\ v8 = 0 /\ v1' = Memory!None /\ v2' = Memory!None /\ v3' = v9
        /\ v4' = Memory!Unsaved /\ v5' = FALSE
        /\ UNCHANGED <<v7, v8, v9, v10, v11>>
    BY <1>11 DEF Memory!Reload
  <2>2. /\ v6' = v11 \/ v6' = <<>>
        /\ UNCHANGED v14 \/ v14' = v14 + 1
        /\ v14' = v14 => v6' = v11
    BY <1>0, <1>11 DEF Memory!Reload, Memory!HistoryRead, Memory!TypeOK
  <2>a. v14' \in Nat /\ v8' \in Nat
    BY <1>0, <2>1, <2>2 DEF Memory!TypeOK
  <2>b. v5' \in BOOLEAN /\ ~v5' /\ v6' \in Memory!Histories
    BY <1>0, <2>1, <2>2 DEF Memory!TypeOK
  <2>3. Memory!TypeOK'
    BY <1>0, <2>1, <2>a, <2>b, MemoryCallTypes, Zenon DEF Memory!TypeOK
  <2>4. v14' = 0 => v14 = 0 /\ v6' = v11
    BY <1>0, <2>2 DEF Memory!TypeOK
  <2>5. \A op, held, v : Memory!Settles(v7, op, held, v) <=> held = v
    BY <2>1 DEF Memory!Settles
  <2>6. Memory!StoreFollows'
    BY <2>1, <2>4, <2>5 DEF Memory!StoreFollows
  <2>7. Memory!OffIsCleared'
    BY <1>0, <2>1, <2>4, <2>5 DEF Memory!OffIsCleared, Memory!StoreFollows
  <2> QED BY <1>0, <2>1, <2>3, <2>6, <2>7 DEF Memory!IInv
<1>12. ASSUME Memory!Resume PROVE Memory!IInv'
  <2>1. v1' \in MemoryTracks
    BY <1>0, <1>12 DEF Memory!Resume, Memory!TypeOK, Memory!Kept, Memory!Snapshots, Memory!Unsaved
  <2>2. UNCHANGED <<v2, v3, v4, v5, v6, v7, v8, v9, v10, v11,
                    v14>>
    BY <1>12 DEF Memory!Resume
  <2> QED BY <1>0, <2>1, <2>2 DEF Memory!IInv, Memory!TypeOK, Memory!StoreFollows,
             Memory!OffIsCleared, Memory!None
<1> QED BY <1>1, <1>2, <1>3, <1>4, <1>5, <1>6, <1>7, <1>8, <1>9, <1>10, <1>11,
           <1>12 DEF Memory!Next

LEMMA MemoryConsequences ==
  ASSUME Memory!IInv
  PROVE  Memory!TypeOK /\ Memory!OffLeavesNothing /\ Memory!HistoryIsStored
<1>1. ASSUME v7 = <<>>
      PROVE  \A op, held, v : Memory!Settles(v7, op, held, v) => held = v
  BY <1>1 DEF Memory!Settles
<1>2. Memory!OffLeavesNothing
  <2> SUFFICES ASSUME v7 = <<>>, v8 = 0, v14 = 0, ~v3
               PROVE  v10 = Memory!Unsaved /\ v4 = Memory!Unsaved
    BY DEF Memory!OffLeavesNothing, Memory!Idle
  <2>1. v4 = Memory!Unsaved /\ Memory!Settles(v7, "write", v10, Memory!Unsaved)
    BY DEF Memory!IInv, Memory!OffIsCleared
  <2> QED BY <1>1, <2>1
<1>3. Memory!HistoryIsStored
  BY <1>1 DEF Memory!HistoryIsStored, Memory!Idle, Memory!IInv, Memory!StoreFollows
<1> QED BY <1>2, <1>3 DEF Memory!IInv


-----------------------------------------------------------------------------
(* Links (LinkHandling), and that its invariant holds at the start and is kept by
   each step. *)
Links == INSTANCE LinkHandling WITH
  Schemes <- LinksSchemes, Other <- LinksOther, Links <- LinksAll, Abroad <- LinksAbroad,
  Pages <- LinksPages, Notices <- LinksNotices, MaxFaults <- LinksMaxFaults,
  MaxChanges <- LinksMaxChanges, linkSchemes <- v1, recorded <- v2, handlers <- v3, run <- v4,
  up <- v5, failed <- v6, faults <- v7, changes <- v8, page <- v9, cold <- v10, arrived <- v11,
  opens <- v12, acted <- v13, queue <- v14

LEMMA LinksListFacts ==
  ASSUME Links!LinkAssumption, NEW q \in Links!Lists
  PROVE  /\ Links!AddAssociation(q) \in Links!Lists /\ Links!RemoveAssociation(q) \in Links!Lists
         /\ Links!Adam \in Links!ToSet(Links!AddAssociation(q))
         /\ Links!Adam \notin Links!ToSet(Links!RemoveAssociation(q))
         /\ Links!Others(Links!AddAssociation(q)) = Links!Others(q)
         /\ Links!Others(Links!RemoveAssociation(q)) = Links!Others(q)
<1>1. /\ Links!ToSet(<<>>) = {} /\ Links!ToSet(<<Links!Adam>>) = {Links!Adam}
      /\ Links!ToSet(<<LinksOther>>) = {LinksOther}
      /\ Links!ToSet(<<Links!Adam, LinksOther>>) = {Links!Adam, LinksOther}
      /\ Links!ToSet(<<LinksOther, Links!Adam>>) = {Links!Adam, LinksOther}
  BY DEF Links!ToSet
<1>2. Links!Adam # LinksOther
  BY DEF Links!LinkAssumption
<1>3. Links!Others(q) = IF LinksOther \in Links!ToSet(q) THEN <<LinksOther>> ELSE <<>>
  BY DEF Links!Others, Links!Only
<1>4. Links!Others(q) \in {<<>>, <<LinksOther>>}
  BY <1>3
<1>5. Links!AddAssociation(q) \in {<<Links!Adam>>, <<Links!Adam, LinksOther>>}
  BY DEF Links!AddAssociation
<1>6. /\ Links!Others(<<>>) = <<>> /\ Links!Others(<<LinksOther>>) = <<LinksOther>>
      /\ Links!Others(<<Links!Adam>>) = <<>>
      /\ Links!Others(<<Links!Adam, LinksOther>>) = <<LinksOther>>
  BY <1>1, <1>2 DEF Links!Others, Links!Only
<1>7. Links!Others(Links!AddAssociation(q)) = Links!Others(q)
  <2>1. CASE Links!Others(q) = <<>>
    BY <2>1, <1>3, <1>6 DEF Links!AddAssociation
  <2>2. CASE Links!Others(q) = <<LinksOther>>
    BY <2>2, <1>3, <1>6 DEF Links!AddAssociation
  <2> QED BY <2>1, <2>2, <1>4
<1>8. Links!Others(Links!RemoveAssociation(q)) = Links!Others(q)
  BY <1>4, <1>6 DEF Links!RemoveAssociation
<1>9. /\ Links!AddAssociation(q) \in Links!Lists /\ Links!RemoveAssociation(q) \in Links!Lists
  BY <1>4, <1>5 DEF Links!RemoveAssociation, Links!Lists
<1>10. Links!Adam \in Links!ToSet(Links!AddAssociation(q)) /\
         Links!Adam \notin Links!ToSet(Links!RemoveAssociation(q))
  BY <1>1, <1>2, <1>4, <1>5 DEF Links!RemoveAssociation
<1> QED BY <1>7, <1>8, <1>9, <1>10

LEMMA LinksInitEstablishes ==
  ASSUME Links!LinkAssumption, Links!Init
  PROVE  Links!IInv
<1>1. Links!TypeOK
  <2>1. {<<>>, <<LinksOther>>} \subseteq Links!Lists
    BY DEF Links!Lists
  <2>2. v3 \in [Links!Files -> [LinksSchemes -> Links!Lists]]
    BY <2>1 DEF Links!Init
  <2>3. v13 = <<>> /\ v13 \in Seq(LinksAll)
    BY DEF Links!Init
  <2>4. v4 \in {Links!NotRunning}
    BY DEF Links!Init
  <2>5. /\ v7 \in 0..LinksMaxFaults /\ v8 \in 0..LinksMaxChanges
    BY DEF Links!Init, Links!LinkAssumption
  <2>6. /\ v1 \subseteq LinksSchemes /\ v2 \subseteq LinksSchemes /\ v6 \subseteq LinksSchemes
        /\ v11 \subseteq LinksAll /\ v12 \subseteq [link : LinksAll, pc : {"storefront", "queue"}]
        /\ v5 \in BOOLEAN /\ v14 \in {0} \union LinksAll
        /\ v9 \in {"loading", "ready", "listening"} /\ v10 \in {"argument", "timer", "none"}
    BY Zenon DEF Links!Init
  <2> QED BY <2>2, <2>3, <2>4, <2>5, <2>6, Zenon DEF Links!TypeOK
<1>2. ~v5 /\ v4 = Links!NotRunning /\ v11 = {} /\ v13 = <<>>
  BY DEF Links!Init
<1>3. \A s \in LinksSchemes : ~Links!Claimed(s)
  <2>1. Links!Adam \notin Links!ToSet(<<>>) /\ Links!Adam \notin Links!ToSet(<<LinksOther>>)
    BY DEF Links!ToSet, Links!LinkAssumption
  <2> QED BY <2>1 DEF Links!Init, Links!Claimed, Links!Files, Links!Primary
<1> QED BY <1>1, <1>2, <1>3 DEF Links!IInv, Links!ClaimsHaveReasons, Links!RunIsComplete,
           Links!ClaimsAreChosen, Links!ActedArrived, Links!LinksOnce,
                                Links!IsInjective

LEMMA LinksSchemeTypes ==
  ASSUME Links!LinkAssumption, Links!TypeOK, Links!SchemeNext
  PROVE  Links!TypeOK'
<1> USE DEF Links!TypeOK, Links!LinkAssumption
<1> DEFINE Runs == {Links!NotRunning} \union [pc : {"register", "unregister"}, todo :
             SUBSET LinksSchemes,
                                     want : SUBSET LinksSchemes, applied : SUBSET LinksSchemes]
<1>1. ASSUME NEW want \in SUBSET LinksSchemes, Links!Begin(want)
      PROVE  v4' \in Runs
  BY <1>1 DEF Links!Begin
<1>2. CASE Links!StartUp
  BY <1>1, <1>2 DEF Links!StartUp, Links!linkVars
<1>3. ASSUME NEW s \in LinksSchemes, NEW on \in BOOLEAN, Links!SetScheme(s, on)
      PROVE  Links!TypeOK'
  BY <1>1, <1>3 DEF Links!SetScheme, Links!linkVars
<1>4. ASSUME NEW s \in LinksSchemes, Links!Register(s)
      PROVE  Links!TypeOK'
  <2>1. v4 \in Runs \ {Links!NotRunning}
    BY <1>4 DEF Links!Register, Links!NotRunning
  <2>2. v4' \in Runs
    <3>1. CASE v4' = [v4 EXCEPT !.todo = @ \ {s}, !.applied = @ \union {s}]
      BY <2>1, <3>1
    <3>2. CASE v4' = [v4 EXCEPT !.todo = @ \ {s}]
      BY <2>1, <3>2
    <3> QED BY <1>4, <3>1, <3>2 DEF Links!Register
  <2>3. v3' \in [Links!Files -> [LinksSchemes -> Links!Lists]]
    BY <1>4, LinksListFacts DEF Links!Register
  <2> QED BY <1>4, <2>2, <2>3 DEF Links!Register, Links!Fails, Links!linkVars
<1>5. CASE Links!AllRegistered
  <2>1. v4 \in Runs /\ v4 # Links!NotRunning
    BY <1>5 DEF Links!AllRegistered, Links!NotRunning
  <2>2. v4' \in Runs
    BY <1>5, <2>1 DEF Links!AllRegistered, Links!ToUnregister
  <2> QED BY <1>5, <2>2 DEF Links!AllRegistered, Links!linkVars
<1>6. ASSUME NEW s \in LinksSchemes, Links!Unregister(s)
      PROVE  Links!TypeOK'
  <2>1. v4 \in Runs /\ v4 # Links!NotRunning
    BY <1>6 DEF Links!Unregister, Links!NotRunning
  <2>2. v4' \in Runs
    BY <1>6, <2>1 DEF Links!Unregister
  <2>3. v3' \in [Links!Files -> [LinksSchemes -> Links!Lists]]
    BY <1>6, LinksListFacts DEF Links!Unregister
  <2> QED BY <1>6, <2>2, <2>3 DEF Links!Unregister, Links!Fails, Links!linkVars
<1>7. CASE Links!Record
  <2>1. v4 \in Runs /\ v4 # Links!NotRunning
    BY <1>7 DEF Links!Record, Links!NotRunning
  <2> QED BY <1>7, <2>1 DEF Links!Record, Links!linkVars
<1>8. CASE Links!Dies
  <2>1. /\ v4' = Links!NotRunning /\ v5' = FALSE /\ v7' \in 0..LinksMaxFaults
        /\ UNCHANGED <<v1, v2, v3, v6, v8, Links!linkVars>>
    BY <1>8 DEF Links!Dies, Links!Fails
  <2>2. v4' \in Runs /\ v5' \in BOOLEAN
    BY <2>1
  <2> QED BY <2>1, <2>2 DEF Links!linkVars
<1>9. ASSUME NEW f \in Links!Files, NEW s \in LinksSchemes, Links!OtherEdits(f, s)
      PROVE  Links!TypeOK'
  BY <1>9 DEF Links!OtherEdits, Links!linkVars
<1> QED BY <1>2, <1>3, <1>4, <1>5, <1>6, <1>7, <1>8, <1>9 DEF Links!SchemeNext, Links!OwnStep

LEMMA LinksSchemesHold ==
  ASSUME Links!LinkAssumption, Links!IInv, Links!SchemeNext
  PROVE  Links!ClaimsHaveReasons' /\ Links!RunIsComplete' /\ Links!ClaimsAreChosen'
<1> USE DEF Links!IInv, Links!ClaimsHaveReasons, Links!RunIsComplete, Links!ClaimsAreChosen
<1> DEFINE Goal == Links!ClaimsHaveReasons /\ Links!RunIsComplete /\ Links!ClaimsAreChosen
<1> DEFINE Runs == [pc : {"register", "unregister"}, todo : SUBSET LinksSchemes,
                    want : SUBSET LinksSchemes, applied : SUBSET LinksSchemes]
<1>0. /\ v4 # Links!NotRunning => v4 \in Runs
      /\ \A f \in Links!Files, s \in LinksSchemes : v3[f][s] \in Links!Lists
      /\ v3 \in [Links!Files -> [LinksSchemes -> Links!Lists]] /\ Links!Primary \in Links!Files
  BY DEF Links!TypeOK, Links!Files
<1>1. ASSUME NEW want, Links!Begin(want), v4 = Links!NotRunning, want = v1',
             UNCHANGED <<v2, v3, v6>>,
             \A s \in LinksSchemes \ v6 : Links!Claimed(s) => s \in want \union v2
      PROVE  Goal'
  <2>1. /\ v4'.pc = "register" /\ v4'.todo = want /\ v4'.want = want /\ v4'.applied = v2
        /\ v4' # Links!NotRunning
    BY <1>1 DEF Links!Begin, Links!NotRunning
  <2>2. \A s \in LinksSchemes : Links!Claimed(s)' <=> Links!Claimed(s)
    BY <1>1 DEF Links!Claimed
  <2> QED BY <1>1, <2>1, <2>2
<1>2. CASE Links!StartUp
  BY <1>1, <1>2 DEF Links!StartUp
<1>3. ASSUME NEW s \in LinksSchemes, NEW on \in BOOLEAN, Links!SetScheme(s, on)
      PROVE  Goal'
  <2>1. PICK want : want = v1'
    OBVIOUS
  <2>2. /\ v5 /\ v4 = Links!NotRunning /\ Links!Begin(want)
        /\ UNCHANGED <<v2, v3, v6>>
    BY <1>3, <2>1 DEF Links!SetScheme
  <2> QED BY <1>1, <2>1, <2>2
<1>4. ASSUME NEW s \in LinksSchemes, Links!Register(s)
      PROVE  Goal'
  <2>1. v4 \in Runs /\ v4 # Links!NotRunning /\ v4.pc = "register" /\ s \in v4.todo
    BY <1>0, <1>4 DEF Links!Register, Links!NotRunning
  <2>2. /\ v4' \in Runs /\ v4' # Links!NotRunning /\ v4'.pc = "register" /\ v4'.want = v4.want
        /\ v4'.todo = v4.todo \ {s}
        /\ UNCHANGED <<v1, v2>>
        /\ \/ v4'.applied = v4.applied \union {s} /\ UNCHANGED v6
           \/ v4'.applied = v4.applied /\ v6' = v6 \union {s}
    <3>1. CASE v4' = [v4 EXCEPT !.todo = @ \ {s}, !.applied = @ \union {s}] /\ UNCHANGED v6
      BY <1>4, <2>1, <3>1 DEF Links!Register, Links!NotRunning
    <3>2. CASE v4' = [v4 EXCEPT !.todo = @ \ {s}] /\ v6' = v6 \union {s}
      BY <1>4, <2>1, <3>2 DEF Links!Register, Links!NotRunning
    <3> QED BY <1>4, <3>1, <3>2 DEF Links!Register
  <2>3. \A t \in LinksSchemes \ {s} : Links!Claimed(t)' <=> Links!Claimed(t)
    BY <1>0, <1>4 DEF Links!Register, Links!Claimed
  <2>4. s \in v1 /\ s \in v4'.want
    BY <2>1, <2>2
  <2> QED BY <2>1, <2>2, <2>3, <2>4
<1>5. CASE Links!AllRegistered
  <2>1. v4 \in Runs /\ v4 # Links!NotRunning /\ v4.pc = "register" /\ v4.todo = {}
    BY <1>0, <1>5 DEF Links!AllRegistered, Links!NotRunning
  <2>2. /\ v4' \in Runs /\ v4' # Links!NotRunning /\ v4'.pc = "unregister" /\ v4'.want = v4.want
        /\ v4'.todo = v4.applied \ v4.want /\ v4'.applied = v4.applied
    BY <1>5, <2>1 DEF Links!AllRegistered, Links!ToUnregister, Links!NotRunning
  <2>3. UNCHANGED <<v1, v2, v6>> /\ \A t \in LinksSchemes : Links!Claimed(t)' <=> Links!Claimed(t)
    BY <1>5 DEF Links!AllRegistered, Links!Claimed
  <2> QED BY <2>1, <2>2, <2>3
<1>6. ASSUME NEW s \in LinksSchemes, Links!Unregister(s)
      PROVE  Goal'
  <2>1. v4 \in Runs /\ v4 # Links!NotRunning /\ v4.pc = "unregister" /\ s \in v4.todo
    BY <1>0, <1>6 DEF Links!Unregister, Links!NotRunning
  <2>2. /\ v4' \in Runs /\ v4' # Links!NotRunning /\ v4'.pc = "unregister" /\ v4'.want = v4.want
        /\ v4'.todo = v4.todo \ {s} /\ v4'.applied = v4.applied \ {s}
        /\ UNCHANGED <<v1, v2>>
    BY <1>6, <2>1 DEF Links!Unregister, Links!NotRunning
  <2>3. \A t \in LinksSchemes \ {s} : Links!Claimed(t)' <=> Links!Claimed(t)
    BY <1>0, <1>6 DEF Links!Unregister, Links!Claimed
  <2>4. \/ UNCHANGED v6 /\ ~Links!Claimed(s)'
        \/ v6' = v6 \union {s}
    BY <1>0, <1>6, LinksListFacts DEF Links!Unregister, Links!Claimed
  <2>5. s \notin v4.want
    BY <2>1
  <2> QED BY <2>1, <2>2, <2>3, <2>4, <2>5
<1>7. CASE Links!Record
  <2>1. v4 \in Runs /\ v4 # Links!NotRunning /\ v4.pc = "unregister" /\ v4.todo = {}
    BY <1>0, <1>7 DEF Links!Record, Links!NotRunning
  <2>2. UNCHANGED <<v1, v6>> /\ v2' = v4.applied /\ v4' = Links!NotRunning
    BY <1>7 DEF Links!Record
  <2>3. \A t \in LinksSchemes : Links!Claimed(t)' <=> Links!Claimed(t)
    BY <1>7 DEF Links!Record, Links!Claimed
  <2>4. \A t \in LinksSchemes \ v6 : Links!Claimed(t) => t \in v4.want \intersect v4.applied
    BY <2>1
  <2>5. v4.want = v1
    BY <2>1
  <2> QED BY <2>2, <2>3, <2>4, <2>5
<1>8. CASE Links!Dies
  <2>1. \A t \in LinksSchemes : Links!Claimed(t)' <=> Links!Claimed(t)
    BY <1>8 DEF Links!Dies, Links!Claimed
  <2> QED BY <1>8, <2>1 DEF Links!Dies
<1>9. ASSUME NEW f \in Links!Files, NEW s \in LinksSchemes, Links!OtherEdits(f, s)
      PROVE  Goal'
  <2>1. PICK q \in Links!Lists : /\ Links!Only(Links!Adam, q) = Links!Only(Links!Adam, v3[f][s])
                                 /\ v3' = [v3 EXCEPT ![f][s] = q]
    BY <1>9 DEF Links!OtherEdits
  <2>2. Links!Adam \in Links!ToSet(q) <=> Links!Adam \in Links!ToSet(v3[f][s])
    BY <2>1 DEF Links!Only
  <2>3. \A t \in LinksSchemes : Links!Claimed(t)' <=> Links!Claimed(t)
    BY <1>0, <2>1, <2>2 DEF Links!Claimed
  <2>4. v4' = v4 /\ v4 = Links!NotRunning /\ UNCHANGED <<v1, v2, v5, v6>>
    BY <1>9 DEF Links!OtherEdits
  <2> QED BY <2>3, <2>4
<1> QED BY <1>2, <1>3, <1>4, <1>5, <1>6, <1>7, <1>8, <1>9 DEF Links!SchemeNext, Links!OwnStep

LEMMA LinksLinksHold ==
  ASSUME Links!LinkAssumption, Links!IInv, Links!LinkNext
  PROVE  Links!TypeOK' /\ Links!ActedArrived' /\ Links!LinksOnce'
<1> USE DEF Links!IInv, Links!ActedArrived, Links!LinksOnce, Links!IsInjective
<1> DEFINE Goal == Links!ActedArrived /\ Links!LinksOnce
<1> DEFINE Opened == SUBSET [link : LinksAll, pc : {"storefront", "queue"}]
<1>0. /\ 1 \in LinksAll /\ v13 \in Seq(LinksAll) /\ v12 \in Opened /\ v11 \subseteq LinksAll
      /\ v9 \in {"loading", "ready", "listening"} /\ v10 \in {"argument", "timer", "none"}
  BY DEF Links!TypeOK, Links!LinkAssumption
<1>1. ASSUME UNCHANGED Links!schemeVars, v13' \in Seq(LinksAll), v12' \in Opened,
             v11' \subseteq LinksAll,
             v9' \in {"loading", "ready", "listening"}, v10' \in {"argument", "timer", "none"},
             v14' \in {0} \union LinksAll
      PROVE  Links!TypeOK'
  BY <1>1 DEF Links!TypeOK, Links!schemeVars
<1>2. ASSUME NEW l \in LinksAll, Links!Dispatch(l)
      PROVE  /\ v13' = Append(v13, l) /\ v12' \in Opened
             /\ v9' \in {"loading", "ready", "listening"}
  BY <1>0, <1>2 DEF Links!Dispatch
<1>3. ASSUME NEW l \in LinksAll, l \notin v11, v13' = Append(v13, l),
             v11' = v11 \union {l}, l = 1 => v10' = "none", l # 1 => v10' = v10
      PROVE  Goal' /\ v13' \in Seq(LinksAll)
  <2>1. /\ v13' \in Seq(LinksAll) /\ Len(v13') = Len(v13) + 1 /\ Len(v13) \in Nat
        /\ DOMAIN v13 = 1..Len(v13) /\ DOMAIN v13' = 1..Len(v13')
        /\ v13'[Len(v13) + 1] = l /\ \A i \in DOMAIN v13 : v13'[i] = v13[i]
    BY <1>0, <1>3
  <2>2. \A i \in DOMAIN v13' : i \in DOMAIN v13 \/ i = Len(v13) + 1
    BY <2>1
  <2>3. \A i \in DOMAIN v13 : v13[i] # l
    BY <1>3
  <2> HIDE DEF Goal
  <2>4. Links!ActedArrived'
    BY <1>3, <2>1, <2>2
  <2>5. Links!LinksOnce'
    BY <1>3, <2>1, <2>2, <2>3
  <2> QED BY <2>1, <2>4, <2>5 DEF Goal
<1>4. CASE Links!UiReady
  <2>1. Goal'
    BY <1>4 DEF Links!UiReady
  <2> QED BY <1>0, <1>1, <1>4, <2>1 DEF Links!UiReady, Links!TypeOK
<1>5. CASE Links!Listens
  <2>1. Goal'
    BY <1>5 DEF Links!Listens
  <2> QED BY <1>0, <1>1, <1>5, <2>1 DEF Links!Listens, Links!TypeOK
<1>6. CASE Links!ColdLink
  <2>1. /\ Links!Dispatch(1) /\ v10' = "none" /\ v11' = v11 \union {1} /\ 1 \notin v11
        /\ UNCHANGED <<v14, Links!schemeVars>>
    BY <1>0, <1>6 DEF Links!ColdLink, Links!ColdOnce
  <2>2. v13' = Append(v13, 1) /\ v12' \in Opened /\ v9' \in {"loading", "ready", "listening"}
    BY <1>0, <1>2, <2>1
  <2>3. Goal' /\ v13' \in Seq(LinksAll)
    BY <1>0, <1>3, <2>1, <2>2
  <2> HIDE DEF Goal
  <2>4. Links!TypeOK'
    BY <1>0, <1>1, <2>1, <2>2, <2>3 DEF Links!TypeOK
  <2> QED BY <2>3, <2>4 DEF Goal
<1>7. ASSUME NEW l \in LinksAll, Links!SecondInstance(l)
      PROVE  Goal' /\ Links!TypeOK'
  <2>1. /\ Links!Dispatch(l) /\ l # 1 /\ l \notin v11 /\ v11' = v11 \union {l}
        /\ UNCHANGED <<v10, v14, Links!schemeVars>>
    BY <1>7 DEF Links!SecondInstance
  <2>2. v13' = Append(v13, l) /\ v12' \in Opened /\ v9' \in {"loading", "ready", "listening"}
    BY <1>2, <2>1
  <2>3. Goal' /\ v13' \in Seq(LinksAll)
    BY <1>3, <2>1, <2>2
  <2> HIDE DEF Goal
  <2>4. Links!TypeOK'
    BY <1>0, <1>1, <2>1, <2>2, <2>3 DEF Links!TypeOK
  <2> QED BY <2>3, <2>4
<1>8. ASSUME NEW o \in v12, Links!Opens(o)
      PROVE  Goal' /\ Links!TypeOK'
  <2>1. o \in [link : LinksAll, pc : {"storefront", "queue"}]
    BY <1>0
  <2>2. v12' \in Opened /\ v14' \in {0} \union LinksAll
    BY <1>0, <1>8, <2>1 DEF Links!Opens, Links!TypeOK
  <2>3. UNCHANGED <<v9, v10, v11, v13, Links!schemeVars>>
    BY <1>8 DEF Links!Opens
  <2>4. Goal'
    BY <2>3
  <2> HIDE DEF Goal
  <2> QED BY <1>0, <1>1, <2>2, <2>3, <2>4
<1> QED BY <1>4, <1>5, <1>6, <1>7, <1>8 DEF Links!LinkNext

LEMMA LinksStepPreserves ==
  ASSUME Links!LinkAssumption
  PROVE  Links!IInv /\ [Links!Next]_(Links!vars) => Links!IInv'
<1> SUFFICES ASSUME Links!IInv, [Links!Next]_(Links!vars) PROVE Links!IInv'
  OBVIOUS
<1>1. CASE Links!SchemeNext
  <2>1. UNCHANGED Links!linkVars
    BY <1>1 DEF Links!SchemeNext, Links!OwnStep, Links!StartUp, Links!SetScheme, Links!Register,
       Links!AllRegistered, Links!Unregister, Links!Record,
                Links!Dies, Links!OtherEdits
  <2>2. Links!ActedArrived' /\ Links!LinksOnce'
    BY <2>1 DEF Links!linkVars, Links!IInv, Links!ActedArrived, Links!LinksOnce, Links!IsInjective
  <2> QED BY <1>1, <2>2, LinksSchemeTypes, LinksSchemesHold DEF Links!IInv
<1>2. CASE Links!LinkNext
  <2>1. UNCHANGED Links!schemeVars
    BY <1>2 DEF Links!LinkNext, Links!UiReady, Links!Listens, Links!ColdLink,
       Links!SecondInstance, Links!Opens
  <2>2. Links!ClaimsHaveReasons' /\ Links!RunIsComplete' /\ Links!ClaimsAreChosen'
    BY <2>1 DEF Links!schemeVars, Links!IInv, Links!ClaimsHaveReasons, Links!RunIsComplete,
       Links!ClaimsAreChosen, Links!Claimed
  <2> QED BY <1>2, <2>2, LinksLinksHold DEF Links!IInv
<1>3. CASE UNCHANGED Links!vars
  BY <1>3 DEF Links!vars, Links!schemeVars, Links!linkVars, Links!IInv, Links!TypeOK,
     Links!ClaimsHaveReasons, Links!RunIsComplete, Links!ClaimsAreChosen, Links!Claimed,
              Links!ActedArrived, Links!LinksOnce, Links!IsInjective
<1> QED BY <1>1, <1>2, <1>3 DEF Links!Next

LEMMA LinksStepKeepsOthers ==
  ASSUME Links!LinkAssumption
  PROVE  Links!IInv /\ [Links!Next]_(Links!vars) => Links!OthersKept
<1> SUFFICES ASSUME Links!IInv, [Links!Next]_(Links!vars), v4 # Links!NotRunning,
                    NEW f \in Links!Files, NEW s \in LinksSchemes
             PROVE  Links!Others(v3'[f][s]) = Links!Others(v3[f][s])
  BY DEF Links!OthersKept
<1>1. v3 \in [Links!Files -> [LinksSchemes -> Links!Lists]] /\ Links!Primary \in Links!Files
  BY DEF Links!IInv, Links!TypeOK, Links!Files
<1>2. ASSUME NEW t \in LinksSchemes, Links!Register(t)
      PROVE  v3'[f][s] \in {v3[f][s], Links!AddAssociation(v3[f][s])}
  BY <1>1, <1>2 DEF Links!Register
<1>3. ASSUME NEW t \in LinksSchemes, Links!Unregister(t)
      PROVE  v3'[f][s] \in {v3[f][s], Links!RemoveAssociation(v3[f][s])}
  BY <1>1, <1>3 DEF Links!Unregister
<1>4. \/ UNCHANGED v3
      \/ \E t \in LinksSchemes : Links!Register(t) \/ Links!Unregister(t)
  BY DEF Links!Next, Links!vars, Links!schemeVars, Links!SchemeNext, Links!OwnStep, Links!StartUp,
     Links!SetScheme, Links!AllRegistered, Links!Record, Links!Dies, Links!OtherEdits,
         Links!LinkNext, Links!UiReady, Links!Listens, Links!ColdLink, Links!SecondInstance,
         Links!Opens
<1>5. v3[f][s] \in Links!Lists
  BY <1>1
<1> QED BY <1>2, <1>3, <1>4, <1>5, LinksListFacts


-----------------------------------------------------------------------------
(* Scrobbling (Scrobbles), and that its invariant holds at the start and is kept by
   each step. *)
Scrobble == INSTANCE Scrobbles WITH
  MaxPlays <- ScrobbleMaxPlays, MaxJoins <- ScrobbleMaxJoins, MaxFaults <- ScrobbleMaxFaults,
  play <- v1, timers <- v2, timer <- v3, connected <- v4, account <- v5, mail <- v6,
  token <- v7, approved <- v8, calls <- v9, heard <- v10, joins <- v11, faults <- v12

LEMMA ScrobbleInitEstablishes ==
  ASSUME Scrobble!ScrobblesAssumption, Scrobble!Init
  PROVE  Scrobble!IInv
<1> USE DEF Scrobble!ScrobblesAssumption, Scrobble!Init, Scrobble!None, Scrobble!Services,
            Scrobble!Plays
<1>1. Scrobble!TypeOK
  BY DEF Scrobble!TypeOK
<1>2. Scrobble!OneTimer /\ Scrobble!ScrobbledOnce
  BY DEF Scrobble!OneTimer, Scrobble!ScrobbledOnce, Scrobble!Scrobbled
<1>3. Scrobble!OneCall /\ Scrobble!CallsAreConsistent
  BY DEF Scrobble!OneCall, Scrobble!CallsAreConsistent
<1>4. Scrobble!PageKnowsTheAccount
  BY DEF Scrobble!PageKnowsTheAccount
<1> QED BY <1>1, <1>2, <1>3, <1>4 DEF Scrobble!IInv

ScrobbleCallsHold == v9 \subseteq Scrobble!CallTypes /\ Scrobble!OneCall /\
  Scrobble!CallsAreConsistent /\ Scrobble!PageKnowsTheAccount

\* A call more, of a service that has none.
LEMMA ScrobbleAskedHolds ==
  ASSUME Scrobble!ScrobblesAssumption, Scrobble!TypeOK, ScrobbleCallsHold,
         NEW op \in {"join", "session", "leave"},
         NEW s \in Scrobble!Services, NEW t \in 0..ScrobbleMaxJoins, ~Scrobble!Busy(s),
           Scrobble!Ask(op, s, t),
         op = "leave" <=> v4[s], op = "session" => s = "lastfm" /\ t # Scrobble!None,
         UNCHANGED <<v4, v5>>
  PROVE  ScrobbleCallsHold'
<1>1. PICK c : c = [op |-> op, service |-> s, token |-> t, done |-> FALSE, ok |-> FALSE]
  OBVIOUS
<1>2. c \in Scrobble!CallTypes /\ c.op = op /\ c.service = s /\ c.token = t /\ ~c.done
  BY <1>1 DEF Scrobble!CallTypes
<1>3. v9' = v9 \union {c} /\ \A d \in v9 : d.service # s
  BY <1>1 DEF Scrobble!Ask, Scrobble!Busy
<1>4. v9' \subseteq Scrobble!CallTypes /\ Scrobble!OneCall'
  BY <1>2, <1>3 DEF ScrobbleCallsHold, Scrobble!OneCall
<1>5. s = "lastfm" => (v5["lastfm"] # Scrobble!None <=> v4["lastfm"])
  BY <1>3 DEF ScrobbleCallsHold, Scrobble!PageKnowsTheAccount, Scrobble!Busy
<1>6. ASSUME NEW d \in v9'
      PROVE  /\ d.op = "session" => d.service = "lastfm" /\ d.token # Scrobble!None
             /\ d.service = "lastfm" /\ d.op # "leave" =>
                  /\ ~v4["lastfm"]
                  /\ v5["lastfm"] # Scrobble!None <=> d.op = "session" /\ d.done /\ d.ok
             /\ d.service = "lastfm" /\ d.op = "leave" => (v5["lastfm"] = Scrobble!None <=> d.done)
  <2>1. CASE d = c
    BY <1>2, <1>5, <1>6, <2>1
  <2>2. CASE d \in v9
    BY <1>6, <2>2 DEF ScrobbleCallsHold, Scrobble!CallsAreConsistent
  <2> QED BY <1>3, <2>1, <2>2
<1>7. Scrobble!CallsAreConsistent'
  BY <1>6 DEF Scrobble!CallsAreConsistent
<1>8. Scrobble!PageKnowsTheAccount'
  BY <1>3 DEF ScrobbleCallsHold, Scrobble!PageKnowsTheAccount, Scrobble!Busy
<1> QED BY <1>4, <1>7, <1>8 DEF ScrobbleCallsHold

\* The main process is done with a call.
LEMMA ScrobbleDoneHolds ==
  ASSUME Scrobble!ScrobblesAssumption, Scrobble!TypeOK, ScrobbleCallsHold, NEW c \in v9,
         NEW ok \in BOOLEAN, ~c.done,
         Scrobble!Done(c, ok), UNCHANGED v4,
         c.service # "lastfm" => v5'["lastfm"] = v5["lastfm"],
         c.service = "lastfm" /\ c.op # "leave" =>
           (v5'["lastfm"] # Scrobble!None <=> c.op = "session" /\ ok),
         c.service = "lastfm" /\ c.op = "leave" => v5'["lastfm"] = Scrobble!None
  PROVE  ScrobbleCallsHold'
<1>1. PICK e : e = [c EXCEPT !.done = TRUE, !.ok = ok]
  OBVIOUS
<1>2. c = [op |-> c.op, service |-> c.service, token |-> c.token, done |-> c.done, ok |-> c.ok]
      /\ c \in Scrobble!CallTypes
  BY DEF ScrobbleCallsHold, Scrobble!CallTypes
<1>3. /\ e \in Scrobble!CallTypes /\ e.op = c.op /\ e.service = c.service /\ e.token = c.token
      /\ e.done /\ (e.ok <=> ok)
  BY <1>1, <1>2 DEF Scrobble!CallTypes
<1>4. v9' = (v9 \ {c}) \union {e}
  BY <1>1 DEF Scrobble!Done
<1>5. v9' \subseteq Scrobble!CallTypes /\ Scrobble!OneCall'
  BY <1>3, <1>4 DEF ScrobbleCallsHold, Scrobble!OneCall
<1>6. ASSUME NEW d \in v9'
      PROVE  /\ d.op = "session" => d.service = "lastfm" /\ d.token # Scrobble!None
             /\ d.service = "lastfm" /\ d.op # "leave" =>
                  /\ ~v4["lastfm"]
                  /\ v5'["lastfm"] # Scrobble!None <=> d.op = "session" /\ d.done /\ d.ok
             /\ d.service = "lastfm" /\ d.op = "leave" =>
                  (v5'["lastfm"] = Scrobble!None <=> d.done)
  <2>1. CASE d = e
    BY <1>3, <1>6, <2>1 DEF ScrobbleCallsHold, Scrobble!CallsAreConsistent
  <2>2. CASE d \in v9 \ {c}
    <3>1. d.service = "lastfm" => c.service # "lastfm"
      BY <2>2 DEF ScrobbleCallsHold, Scrobble!OneCall
    <3> QED BY <2>2, <3>1 DEF ScrobbleCallsHold, Scrobble!CallsAreConsistent
  <2> QED BY <1>4, <2>1, <2>2
<1>7. Scrobble!CallsAreConsistent'
  BY <1>6 DEF Scrobble!CallsAreConsistent
<1>8. Scrobble!PageKnowsTheAccount'
  <2>1. CASE c.service = "lastfm"
    BY <1>3, <1>4, <2>1 DEF Scrobble!PageKnowsTheAccount, Scrobble!Busy
  <2>2. CASE c.service # "lastfm"
    BY <1>3, <1>4, <2>2 DEF ScrobbleCallsHold, Scrobble!PageKnowsTheAccount, Scrobble!Busy
  <2> QED BY <2>1, <2>2
<1> QED BY <1>5, <1>7, <1>8 DEF ScrobbleCallsHold

\* The answer of a call.
LEMMA ScrobbleAnsweredHolds ==
  ASSUME Scrobble!TypeOK, ScrobbleCallsHold, NEW c \in v9, Scrobble!Answered(c)
  PROVE  ScrobbleCallsHold' /\ v4' \in [Scrobble!Services -> BOOLEAN]
<1> DEFINE b == c.op # "leave" /\ (v4[c.service] \/
                                   (c.ok /\ (c.op = "session" \/ c.service = "lb")))
<1>1. /\ c.done /\ v9' = v9 \ {c} /\ UNCHANGED v5
      /\ v4' = [v4 EXCEPT ![c.service] = b]
  BY DEF Scrobble!Answered
<1>2. c \in Scrobble!CallTypes /\ c.service \in Scrobble!Services /\
        v4 \in [Scrobble!Services -> BOOLEAN]
  BY DEF ScrobbleCallsHold, Scrobble!CallTypes, Scrobble!TypeOK
<1>3. b \in BOOLEAN
  OBVIOUS
<1>4. v4' \in [Scrobble!Services -> BOOLEAN]
  BY <1>1, <1>2, <1>3
<1>5. v9' \subseteq Scrobble!CallTypes /\ Scrobble!OneCall'
  BY <1>1 DEF ScrobbleCallsHold, Scrobble!OneCall
<1>6. CASE c.service = "lastfm"
  <2>1. \A d \in v9' : d.service # "lastfm"
    BY <1>1, <1>6 DEF ScrobbleCallsHold, Scrobble!OneCall
  <2>2. v4'["lastfm"] = b
    BY <1>1, <1>2, <1>6
  <2>3. b <=> v5["lastfm"] # Scrobble!None
    BY <1>1, <1>2, <1>6 DEF ScrobbleCallsHold, Scrobble!CallsAreConsistent, Scrobble!CallTypes
  <2>4. v4'["lastfm"] <=> v5'["lastfm"] # Scrobble!None
    BY <1>1, <2>2, <2>3
  <2>5. \A d \in v9' : d.op # "session"
    BY <1>1, <2>1 DEF ScrobbleCallsHold, Scrobble!CallsAreConsistent
  <2> QED BY <1>4, <1>5, <2>1, <2>4, <2>5 DEF ScrobbleCallsHold, Scrobble!CallsAreConsistent,
             Scrobble!PageKnowsTheAccount
<1>7. CASE c.service # "lastfm"
  <2>1. v4'["lastfm"] = v4["lastfm"]
    BY <1>1, <1>2, <1>7 DEF Scrobble!Services
  <2>2. Scrobble!CallsAreConsistent'
    BY <1>1, <2>1 DEF ScrobbleCallsHold, Scrobble!CallsAreConsistent
  <2>3. Scrobble!PageKnowsTheAccount'
    BY <1>1, <1>7, <2>1 DEF ScrobbleCallsHold, Scrobble!PageKnowsTheAccount, Scrobble!Busy
  <2> QED BY <1>4, <1>5, <2>2, <2>3 DEF ScrobbleCallsHold
<1> QED BY <1>6, <1>7

ScrobbleSongsHold == Scrobble!OneTimer /\ Scrobble!ScrobbledOnce

\* The next song: no timeout of the one before is left.
LEMMA ScrobbleChangeHolds ==
  ASSUME Scrobble!ScrobblesAssumption, Scrobble!TypeOK, ScrobbleSongsHold, Scrobble!Change
  PROVE  /\ ScrobbleSongsHold' /\ v6' \subseteq Scrobble!Messages /\ v2' \subseteq Scrobble!Plays
         /\ v3' \in Scrobble!Plays \union {Scrobble!None} /\ v1' \in 0..ScrobbleMaxPlays
<1>1. v1' = v1 + 1 /\ v1' \in Scrobble!Plays /\ v1 \in Nat /\ UNCHANGED v10
  BY DEF Scrobble!ScrobblesAssumption, Scrobble!TypeOK, Scrobble!Change, Scrobble!Plays
<1>2. /\ v2 \ {v3} = {}
      /\ \/ v2' = {} /\ v3' = Scrobble!None
         \/ v2' = {v1'} /\ v3' = v1'
  BY DEF ScrobbleSongsHold, Scrobble!OneTimer, Scrobble!Change
<1>3. Scrobble!OneTimer' /\ v2' \subseteq Scrobble!Plays /\
        v3' \in Scrobble!Plays \union {Scrobble!None} /\ v1' \in 0..ScrobbleMaxPlays
  BY <1>1, <1>2 DEF Scrobble!OneTimer, Scrobble!Plays
<1>4. v6' = v6 \/ Scrobble!Post("playing", v1')
  BY DEF Scrobble!Change
<1>5. /\ v6' \subseteq Scrobble!Messages
      /\ \A p \in Scrobble!Plays, s \in Scrobble!Services :
           [kind |-> "scrobble", play |-> p, to |-> s] \in v6' =>
             [kind |-> "scrobble", play |-> p, to |-> s] \in v6
  BY <1>1, <1>4 DEF Scrobble!TypeOK, Scrobble!Messages, Scrobble!Post
<1>6. Scrobble!ScrobbledOnce'
  <2> SUFFICES ASSUME NEW s \in Scrobble!Services, NEW p \in Scrobble!Plays
               PROVE  /\ v10[s][p] <= 1
                      /\ [kind |-> "scrobble", play |-> p, to |-> s] \in v6' => v10[s][p] = 0
                      /\ Scrobble!Scrobbled(s, p)' => p <= v1' /\ p \notin v2'
    BY <1>1 DEF Scrobble!ScrobbledOnce
  <2>1. Scrobble!Scrobbled(s, p)' => Scrobble!Scrobbled(s, p)
    BY <1>1, <1>5 DEF Scrobble!Scrobbled
  <2>2. p \in Nat
    BY DEF Scrobble!Plays
  <2> QED BY <1>1, <1>2, <1>5, <2>1, <2>2 DEF ScrobbleSongsHold, Scrobble!ScrobbledOnce
<1> QED BY <1>3, <1>5, <1>6 DEF ScrobbleSongsHold

LEMMA ScrobbleThresholdHolds ==
  ASSUME Scrobble!TypeOK, ScrobbleSongsHold, NEW p \in Scrobble!Plays, Scrobble!Threshold(p)
  PROVE  /\ ScrobbleSongsHold' /\ v6' \subseteq Scrobble!Messages /\ v2' = {}
         /\ v3' = Scrobble!None
<1>1. p \in v2 /\ v3 = p /\ p = v1 /\ v2' = {} /\ v3' = Scrobble!None /\ UNCHANGED <<v1, v10>>
  BY DEF ScrobbleSongsHold, Scrobble!OneTimer, Scrobble!Threshold, Scrobble!None, Scrobble!Plays
<1>2. /\ v6' \subseteq Scrobble!Messages
      /\ \A q \in Scrobble!Plays, s \in Scrobble!Services :
           [kind |-> "scrobble", play |-> q, to |-> s] \in v6' =>
             q = p \/ [kind |-> "scrobble", play |-> q, to |-> s] \in v6
  BY <1>1 DEF Scrobble!TypeOK, Scrobble!Messages, Scrobble!Post, Scrobble!Threshold
<1>3. \A s \in Scrobble!Services : v10[s][p] = 0
  <2> SUFFICES ASSUME NEW s \in Scrobble!Services
               PROVE  v10[s][p] = 0
    OBVIOUS
  <2>1. ~Scrobble!Scrobbled(s, p)
    BY <1>1 DEF ScrobbleSongsHold, Scrobble!ScrobbledOnce
  <2> QED BY <2>1 DEF Scrobble!Scrobbled
<1>4. Scrobble!ScrobbledOnce'
  <2> SUFFICES ASSUME NEW s \in Scrobble!Services, NEW q \in Scrobble!Plays
               PROVE  /\ v10[s][q] <= 1
                      /\ [kind |-> "scrobble", play |-> q, to |-> s] \in v6' => v10[s][q] = 0
                      /\ Scrobble!Scrobbled(s, q)' => q <= v1
    BY <1>1 DEF Scrobble!ScrobbledOnce
  <2>1. Scrobble!Scrobbled(s, q)' => q = p \/ Scrobble!Scrobbled(s, q)
    BY <1>1, <1>2 DEF Scrobble!Scrobbled
  <2>2. p <= v1
    BY <1>1 DEF Scrobble!Plays
  <2> QED BY <1>2, <1>3, <2>1, <2>2 DEF ScrobbleSongsHold, Scrobble!ScrobbledOnce
<1> QED BY <1>1, <1>2, <1>4 DEF ScrobbleSongsHold, Scrobble!OneTimer

LEMMA ScrobbleHandleHolds ==
  ASSUME Scrobble!TypeOK, ScrobbleSongsHold, NEW x \in v6, Scrobble!Handle(x)
  PROVE  ScrobbleSongsHold' /\ v6' \subseteq Scrobble!Messages /\
           v10' \in [Scrobble!Services -> [Scrobble!Plays -> Nat]]
<1>1. v6' = v6 \ {x} /\ x \in Scrobble!Messages /\ UNCHANGED <<v1, v2, v3>>
  BY DEF Scrobble!TypeOK, Scrobble!Handle
<1>2. v10 \in [Scrobble!Services -> [Scrobble!Plays -> Nat]]
  BY DEF Scrobble!TypeOK
<1>3. CASE UNCHANGED v10
  BY <1>1, <1>2, <1>3 DEF Scrobble!TypeOK, ScrobbleSongsHold, Scrobble!OneTimer,
     Scrobble!ScrobbledOnce, Scrobble!Scrobbled
<1>4. CASE x.kind = "scrobble" /\ v10' = [v10 EXCEPT ![x.to][x.play] = @ + 1]
  <2>1. /\ x.to \in Scrobble!Services /\ x.play \in Scrobble!Plays
        /\ x = [kind |-> "scrobble", play |-> x.play, to |-> x.to]
    BY <1>1, <1>4 DEF Scrobble!Messages
  <2>2. v10[x.to][x.play] = 0 /\ Scrobble!Scrobbled(x.to, x.play)
    BY <2>1 DEF ScrobbleSongsHold, Scrobble!ScrobbledOnce, Scrobble!Scrobbled
  <2>3. /\ v10' \in [Scrobble!Services -> [Scrobble!Plays -> Nat]]
        /\ \A s \in Scrobble!Services, p \in Scrobble!Plays :
             v10'[s][p] = IF s = x.to /\ p = x.play THEN 1 ELSE v10[s][p]
    BY <1>2, <1>4, <2>1, <2>2
  <2>4. Scrobble!ScrobbledOnce'
    <3> SUFFICES ASSUME NEW s \in Scrobble!Services, NEW p \in Scrobble!Plays
                 PROVE  /\ v10'[s][p] <= 1
                        /\ [kind |-> "scrobble", play |-> p, to |-> s] \in v6' => v10'[s][p] = 0
                        /\ Scrobble!Scrobbled(s, p)' => p <= v1 /\ p \notin v2
      BY <1>1 DEF Scrobble!ScrobbledOnce
    <3>1. Scrobble!Scrobbled(s, p)' => Scrobble!Scrobbled(s, p)
      BY <1>1, <2>2, <2>3 DEF Scrobble!Scrobbled
    <3>2. s = x.to /\ p = x.play => [kind |-> "scrobble", play |-> p, to |-> s] \notin v6'
      BY <1>1, <2>1
    <3> QED BY <1>1, <2>3, <3>1, <3>2 DEF ScrobbleSongsHold, Scrobble!ScrobbledOnce
  <2> QED BY <1>1, <2>3, <2>4 DEF Scrobble!TypeOK, ScrobbleSongsHold, Scrobble!OneTimer
<1> QED BY <1>3, <1>4 DEF Scrobble!Handle

LEMMA ScrobbleStepPreserves ==
  ASSUME Scrobble!ScrobblesAssumption
  PROVE  Scrobble!IInv /\ [Scrobble!Next]_(Scrobble!vars) => Scrobble!IInv'
<1> SUFFICES ASSUME Scrobble!IInv, [Scrobble!Next]_(Scrobble!vars)
             PROVE  Scrobble!IInv'
  OBVIOUS
<1>0. Scrobble!TypeOK /\ ScrobbleSongsHold /\ ScrobbleCallsHold
  BY DEF Scrobble!IInv, Scrobble!TypeOK, ScrobbleSongsHold, ScrobbleCallsHold
\* A step of the songs leaves the accounts, and one of the accounts the songs.
<1>a. ASSUME UNCHANGED <<v4, v5, v7, v9, v11>>, ScrobbleSongsHold',
             v1' \in 0..ScrobbleMaxPlays, v2' \subseteq Scrobble!Plays,
               v3' \in Scrobble!Plays \union {Scrobble!None},
             v6' \subseteq Scrobble!Messages,
               v10' \in [Scrobble!Services -> [Scrobble!Plays -> Nat]]
      PROVE  Scrobble!IInv'
  BY <1>0, <1>a DEF Scrobble!IInv, Scrobble!TypeOK, ScrobbleSongsHold, ScrobbleCallsHold,
     Scrobble!OneCall, Scrobble!CallsAreConsistent,
     Scrobble!PageKnowsTheAccount, Scrobble!Busy
<1>b. ASSUME UNCHANGED <<v1, v2, v3, v6, v10>>, ScrobbleCallsHold',
             v4' \in [Scrobble!Services -> BOOLEAN],
               v5' \in [Scrobble!Services -> 0..ScrobbleMaxJoins],
             v7' \in 0..ScrobbleMaxJoins, v11' \in 0..ScrobbleMaxJoins
      PROVE  Scrobble!IInv'
  BY <1>0, <1>b DEF Scrobble!IInv, Scrobble!TypeOK, ScrobbleSongsHold, ScrobbleCallsHold,
     Scrobble!OneTimer, Scrobble!ScrobbledOnce, Scrobble!Scrobbled
<1>c. /\ v4 \in [Scrobble!Services -> BOOLEAN] /\ v5 \in [Scrobble!Services -> 0..ScrobbleMaxJoins]
      /\ v7 \in 0..ScrobbleMaxJoins /\ v11 \in 0..ScrobbleMaxJoins
      /\ v9 \subseteq Scrobble!CallTypes
      /\ v1 \in 0..ScrobbleMaxPlays /\ v2 \subseteq Scrobble!Plays
      /\ v3 \in Scrobble!Plays \union {Scrobble!None}
      /\ v10 \in [Scrobble!Services -> [Scrobble!Plays -> Nat]]
      /\ {"lastfm", "lb"} = Scrobble!Services
  BY <1>0 DEF Scrobble!TypeOK, Scrobble!Services
<1>1. CASE UNCHANGED Scrobble!vars
  BY <1>0, <1>1, <1>c, <1>a DEF Scrobble!vars, ScrobbleSongsHold, Scrobble!OneTimer,
     Scrobble!ScrobbledOnce, Scrobble!Scrobbled, Scrobble!TypeOK
<1>2. ASSUME Scrobble!Change PROVE Scrobble!IInv'
  BY <1>0, <1>2, <1>a, <1>c, ScrobbleChangeHolds DEF Scrobble!Change
<1>3. ASSUME NEW p \in Scrobble!Plays, Scrobble!Threshold(p) PROVE Scrobble!IInv'
  BY <1>0, <1>3, <1>a, <1>c, ScrobbleThresholdHolds DEF Scrobble!Threshold
<1>4. ASSUME NEW x \in v6, Scrobble!Handle(x) PROVE Scrobble!IInv'
  BY <1>0, <1>4, <1>a, <1>c, ScrobbleHandleHolds DEF Scrobble!Handle
<1>5. ASSUME Scrobble!Finish PROVE Scrobble!IInv'
  <2>1. ScrobbleCallsHold'
    BY <1>0, <1>5, <1>c, ScrobbleAskedHolds DEF Scrobble!Finish
  <2> QED BY <1>5, <1>b, <1>c, <2>1 DEF Scrobble!Finish
<1>6. ASSUME Scrobble!Approve PROVE Scrobble!IInv'
  <2>1. ScrobbleCallsHold'
    BY <1>0, <1>6 DEF Scrobble!Approve, ScrobbleCallsHold, Scrobble!OneCall,
       Scrobble!CallsAreConsistent, Scrobble!PageKnowsTheAccount, Scrobble!Busy
  <2> QED BY <1>6, <1>b, <1>c, <2>1 DEF Scrobble!Approve
<1>7. ASSUME NEW s \in Scrobble!Services, Scrobble!Join(s) PROVE Scrobble!IInv'
  <2>1. v11 + 1 \in 0..ScrobbleMaxJoins /\ v11' = v11 + 1 /\ Scrobble!Ask("join", s, v11 + 1)
    BY <1>7, <1>c DEF Scrobble!Join, Scrobble!Ask, Scrobble!ScrobblesAssumption
  <2>2. ScrobbleCallsHold'
    BY <1>0, <1>7, <2>1, ScrobbleAskedHolds DEF Scrobble!Join
  <2> QED BY <1>7, <1>b, <1>c, <2>1, <2>2 DEF Scrobble!Join
<1>8. ASSUME NEW s \in Scrobble!Services, Scrobble!Disconnect(s) PROVE Scrobble!IInv'
  <2>1. Scrobble!None \in 0..ScrobbleMaxJoins
    BY DEF Scrobble!None, Scrobble!ScrobblesAssumption
  <2>2. ScrobbleCallsHold'
    BY <1>0, <1>8, <2>1, ScrobbleAskedHolds DEF Scrobble!Disconnect
  <2> QED BY <1>8, <1>b, <1>c, <2>2 DEF Scrobble!Disconnect
<1>9. ASSUME NEW c \in v9, Scrobble!Answered(c) PROVE Scrobble!IInv'
  BY <1>0, <1>9, <1>b, <1>c, ScrobbleAnsweredHolds DEF Scrobble!Answered
<1>10. ASSUME NEW c \in v9, Scrobble!Auth(c) PROVE Scrobble!IInv'
  <2>1. /\ ~c.done /\ c.op = "join" /\ UNCHANGED <<v4, v5>>
        /\ c.token \in 0..ScrobbleMaxJoins
    BY <1>10, <1>c DEF Scrobble!Auth, Scrobble!CallTypes
  <2>2. /\ Scrobble!Done(c, TRUE) \/ Scrobble!Done(c, FALSE)
        /\ v7' \in {v7, c.token}
    BY <1>10 DEF Scrobble!Auth
  <2>3. c.service = "lastfm" => v5["lastfm"] = Scrobble!None
    BY <1>0, <2>1 DEF ScrobbleCallsHold, Scrobble!CallsAreConsistent
  <2>4. ScrobbleCallsHold'
    BY <1>0, <2>1, <2>2, <2>3, ScrobbleDoneHolds
  <2> QED BY <1>10, <1>b, <1>c, <2>1, <2>2, <2>4 DEF Scrobble!Auth
<1>11. ASSUME NEW c \in v9, Scrobble!Session(c) PROVE Scrobble!IInv'
  <2>1. /\ ~c.done /\ c.op = "session" /\ UNCHANGED v4
        /\ c.token \in 0..ScrobbleMaxJoins /\ c.service \in Scrobble!Services
    BY <1>11, <1>c DEF Scrobble!Session, Scrobble!CallTypes
  <2>2. Scrobble!None \in 0..ScrobbleMaxJoins
    BY DEF Scrobble!None, Scrobble!ScrobblesAssumption
  <2>3. CASE v5' = [v5 EXCEPT !["lastfm"] = c.token] /\ v7' = Scrobble!None /\
               Scrobble!Done(c, TRUE)
    <3>1. v5' \in [Scrobble!Services -> 0..ScrobbleMaxJoins] /\ v5'["lastfm"] = c.token
      BY <1>c, <2>1, <2>3
    <3>2. c.service = "lastfm"
      BY <1>0, <2>1 DEF ScrobbleCallsHold, Scrobble!CallsAreConsistent
    <3>3. c.token # Scrobble!None
      BY <1>0, <2>1, <3>2 DEF ScrobbleCallsHold, Scrobble!CallsAreConsistent
    <3>4. ScrobbleCallsHold'
      BY <1>0, <2>1, <2>3, <3>1, <3>2, <3>3, ScrobbleDoneHolds
    <3> QED BY <1>11, <1>b, <1>c, <2>2, <2>3, <3>1, <3>4 DEF Scrobble!Session
  <2>4. CASE Scrobble!Done(c, FALSE) /\ UNCHANGED <<v5, v7>>
    <3>1. c.service = "lastfm" => v5["lastfm"] = Scrobble!None
      BY <1>0, <2>1 DEF ScrobbleCallsHold, Scrobble!CallsAreConsistent
    <3>2. ScrobbleCallsHold'
      BY <1>0, <2>1, <2>4, <3>1, ScrobbleDoneHolds
    <3> QED BY <1>11, <1>b, <1>c, <2>4, <3>2 DEF Scrobble!Session
  <2> QED BY <1>11, <2>3, <2>4 DEF Scrobble!Session
<1>12. ASSUME NEW c \in v9, Scrobble!SetToken(c) PROVE Scrobble!IInv'
  <2>1. /\ ~c.done /\ c.service = "lb" /\ UNCHANGED v4 /\ c.token \in 0..ScrobbleMaxJoins
        /\ v5' = [v5 EXCEPT !["lb"] = c.token] /\
             (Scrobble!Done(c, TRUE) \/ Scrobble!Done(c, FALSE))
    BY <1>12, <1>c DEF Scrobble!SetToken, Scrobble!CallTypes
  <2>2. v5' \in [Scrobble!Services -> 0..ScrobbleMaxJoins] /\ v5'["lastfm"] = v5["lastfm"]
    BY <1>c, <2>1
  <2>3. ScrobbleCallsHold'
    BY <1>0, <2>1, <2>2, ScrobbleDoneHolds
  <2> QED BY <1>12, <1>b, <1>c, <2>2, <2>3 DEF Scrobble!SetToken
<1>13. ASSUME NEW c \in v9, Scrobble!Leave(c) PROVE Scrobble!IInv'
  <2>1. /\ ~c.done /\ c.op = "leave" /\ UNCHANGED v4 /\ c.service \in Scrobble!Services
        /\ v5' = [v5 EXCEPT ![c.service] = Scrobble!None] /\ Scrobble!Done(c, TRUE)
    BY <1>13, <1>c DEF Scrobble!Leave, Scrobble!CallTypes
  <2>2. Scrobble!None \in 0..ScrobbleMaxJoins
    BY DEF Scrobble!None, Scrobble!ScrobblesAssumption
  <2>3. /\ v5' \in [Scrobble!Services -> 0..ScrobbleMaxJoins]
        /\ c.service # "lastfm" => v5'["lastfm"] = v5["lastfm"]
        /\ c.service = "lastfm" => v5'["lastfm"] = Scrobble!None
    BY <1>c, <2>1, <2>2
  <2>4. ScrobbleCallsHold'
    BY <1>0, <2>1, <2>3, ScrobbleDoneHolds
  <2> QED BY <1>13, <1>b, <1>c, <2>3, <2>4 DEF Scrobble!Leave
<1> QED BY <1>1, <1>2, <1>3, <1>4, <1>5, <1>6, <1>7, <1>8, <1>9, <1>10, <1>11, <1>12,
           <1>13 DEF Scrobble!Next

LEMMA ScrobbleConsequences ==
  ASSUME Scrobble!IInv
  PROVE  Scrobble!TypeOK /\ Scrobble!ScrobblesAreEarned /\ Scrobble!PageKnowsTheAccount
<1>1. v2 \subseteq {v1}
  BY DEF Scrobble!TypeOK, Scrobble!IInv, Scrobble!OneTimer, Scrobble!None, Scrobble!Plays
<1> QED BY <1>1 DEF Scrobble!IInv, Scrobble!ScrobbledOnce, Scrobble!ScrobblesAreEarned


-----------------------------------------------------------------------------
(* Fades (VolumeFades), and that its invariant holds at the start and is kept by
   each step. *)
Fades == INSTANCE VolumeFades WITH
  Full <- FadesFull, MaxTracks <- FadesMaxTracks, MaxUser <- FadesMaxUser, path <- v1,
  replaced <- v2, volume <- v3, vlcVolume <- v4, noticed <- v5, on <- v6, base <- v7,
  ramps <- v8, timer <- v9, fadedOut <- v10, skipIn <- v11, fadedIn <- v12, chosen <- v13,
  track <- v14, changes <- v15

\* A ramp from a level to another stays between them, and its last step is at its end.
LEMMA FadesQuotients ==
  ASSUME NEW n \in Nat \ {0}, NEW k \in 1..n, NEW d \in Nat
  PROVE  /\ (k * d) \div n \in 0..d
         /\ k = n => (k * d) \div n = d
<1>0. PICK x \in Nat : x = k * d
  OBVIOUS
<1>1. PICK q \in Int : q = x \div n
  OBVIOUS
<1>2. n * q <= k * d /\ k * d < n * q + n
  BY <1>0, <1>1
<1>3. k * d <= n * d /\ 0 <= k * d
  OBVIOUS
<1>4. n * q < n * d + n
  BY <1>2, <1>3
<1>5. n * (q - d) < n
  BY <1>4
<1>6. q - d < 1
  BY <1>5
<1>7. n * (q + 1) > 0
  BY <1>2, <1>3
<1>8. q + 1 > 0
  BY <1>7
<1>9. k = n => n * (d - q) < n
  BY <1>2
<1>10. k = n => d - q < 1
  BY <1>9
<1> QED BY <1>0, <1>1, <1>6, <1>8, <1>10

LEMMA FadesRampPasses ==
  ASSUME Fades!FadesAssumption,
         NEW r \in [id : {1, 2}, from : Fades!Levels, to : Fades!Levels, step : 0..(FadesFull - 1)]
  PROVE  /\ Fades!Passed(r) \in Fades!Levels
         /\ r.step + 1 = FadesFull => Fades!Passed(r) = r.to
<1>1. /\ FadesFull \in Nat \ {0} /\ r.step + 1 \in 1..FadesFull
      /\ r.from \in 0..FadesFull /\ r.to \in 0..FadesFull
  BY DEF Fades!FadesAssumption, Fades!Levels
<1>2. CASE r.to >= r.from
  <2>1. PICK d \in Nat : d = r.to - r.from
    BY <1>1, <1>2
  <2>2. /\ ((r.step + 1) * d) \div FadesFull \in 0..d
        /\ r.step + 1 = FadesFull => ((r.step + 1) * d) \div FadesFull = d
    BY <1>1, FadesQuotients
  <2>3. Fades!Passed(r) = r.from + ((r.step + 1) * d) \div FadesFull
    BY <1>2, <2>1 DEF Fades!Passed
  <2> QED BY <1>1, <2>1, <2>2, <2>3 DEF Fades!Levels
<1>3. CASE r.to < r.from
  <2>1. PICK d \in Nat : d = r.from - r.to
    BY <1>1, <1>3
  <2>2. /\ ((r.step + 1) * d) \div FadesFull \in 0..d
        /\ r.step + 1 = FadesFull => ((r.step + 1) * d) \div FadesFull = d
    BY <1>1, FadesQuotients
  <2>3. Fades!Passed(r) = r.from - ((r.step + 1) * d) \div FadesFull
    BY <1>1, <1>3, <2>1 DEF Fades!Passed
  <2>4. PICK x \in 0..d : x = ((r.step + 1) * d) \div FadesFull /\
               (r.step + 1 = FadesFull => x = d)
    BY <2>2
  <2>5. Fades!Passed(r) = r.from - x /\ x <= r.from
    BY <1>1, <2>1, <2>3, <2>4
  <2> QED BY <1>1, <2>1, <2>4, <2>5 DEF Fades!Levels
<1> QED BY <1>1, <1>2, <1>3

LEMMA FadesInitEstablishes ==
  ASSUME Fades!FadesAssumption, Fades!Init
  PROVE  Fades!IInv
<1>1. /\ v3 \in Fades!Levels /\ v4 \in Fades!Levels /\ v13 \in Fades!Levels /\ v7 = Fades!None
      /\ v9 \in 0..2 /\ v8 = {} /\ v12 = FALSE
  BY DEF Fades!FadesAssumption, Fades!Init, Fades!Levels
<1>2. Fades!TypeOK
  BY <1>1, ZenonT(60) DEF Fades!Init, Fades!TypeOK
<1> QED BY <1>1, <1>2 DEF Fades!IInv, Fades!OneRamp, Fades!HeadRamps, Fades!HeadIsHeard

\* What the volume is that is heard, whichever property it is.
LEMMA FadesWriteTypes ==
  ASSUME Fades!TypeOK, NEW v \in Fades!Levels, Fades!Write(v)
  PROVE  /\ v3' \in Fades!Levels /\ v4' \in Fades!Levels /\ v5' \in BOOLEAN
         /\ (IF v2 THEN v4' ELSE v3') = v
BY DEF Fades!TypeOK, Fades!Write

LEMMA FadesRampFacts ==
  ASSUME Fades!FadesAssumption, Fades!TypeOK, Fades!OneRamp, NEW to \in Fades!Levels,
         NEW from \in Fades!Levels, Fades!Ramp(to, from)
  PROVE  /\ v9' \in {1, 2} /\ Fades!Cancelled = {}
         /\ v8' = {[id |-> v9', from |-> from, to |-> to, step |-> 0]}
         /\ v8' \subseteq [id : {1, 2}, from : Fades!Levels, to : Fades!Levels, step :
              0..(FadesFull - 1)]
<1>1. Fades!Cancelled = {}
  BY DEF Fades!OneRamp, Fades!Cancelled
<1>2. v9' \in {1, 2} /\ v8' = {[id |-> v9', from |-> from, to |-> to, step |-> 0]}
  BY <1>1 DEF Fades!Ramp
<1>3. 0 \in 0..(FadesFull - 1)
  BY DEF Fades!FadesAssumption
<1> QED BY <1>1, <1>2, <1>3

LEMMA FadesStepPreserves ==
  ASSUME Fades!FadesAssumption
  PROVE  Fades!IInv /\ [Fades!Next]_(Fades!vars) => Fades!IInv'
<1> SUFFICES ASSUME Fades!IInv, [Fades!Next]_(Fades!vars) PROVE Fades!IInv'
  OBVIOUS
<1> DEFINE RampSet == [id : {1, 2}, from : Fades!Levels, to : Fades!Levels, step :
             0..(FadesFull - 1)]
<1> USE DEF Fades!FadesAssumption
<1>0. /\ Fades!TypeOK /\ Fades!OneRamp /\ Fades!HeadRamps /\ Fades!HeadIsHeard
      /\ 0 \in Fades!Levels /\ FadesFull \in Fades!Levels /\ Fades!None \notin Fades!Levels
      /\ Fades!Cancelled = {}
  BY DEF Fades!IInv, Fades!Levels, Fades!None, Fades!OneRamp, Fades!Cancelled
<1> USE DEF Fades!IInv, Fades!OneRamp, Fades!HeadRamps, Fades!HeadIsHeard
<1>1. CASE Fades!Leave
  <2>1. Fades!TypeOK'
    BY <1>0, <1>1 DEF Fades!Leave, Fades!TypeOK
  <2> QED BY <1>0, <1>1, <2>1 DEF Fades!Leave
<1>2. CASE Fades!EnterMse
  <2>1. CASE ~v6 \/ v11
    <3>1. Fades!TypeOK'
      BY <1>0, <1>2, <2>1 DEF Fades!EnterMse, Fades!TypeOK
    <3> QED BY <1>0, <1>2, <2>1, <3>1 DEF Fades!EnterMse
  <2>2. CASE v6 /\ ~v11
    <3>1. PICK cur \in Fades!Levels : cur = IF v2 THEN v4 ELSE v3
      BY <1>0 DEF Fades!TypeOK
    <3>2. PICK b : b = v7'
      OBVIOUS
    <3>3. /\ b = (IF v7 # Fades!None THEN v7 ELSE IF cur = 0 THEN FadesFull ELSE cur)
          /\ Fades!Write(0) /\ Fades!Ramp(b, 0) /\ v12' = TRUE
          /\ v1' = "mse" /\ v10' = FALSE /\ UNCHANGED <<v11, v2, v6, v13>>
      BY <1>2, <2>2, <3>1, <3>2 DEF Fades!EnterMse, Fades!Ramp, Fades!Cancelled
    <3>4. b \in Fades!Levels
      BY <1>0, <3>1, <3>3 DEF Fades!TypeOK
    <3>5. /\ v9' \in {1, 2} /\ v8' \subseteq RampSet
          /\ v8' = {[id |-> v9', from |-> 0, to |-> b, step |-> 0]}
      BY <1>0, <3>3, <3>4, FadesRampFacts
    <3>6. v3' \in Fades!Levels /\ v4' \in Fades!Levels /\ v5' \in BOOLEAN
      BY <1>0, <3>3, FadesWriteTypes
    <3>7. Fades!TypeOK'
      <4>1. v9' \in 0..2 /\ v7' \in Fades!Levels \union {Fades!None} /\
              v1' \in {"none", "mse", "vlc"}
        BY <3>2, <3>3, <3>4, <3>5
      <4> QED BY <1>0, <3>3, <3>5, <3>6, <4>1, ZenonT(60) DEF Fades!TypeOK
    <3> QED BY <1>0, <3>2, <3>3, <3>4, <3>5, <3>7
  <2> QED BY <1>0, <2>1, <2>2 DEF Fades!TypeOK
<1>3. CASE Fades!EnterVlc
  <2>1. Fades!TypeOK'
    BY <1>0, <1>3 DEF Fades!EnterVlc, Fades!TypeOK
  <2> QED BY <1>0, <1>3, <2>1 DEF Fades!EnterVlc
<1>4. CASE Fades!Tail
  <2>1. /\ v10' = TRUE /\ v12' = FALSE /\ v11' \in BOOLEAN
        /\ UNCHANGED <<v1, v2, v3, v4, v5, v6, v7, v13>>
        /\ \/ Fades!Ramp(0, IF v2 THEN v4 ELSE v3)
           \/ UNCHANGED <<v8, v9>>
    BY <1>0, <1>4 DEF Fades!Tail, Fades!TypeOK
  <2>2. CASE Fades!Ramp(0, IF v2 THEN v4 ELSE v3)
    <3>1. (IF v2 THEN v4 ELSE v3) \in Fades!Levels
      BY <1>0 DEF Fades!TypeOK
    <3>2. v9' \in 0..2 /\ v8' \subseteq RampSet /\ \A r \in v8' : r.id = v9'
      <4>1. PICK from \in Fades!Levels : from = IF v2 THEN v4 ELSE v3
        BY <3>1
      <4>2. /\ v9' \in {1, 2} /\ v8' \subseteq RampSet
            /\ v8' = {[id |-> v9', from |-> from, to |-> 0, step |-> 0]}
        BY <1>0, <2>2, <4>1, FadesRampFacts
      <4> QED BY <4>2
    <3>3. Fades!TypeOK'
      BY <1>0, <2>1, <3>2, ZenonT(60) DEF Fades!TypeOK
    <3> QED BY <2>1, <3>2, <3>3
  <2>3. CASE UNCHANGED <<v8, v9>>
    <3>1. Fades!TypeOK'
      BY <1>0, <2>1, <2>3 DEF Fades!TypeOK
    <3> QED BY <1>0, <2>1, <2>3, <3>1
  <2> QED BY <2>1, <2>2, <2>3
<1>5. ASSUME NEW r \in v8, Fades!Step(r)
      PROVE  Fades!IInv'
  <2>1. r \in RampSet /\ r.id = v9 /\ v9 # 0
    BY <1>0 DEF Fades!TypeOK
  <2>2. PICK v \in Fades!Levels : v = Fades!Passed(r) /\ (r.step + 1 = FadesFull => v = r.to)
    BY <2>1, FadesRampPasses
  <2>3. /\ v3' \in Fades!Levels /\ v4' \in Fades!Levels /\ v5' \in BOOLEAN
        /\ (IF v2 THEN v4' ELSE v3') = v
    BY <1>0, <1>5, <2>2, FadesWriteTypes DEF Fades!Step
  <2>4. UNCHANGED <<v1, v2, v6, v7, v10, v11, v12, v13>>
    BY <1>5 DEF Fades!Step
  <2>5. CASE r.step + 1 = FadesFull
    <3>1. v8' = {} /\ v9' = 0
      BY <1>0, <1>5, <2>5 DEF Fades!Step
    <3>2. Fades!TypeOK'
      BY <1>0, <2>3, <2>4, <3>1 DEF Fades!TypeOK
    <3>3. v12 => v = v7
      BY <1>0, <2>1, <2>2, <2>5
    <3> QED BY <1>0, <2>3, <2>4, <3>1, <3>2, <3>3
  <2>6. CASE r.step + 1 # FadesFull
    <3>1. /\ v8' = (v8 \ {r}) \union {[r EXCEPT !.step = r.step + 1]} /\ v9' = v9
      BY <1>5, <2>6 DEF Fades!Step
    <3>2. r.step + 1 \in 0..(FadesFull - 1)
      BY <2>1, <2>6
    <3>3. /\ [r EXCEPT !.step = r.step + 1] \in RampSet
          /\ [r EXCEPT !.step = r.step + 1].id = r.id
          /\ [r EXCEPT !.step = r.step + 1].from = r.from
          /\ [r EXCEPT !.step = r.step + 1].to = r.to
      BY <2>1, <3>2
    <3>4. Fades!TypeOK'
      BY <1>0, <2>3, <2>4, <3>1, <3>3 DEF Fades!TypeOK
    <3>5. Fades!OneRamp'
      BY <1>0, <2>1, <3>1, <3>3
    <3>6. Fades!HeadRamps'
      BY <1>0, <2>1, <2>4, <3>1, <3>3
    <3>7. Fades!HeadIsHeard'
      BY <2>1, <3>1
    <3> QED BY <3>4, <3>5, <3>6, <3>7
  <2> QED BY <2>5, <2>6
<1>6. ASSUME NEW v \in Fades!Levels, Fades!UserVolume(v)
      PROVE  Fades!IInv'
  <2>1. /\ v3' \in Fades!Levels /\ v4' \in Fades!Levels /\ v5' \in BOOLEAN
        /\ v13' = v /\ v12' = FALSE
        /\ UNCHANGED <<v1, v2, v6, v7, v8, v9, v10, v11>>
    BY <1>0, <1>6, FadesWriteTypes DEF Fades!UserVolume
  <2>2. Fades!TypeOK'
    BY <1>0, <2>1 DEF Fades!TypeOK
  <2> QED BY <1>0, <2>1, <2>2
<1>7. CASE Fades!VolumeChange
  <2>1. v7' = v7 \/ (v9 = 0 /\ v7' = IF v2 THEN v4 ELSE v3)
    BY <1>7 DEF Fades!VolumeChange
  <2>2. /\ v5' = TRUE
        /\ UNCHANGED <<v1, v2, v3, v4, v6, v8, v9, v10, v11, v12, v13>>
    BY <1>7 DEF Fades!VolumeChange
  <2>3. v7' \in Fades!Levels \union {Fades!None} /\ (v7' # v7 => v7' \in Fades!Levels)
    BY <1>0, <2>1 DEF Fades!TypeOK
  <2>4. Fades!TypeOK'
    BY <1>0, <2>2, <2>3 DEF Fades!TypeOK
  <2> QED BY <1>0, <2>1, <2>2, <2>3, <2>4
<1>8. CASE Fades!SetMode
  <2>1. /\ v12' = FALSE /\ v6' \in BOOLEAN
        /\ UNCHANGED <<v1, v2, v7, v10, v11, v13>>
        /\ (v8' = {} /\ v9' = 0) \/ UNCHANGED <<v8, v9>>
        /\ (v7 # Fades!None /\ Fades!Write(v7)) \/ UNCHANGED <<v3, v4, v5>>
    BY <1>0, <1>8 DEF Fades!SetMode, Fades!TypeOK
  <2>2. v3' \in Fades!Levels /\ v4' \in Fades!Levels /\ v5' \in BOOLEAN
    BY <1>0, <2>1, FadesWriteTypes DEF Fades!TypeOK
  <2>3. v9' \in 0..2 /\ v8' \subseteq RampSet
    BY <1>0, <2>1 DEF Fades!TypeOK
  <2>4. Fades!TypeOK'
    BY <1>0, <2>1, <2>2, <2>3, ZenonT(60) DEF Fades!TypeOK
  <2> QED BY <1>0, <2>1, <2>4
<1>9. CASE UNCHANGED Fades!vars
  BY <1>0, <1>9 DEF Fades!vars, Fades!TypeOK
<1> QED BY <1>1, <1>2, <1>3, <1>4, <1>5, <1>6, <1>7, <1>8, <1>9 DEF Fades!Next


-----------------------------------------------------------------------------
(* Cache warming (PrefetchJobs), and that its invariant holds at the start and is kept by
   each step. *)
Prefetch == INSTANCE PrefetchJobs WITH
  Slots <- PrefetchSlots, Paged <- PrefetchPaged, MaxContexts <- PrefetchMaxContexts,
  slot <- v1, reading <- v2, puts <- v3, seq <- v4, jobs <- v5, running <- v6, cancels <- v7,
  ended <- v8

LEMMA PrefetchInitEstablishes ==
  ASSUME Prefetch!PrefetchAssumption, Prefetch!Init
  PROVE  Prefetch!IInv
BY DEF Prefetch!Init, Prefetch!PrefetchAssumption, Prefetch!IInv, Prefetch!TypeOK,
   Prefetch!SentOnce, Prefetch!LatestFillsTheSlot, Prefetch!JobsAreKnown, Prefetch!Moved,
       Prefetch!Contexts, Prefetch!None

\* A context is sent: it was not sent before, and its slot's job is cancelled.
LEMMA PrefetchSendPreserves ==
  ASSUME Prefetch!PrefetchAssumption, Prefetch!IInv, NEW c \in Prefetch!Contexts,
         NEW s \in PrefetchSlots, Prefetch!Send(c, s),
         v1' \in [Prefetch!Contexts -> PrefetchSlots \union {Prefetch!None}], v1'[c] = s,
         \A d \in Prefetch!Moved : v1'[d] = v1[d], \A p \in v3 : p.ctx # c,
         c \notin v6 \union v8, v2' \subseteq v2 \ {c},
         UNCHANGED <<v6, v8>>
  PROVE  Prefetch!IInv'
<1> USE DEF Prefetch!PrefetchAssumption, Prefetch!IInv, Prefetch!TypeOK, Prefetch!None
<1>1. \A d \in Prefetch!Moved : d \in Prefetch!Contexts /\ v1[d] \in PrefetchSlots /\
        v1'[d] = v1[d]
  BY DEF Prefetch!Moved
<1>2. Prefetch!Moved \subseteq Prefetch!Moved' /\ c \in Prefetch!Moved'
  BY DEF Prefetch!Moved
<1> DEFINE put == [ctx |-> c, seq |-> v4[s] + 1, answered |-> FALSE]
<1>3. /\ v3' = v3 \union {put}
      /\ v4' = [v4 EXCEPT ![s] = v4[s] + 1]
      /\ v7' = v7 \union ({v5[s]} \ {Prefetch!None})
      /\ v5' = [v5 EXCEPT ![s] = Prefetch!None]
  BY DEF Prefetch!Send
<1>4. Prefetch!TypeOK'
  <2>1. v4' \in [PrefetchSlots -> Nat] /\
          v5' \in [PrefetchSlots -> Prefetch!Moved' \union {Prefetch!None}]
    BY <1>2, <1>3
  <2>2. v7' \subseteq Prefetch!Moved'
    BY <1>2, <1>3
  <2>3. put \in [ctx : Prefetch!Moved', seq : Nat, answered : BOOLEAN]
    BY <1>2
  <2>4. v3' \subseteq [ctx : Prefetch!Moved', seq : Nat, answered : BOOLEAN]
    BY <1>2, <1>3, <2>3
  <2> QED BY <1>2, <2>1, <2>2, <2>4
<1>5. /\ \A p \in v3 : p.ctx \in Prefetch!Moved /\ p.seq \in Nat /\ p.answered \in BOOLEAN
      /\ put.ctx = c /\ put.seq = v4[s] + 1 /\ ~put.answered
  OBVIOUS
<1> HIDE DEF put
<1>6. Prefetch!SentOnce'
  BY <1>3, <1>5 DEF Prefetch!SentOnce
<1>7. Prefetch!LatestFillsTheSlot'
  <2>1. \A t \in PrefetchSlots : /\ v4'[t] = IF t = s THEN v4[s] + 1 ELSE v4[t]
                                 /\ v5'[t] = IF t = s THEN Prefetch!None ELSE v5[t]
    BY <1>3
  <2>2. \A p \in v3 : /\ v1'[p.ctx] = v1[p.ctx] /\ v1[p.ctx] \in PrefetchSlots
                      /\ p.seq <= v4[v1[p.ctx]] /\ p.seq \in Nat
    BY <1>1, <1>5 DEF Prefetch!LatestFillsTheSlot
  <2>3. \A t \in PrefetchSlots : v4[t] \in Nat
    OBVIOUS
  <2>4. \A p, q \in v3' : v1'[p.ctx] = v1'[q.ctx] /\ p.seq = q.seq => p = q
    BY <1>3, <1>5, <2>2, <2>3 DEF Prefetch!LatestFillsTheSlot
  <2>5. ASSUME NEW p \in v3'
        PROVE  /\ p.seq <= v4'[v1'[p.ctx]]
               /\ p.seq = v4'[v1'[p.ctx]] => v5'[v1'[p.ctx]] = Prefetch!None
    <3>1. CASE p = put
      BY <1>5, <2>1, <2>3, <3>1
    <3>2. CASE p \in v3
      BY <2>1, <2>2, <2>3, <3>2 DEF Prefetch!LatestFillsTheSlot
    <3> QED BY <1>3, <3>1, <3>2
  <2> QED BY <2>4, <2>5 DEF Prefetch!LatestFillsTheSlot
<1>8. Prefetch!JobsAreKnown'
  <2> SUFFICES ASSUME NEW j \in v6 \ v7', j # v5'[v1'[j]]
               PROVE  \E p \in v3' : p.ctx = j /\ p.answered
    BY DEF Prefetch!JobsAreKnown
  <2>1. j \in Prefetch!Moved /\ v1[j] \in PrefetchSlots /\ v1'[j] = v1[j] /\ j # 0
    BY <1>1 DEF Prefetch!Contexts
  <2>2. j # v5[v1[j]]
    BY <1>3, <2>1
  <2> QED BY <1>3, <2>2 DEF Prefetch!JobsAreKnown
<1> QED BY <1>4, <1>6, <1>7, <1>8

LEMMA PrefetchStepPreserves ==
  ASSUME Prefetch!PrefetchAssumption
  PROVE  Prefetch!IInv /\ [Prefetch!Next]_(Prefetch!vars) => Prefetch!IInv'
<1> SUFFICES ASSUME Prefetch!IInv, [Prefetch!Next]_(Prefetch!vars)
             PROVE  Prefetch!IInv'
  OBVIOUS
<1> USE DEF Prefetch!PrefetchAssumption, Prefetch!IInv, Prefetch!TypeOK, Prefetch!None
<1>a. \A d \in Prefetch!Moved : d \in Prefetch!Contexts /\ v1[d] \in PrefetchSlots /\
        v1[d] # Prefetch!None
  BY DEF Prefetch!Moved
<1>b. \A p \in v3 : /\ p.ctx \in Prefetch!Moved /\ p.seq \in Nat /\ p.answered \in BOOLEAN
                    /\ p = [ctx |-> p.ctx, seq |-> p.seq, answered |-> p.answered]
  OBVIOUS
<1>1. CASE UNCHANGED Prefetch!vars
  BY <1>1 DEF Prefetch!vars, Prefetch!SentOnce, Prefetch!LatestFillsTheSlot,
     Prefetch!JobsAreKnown, Prefetch!Moved
<1>2. ASSUME NEW c \in Prefetch!Contexts, NEW s \in PrefetchSlots, Prefetch!MoveTo(c, s)
      PROVE  Prefetch!IInv'
  <2>1. /\ c \notin Prefetch!Moved /\ v1' = [v1 EXCEPT ![c] = s] /\ UNCHANGED <<v6, v8>>
    BY <1>2 DEF Prefetch!MoveTo, Prefetch!Moved
  <2>2. /\ v1' \in [Prefetch!Contexts -> PrefetchSlots \union {Prefetch!None}] /\ v1'[c] = s
        /\ \A d \in Prefetch!Moved : v1'[d] = v1[d]
    BY <2>1
  <2>3. (\A p \in v3 : p.ctx # c) /\ c \notin v6 \union v8 \union v2
    BY <2>1, <1>b
  <2>4. CASE s \in PrefetchPaged
    <3>1. v2' = v2 \union {c} /\ UNCHANGED <<v3, v4, v5, v7>>
      BY <1>2, <2>4 DEF Prefetch!MoveTo
    <3>2. Prefetch!Moved \subseteq Prefetch!Moved' /\ c \in Prefetch!Moved'
      BY <1>a, <2>1, <2>2 DEF Prefetch!Moved
    <3>3. Prefetch!TypeOK'
      BY <2>1, <2>2, <3>1, <3>2
    <3>4. Prefetch!SentOnce'
      BY <2>1, <2>3, <3>1 DEF Prefetch!SentOnce
    <3>5. Prefetch!LatestFillsTheSlot'
      BY <1>b, <2>2, <3>1 DEF Prefetch!LatestFillsTheSlot
    <3>6. Prefetch!JobsAreKnown'
      BY <2>1, <2>2, <3>1 DEF Prefetch!JobsAreKnown
    <3> QED BY <3>3, <3>4, <3>5, <3>6
  <2>5. CASE s \notin PrefetchPaged
    <3>1. Prefetch!Send(c, s) /\ UNCHANGED v2
      BY <1>2, <2>5 DEF Prefetch!MoveTo
    <3> QED BY <2>1, <2>2, <2>3, <3>1, PrefetchSendPreserves
  <2> QED BY <2>4, <2>5
<1>3. ASSUME NEW c \in Prefetch!Contexts, Prefetch!CatalogueAnswers(c)
      PROVE  Prefetch!IInv'
  <2>1. c \in v2 /\ v2' = v2 \ {c} /\ UNCHANGED <<v1, v6, v8>>
    BY <1>3 DEF Prefetch!CatalogueAnswers
  <2>2. c \in Prefetch!Moved /\ (\A p \in v3 : p.ctx # c) /\ c \notin v6 \union v8
    BY <2>1 DEF Prefetch!SentOnce
  <2>3. CASE Prefetch!Send(c, v1[c])
    BY <1>a, <2>1, <2>2, <2>3, PrefetchSendPreserves
  <2>4. CASE UNCHANGED <<v3, v4, v5, v7>>
    BY <2>1, <2>4 DEF Prefetch!SentOnce, Prefetch!LatestFillsTheSlot, Prefetch!JobsAreKnown,
       Prefetch!Moved
  <2> QED BY <1>3, <2>3, <2>4 DEF Prefetch!CatalogueAnswers
<1>4. ASSUME NEW p \in v3, Prefetch!EngineTakes(p)
      PROVE  Prefetch!IInv'
  <2>1. ~p.answered /\ UNCHANGED <<v1, v2, v4, v5, v7, v8>> /\ Prefetch!Moved' = Prefetch!Moved
    BY <1>4 DEF Prefetch!EngineTakes, Prefetch!Moved
  <2>2. CASE v3' = v3 \ {p} /\ UNCHANGED v6
    <3>1. Prefetch!JobsAreKnown'
      BY <2>1, <2>2 DEF Prefetch!JobsAreKnown
    <3> QED BY <2>1, <2>2, <3>1 DEF Prefetch!SentOnce, Prefetch!LatestFillsTheSlot
  <2>3. CASE /\ v3' = (v3 \ {p}) \union {[p EXCEPT !.answered = TRUE]}
             /\ v6' = v6 \union {p.ctx}
    <3>1. PICK q : q = [p EXCEPT !.answered = TRUE]
      OBVIOUS
    <3>2. /\ q.ctx = p.ctx /\ q.seq = p.seq /\ q.answered
          /\ q \in [ctx : Prefetch!Moved, seq : Nat, answered : BOOLEAN]
      BY <1>b, <3>1
    <3>3. v3' = (v3 \ {p}) \union {q}
      BY <2>3, <3>1
    <3>4. Prefetch!TypeOK'
      BY <1>b, <2>1, <2>3, <3>2, <3>3
    <3>5. Prefetch!SentOnce'
      BY <2>1, <2>3, <3>2, <3>3 DEF Prefetch!SentOnce
    <3>6. Prefetch!LatestFillsTheSlot'
      BY <2>1, <3>2, <3>3 DEF Prefetch!LatestFillsTheSlot
    <3>7. Prefetch!JobsAreKnown'
      BY <2>1, <2>3, <3>2, <3>3 DEF Prefetch!JobsAreKnown
    <3> QED BY <3>4, <3>5, <3>6, <3>7
  <2> QED BY <1>4, <2>2, <2>3 DEF Prefetch!EngineTakes
<1>5. ASSUME NEW p \in v3, Prefetch!Answered(p)
      PROVE  Prefetch!IInv'
  <2>1. /\ v3' = v3 \ {p} /\ UNCHANGED <<v1, v2, v4, v6, v8>> /\ Prefetch!Moved' = Prefetch!Moved
    BY <1>5 DEF Prefetch!Answered, Prefetch!Moved
  <2>2. Prefetch!SentOnce'
    BY <2>1 DEF Prefetch!SentOnce
  <2> DEFINE s == v1[p.ctx]
  <2>3. s \in PrefetchSlots /\ p.ctx \in Prefetch!Moved
    BY <1>a, <1>b
  <2>4. CASE v4[s] = p.seq /\ v5' = [v5 EXCEPT ![s] = p.ctx] /\ UNCHANGED v7
    <3>1. Prefetch!TypeOK'
      BY <2>1, <2>3, <2>4
    <3>2. Prefetch!LatestFillsTheSlot'
      BY <1>a, <1>b, <2>1, <2>3, <2>4 DEF Prefetch!LatestFillsTheSlot
    <3>3. v5[s] = Prefetch!None
      BY <2>4 DEF Prefetch!LatestFillsTheSlot
    <3>4. ASSUME NEW j \in v6 \ v7
          PROVE  j = v5'[v1[j]] \/ \E q \in v3' : q.ctx = j /\ q.answered
      <4>1. j \in Prefetch!Moved /\ v1[j] \in PrefetchSlots /\ j # 0
        BY <1>a DEF Prefetch!Contexts
      <4>2. CASE j = p.ctx
        BY <2>3, <2>4, <4>2
      <4>3. CASE j # p.ctx
        BY <2>1, <2>3, <2>4, <3>3, <4>1, <4>3 DEF Prefetch!JobsAreKnown
      <4> QED BY <4>2, <4>3
    <3>5. Prefetch!JobsAreKnown'
      BY <2>1, <2>4, <3>4 DEF Prefetch!JobsAreKnown
    <3> QED BY <2>2, <3>1, <3>2, <3>5
  <2>5. CASE v7' = v7 \union {p.ctx} /\ UNCHANGED v5
    <3>1. Prefetch!TypeOK'
      BY <2>1, <2>3, <2>5
    <3>2. Prefetch!LatestFillsTheSlot'
      BY <2>1, <2>5 DEF Prefetch!LatestFillsTheSlot
    <3>3. Prefetch!JobsAreKnown'
      BY <2>1, <2>5 DEF Prefetch!JobsAreKnown
    <3> QED BY <2>2, <3>1, <3>2, <3>3
  <2> QED BY <1>5, <2>4, <2>5 DEF Prefetch!Answered
<1>6. ASSUME NEW j \in Prefetch!Contexts, Prefetch!EngineCancels(j)
      PROVE  Prefetch!IInv'
  <2>1. /\ v7' = v7 \ {j} /\ v6' = v6 \ {j}
        /\ v8' = v8 \union ({j} \intersect v6)
        /\ UNCHANGED <<v1, v2, v3, v4, v5>> /\ Prefetch!Moved' = Prefetch!Moved
    BY <1>6 DEF Prefetch!EngineCancels, Prefetch!Moved
  <2> QED BY <2>1 DEF Prefetch!SentOnce, Prefetch!LatestFillsTheSlot, Prefetch!JobsAreKnown
<1>7. ASSUME NEW j \in Prefetch!Contexts, Prefetch!EngineIsDone(j)
      PROVE  Prefetch!IInv'
  <2>1. /\ j \in v6 /\ v6' = v6 \ {j} /\ v8' = v8 \union {j}
        /\ UNCHANGED <<v1, v2, v3, v4, v5, v7>> /\ Prefetch!Moved' = Prefetch!Moved
    BY <1>7 DEF Prefetch!EngineIsDone, Prefetch!Moved
  <2> QED BY <2>1 DEF Prefetch!SentOnce, Prefetch!LatestFillsTheSlot, Prefetch!JobsAreKnown
<1>8. ASSUME NEW j \in Prefetch!Contexts, Prefetch!EndIsRead(j)
      PROVE  Prefetch!IInv'
  <2>1. /\ j \in v8 /\ v8' = v8 \ {j}
        /\ UNCHANGED <<v1, v2, v3, v4, v6, v7>> /\ Prefetch!Moved' = Prefetch!Moved
    BY <1>8 DEF Prefetch!EndIsRead, Prefetch!Moved
  <2>2. CASE UNCHANGED v5
    BY <2>1, <2>2 DEF Prefetch!SentOnce, Prefetch!LatestFillsTheSlot, Prefetch!JobsAreKnown
  <2>3. CASE v5' = [s \in PrefetchSlots |-> IF v5[s] = j THEN Prefetch!None ELSE v5[s]]
    <3>1. Prefetch!TypeOK' /\ Prefetch!SentOnce'
      BY <2>1, <2>3 DEF Prefetch!SentOnce
    <3>2. Prefetch!LatestFillsTheSlot'
      BY <1>a, <1>b, <2>1, <2>3 DEF Prefetch!LatestFillsTheSlot
    <3>3. Prefetch!JobsAreKnown'
      BY <1>a, <2>1, <2>3 DEF Prefetch!JobsAreKnown, Prefetch!SentOnce
    <3> QED BY <3>1, <3>2, <3>3
  <2> QED BY <1>8, <2>2, <2>3 DEF Prefetch!EndIsRead
<1> QED BY <1>1, <1>2, <1>3, <1>4, <1>5, <1>6, <1>7, <1>8 DEF Prefetch!Next

LEMMA PrefetchConsequences ==
  ASSUME Prefetch!IInv
  PROVE  Prefetch!TypeOK /\ Prefetch!NoStrayJob
BY DEF Prefetch!IInv, Prefetch!NoStrayJob, Prefetch!JobsAreKnown


-----------------------------------------------------------------------------
(* The power mode (PowerMode), and that its invariant holds at the start and is kept by
   each step. *)
Power == INSTANCE PowerMode WITH
  MaxChanges <- PowerMaxChanges, charging <- v1, level <- v2, profile <- v3, floor <- v4,
  reads <- v5, mode <- v6, probe <- v7, poll <- v8, held <- v9, changes <- v10

LEMMA PowerInitEstablishes ==
  ASSUME Power!PowerAssumption, Power!Init
  PROVE  Power!IInv
BY DEF Power!PowerAssumption, Power!Init, Power!IInv, Power!TypeOK, Power!ModeIsTheBatterys,
   Power!Modes

\* What the rules make of the mode, whatever was the mode before.
LEMMA PowerModeSet ==
  ASSUME Power!TypeOK, v8 \in {"off", v6},
         NEW m \in Power!Modes, NEW f \in {"none", "full", "reduced"},
           NEW plugged \in {"unknown", "yes", "no"},
         Power!SetMode(m, f, plugged)
  PROVE  /\ v6' \in Power!Modes /\ v8' \in {"off", v6'}
         /\ (f = "full" /\ m # "full") \/ (plugged = "yes" /\ m # "full") => v6' = v6
         /\ ~((f = "full" /\ m # "full") \/ (plugged = "yes" /\ m # "full")) =>
               v6' = IF f = "reduced" /\ m = "minimal" THEN "reduced" ELSE m
BY DEF Power!TypeOK, Power!Modes, Power!SetMode, Power!Restarted

LEMMA PowerStepPreserves ==
  ASSUME Power!PowerAssumption
  PROVE  Power!IInv /\ [Power!Next]_(Power!vars) => Power!IInv'
<1> SUFFICES ASSUME Power!IInv, [Power!Next]_(Power!vars) PROVE Power!IInv'
  OBVIOUS
<1> DEFINE Told(c, l, f, m, h) ==
      /\ l # "none" =>
           \/ m = IF c = "yes" THEN "full"
                  ELSE IF l = "high" \/ f = "reduced" THEN "reduced"
                  ELSE "minimal"
           \/ f = "full" /\ c = "no" /\ m \in {"full", h}
      /\ l # "none" => c # "unknown"
<1>0. /\ Power!TypeOK /\ Told(v1, v2, v4, v6, v9) /\ v8 \in {"off", v6}
      /\ (v4 = "full" => v6 \in {"full", v9}) /\ PowerMaxChanges \in Nat
  BY DEF Power!IInv, Power!ModeIsTheBatterys, Power!Asked, Power!PowerAssumption
\* The rules follow the battery, but for a profile that keeps a mode that is in force.
<1>1. ASSUME NEW f \in {"none", "full", "reduced"}, NEW c \in {"unknown", "yes", "no"},
             NEW l \in {"none", "low", "high"}, l # "none" => c # "unknown",
             NEW h \in Power!Modes, f = "full" => v6 \in {"full", h},
             Power!Recompute(f, c, l)
      PROVE  v6' \in Power!Modes /\ v8' \in {"off", v6'} /\ Told(c, l, f, v6', h)
  <2>1. CASE c = "yes"
    <3>1. Power!SetMode("full", f, c)
      BY <1>1, <2>1 DEF Power!Recompute
    <3>2. v6' = "full" /\ v8' \in {"off", v6'}
      BY <1>0, <2>1, <3>1, PowerModeSet DEF Power!Modes
    <3> QED BY <2>1, <3>2 DEF Power!Modes
  <2>2. CASE c = "no" /\ l # "none"
    <3>1. PICK m \in {"reduced", "minimal"} : m = IF l = "high" THEN "reduced" ELSE "minimal"
      OBVIOUS
    <3>2. Power!SetMode(m, f, c)
      BY <1>1, <2>2, <3>1 DEF Power!Recompute
    <3>3. /\ v6' \in Power!Modes /\ v8' \in {"off", v6'}
          /\ f = "full" => v6' = v6
          /\ f # "full" => v6' = IF f = "reduced" /\ m = "minimal" THEN "reduced" ELSE m
      BY <1>0, <2>2, <3>2, PowerModeSet DEF Power!Modes
    <3> QED BY <1>1, <2>2, <3>1, <3>3
  <2>3. CASE c # "yes" /\ l = "none"
    <3>1. v6' = v6 /\ v8' = v8
      BY <2>3, <1>1 DEF Power!Recompute
    <3> QED BY <1>0, <2>3, <3>1 DEF Power!TypeOK
  <2> QED BY <1>1, <2>1, <2>2, <2>3
<1>2. ASSUME Power!TypeOK', Told(v1', v2', v4', v6', v9'), v8' \in {"off", v6'},
             v4' = "full" => v6' \in {"full", v9'}
      PROVE  Power!IInv'
  BY <1>2 DEF Power!IInv, Power!ModeIsTheBatterys, Power!Asked
\* A full floor lets the mode become full only.
<1>k. ASSUME NEW c \in {"unknown", "yes", "no"}, NEW l \in {"none", "low", "high"},
             Power!Recompute("full", c, l)
      PROVE  v6' \in {v6, "full"}
  <2>1. ASSUME NEW m \in Power!Modes, Power!SetMode(m, "full", c) PROVE v6' \in {v6, "full"}
    BY <1>0, <2>1, PowerModeSet
  <2> QED BY <1>k, <2>1 DEF Power!Recompute, Power!Modes
<1>3. CASE Power!Battery
  <2>1. /\ v1' \in {"yes", "no"} /\ v2' \in {"low", "high"} /\ v4' = v4
        /\ Power!Recompute(v4, v1', v2')
        /\ v10' \in 0 .. PowerMaxChanges /\ UNCHANGED <<v3, v5, v7, v9>>
    BY <1>0, <1>3 DEF Power!Battery, Power!Change, Power!TypeOK
  <2>2. PICK c, l : c = v1' /\ l = v2'
    OBVIOUS
  <2>3. v6' \in Power!Modes /\ v8' \in {"off", v6'} /\ Told(c, l, v4, v6', v9)
    BY <1>0, <1>1, <2>1, <2>2 DEF Power!TypeOK
  <2>4. v4 = "full" => v6' \in {"full", v9}
    BY <1>0, <1>k, <2>1, <2>2
  <2>5. Power!TypeOK'
    BY <1>0, <2>1, <2>3 DEF Power!TypeOK
  <2> QED BY <1>2, <2>1, <2>2, <2>3, <2>4, <2>5
<1>4. CASE Power!NoBattery
  <2>1. Power!TypeOK'
    BY <1>0, <1>4 DEF Power!NoBattery, Power!TypeOK
  <2> QED BY <1>0, <1>2, <1>4, <2>1 DEF Power!NoBattery
<1>5. CASE Power!OtherProfile \/ Power!Look
  <2>1. v10' \in 0 .. PowerMaxChanges /\ v3' \in Power!Profiles
    BY <1>0, <1>5 DEF Power!OtherProfile, Power!Look, Power!Change, Power!TypeOK
  <2>2. v5' \subseteq [n : 0 .. PowerMaxChanges, profile : Power!Profiles]
    BY <1>0, <1>5, <2>1 DEF Power!OtherProfile, Power!Look, Power!TypeOK
  <2>3. UNCHANGED <<v1, v2, v4, v6, v7, v8, v9>>
    BY <1>5 DEF Power!OtherProfile, Power!Look
  <2>4. Power!TypeOK'
    BY <1>0, <2>1, <2>2, <2>3 DEF Power!TypeOK
  <2> QED BY <1>0, <1>2, <2>3, <2>4
<1>6. ASSUME NEW r \in v5, Power!ProfileRead(r)
      PROVE  Power!IInv'
  <2>1. PICK f, h : f = v4' /\ h = v9'
    OBVIOUS
  <2>2. /\ f \in {"none", "full", "reduced"} /\ Power!Recompute(f, v1, v2)
        /\ h = (IF f = "full" /\ v4 # "full" THEN v6 ELSE v9)
        /\ v5' \subseteq v5 /\ UNCHANGED <<v1, v2, v3, v7, v10>>
    BY <1>6, <2>1 DEF Power!ProfileRead, Power!FloorOf, Power!Recomputed
  <2>3. h \in Power!Modes /\ (f = "full" => v6 \in {"full", h})
    BY <1>0, <2>2 DEF Power!TypeOK
  <2>4. v6' \in Power!Modes /\ v8' \in {"off", v6'} /\ Told(v1, v2, f, v6', h)
    BY <1>0, <1>1, <2>2, <2>3 DEF Power!TypeOK
  <2>5. f = "full" => v6' \in {"full", h}
    <3> SUFFICES ASSUME f = "full" PROVE v6' \in {"full", h}
      OBVIOUS
    <3>1. v6' \in {v6, "full"}
      BY <1>0, <1>k, <2>2 DEF Power!TypeOK
    <3> QED BY <2>3, <3>1
  <2>6. Power!TypeOK'
    BY <1>0, <2>1, <2>2, <2>3, <2>4 DEF Power!TypeOK
  <2> QED BY <1>2, <2>1, <2>2, <2>4, <2>5, <2>6
<1>7. CASE Power!ProbeStarts
  <2>1. Power!TypeOK'
    BY <1>0, <1>7 DEF Power!ProbeStarts, Power!TypeOK
  <2> QED BY <1>0, <1>2, <1>7, <2>1 DEF Power!ProbeStarts
<1>8. CASE Power!ProbeEnds
  <2>1. /\ v7' = "done" /\ UNCHANGED <<v1, v2, v3, v4, v5, v9, v10>>
        /\ (v6 = "full" /\ Power!SetMode("reduced", v4, v1)) \/ UNCHANGED <<v6, v8>>
    BY <1>8 DEF Power!ProbeEnds
  <2>2. CASE v6 = "full" /\ Power!SetMode("reduced", v4, v1)
    <3>1. /\ v6' \in Power!Modes /\ v8' \in {"off", v6'}
          /\ v1 = "yes" \/ v4 = "full" => v6' = v6
      BY <1>0, <2>2, PowerModeSet DEF Power!TypeOK, Power!Modes
    <3>2. v2 # "none" /\ v4 # "full" => v1 = "yes"
      BY <1>0, <2>2 DEF Power!TypeOK
    <3>3. Power!TypeOK'
      BY <1>0, <2>1, <3>1 DEF Power!TypeOK
    <3> QED BY <1>0, <1>2, <2>1, <3>1, <3>2, <3>3
  <2>3. CASE UNCHANGED <<v6, v8>>
    <3>1. Power!TypeOK'
      BY <1>0, <2>1, <2>3 DEF Power!TypeOK
    <3> QED BY <1>0, <1>2, <2>1, <2>3, <3>1
  <2> QED BY <2>1, <2>2, <2>3
<1>9. CASE Power!PollStarts \/ Power!PollStops
  <2>1. Power!TypeOK'
    BY <1>0, <1>9 DEF Power!PollStarts, Power!PollStops, Power!TypeOK
  <2> QED BY <1>0, <1>2, <1>9, <2>1 DEF Power!PollStarts, Power!PollStops
<1>10. CASE UNCHANGED Power!vars
  BY <1>0, <1>10 DEF Power!vars, Power!IInv, Power!TypeOK, Power!ModeIsTheBatterys, Power!Asked
<1> QED BY <1>3, <1>4, <1>5, <1>6, <1>7, <1>8, <1>9, <1>10 DEF Power!Next


-----------------------------------------------------------------------------
(* The engine's process (EngineProcess), and that its invariant holds at the start and is kept by
   each step. *)
Process == INSTANCE EngineProcess WITH
  Files <- ProcessFiles, Main <- ProcessMain, MaxEngines <- ProcessMaxEngines,
  MaxFaults <- ProcessMaxFaults, phase <- v1, up <- v2, ending <- v3, mine <- v4, child <- v5,
  starting <- v6, timer <- v7, stop <- v8, failed <- v9, libs <- v10, fetch <- v11,
  lossless <- v12, onPause <- v13, playing <- v14, adopted <- v15, spawned <- v16, faults <- v17

LEMMA ProcessInitEstablishes ==
  ASSUME Process!EngineAssumption, Process!Init
  PROVE  Process!IInv
BY DEF Process!Init, Process!EngineAssumption, Process!IInv, Process!TypeOK,
   Process!MineIsTheChild, Process!ChildLives, Process!StartsAlone, Process!OrphansGoFirst,
       Process!StopsTheChild, Process!QuitLeavesNoEngine, Process!Alive, Process!Gone,
       Process!NotFetching, Process!None

\* The engines that live are all of one number.
LEMMA ProcessOneIsEnough ==
  ASSUME Process!OrphansGoFirst
  PROVE  Process!OneEngine
BY DEF Process!OrphansGoFirst, Process!OneEngine

LEMMA ProcessStepPreserves ==
  ASSUME Process!EngineAssumption
  PROVE  Process!IInv /\ [Process!Next]_(Process!vars) => Process!IInv'
<1> SUFFICES ASSUME Process!IInv, [Process!Next]_(Process!vars)
             PROVE  Process!IInv'
  OBVIOUS
<1> USE DEF Process!EngineAssumption, Process!IInv, Process!TypeOK, Process!MineIsTheChild,
            Process!ChildLives, Process!StartsAlone, Process!OrphansGoFirst,
            Process!StopsTheChild, Process!QuitLeavesNoEngine, Process!Alive, Process!Gone,
            Process!Quitting, Process!None
\* A reload tells the child to end, when no start and no stop is under way.
<1>a. ASSUME UNCHANGED <<v1, v4, v12, v16, v5, v6, v7, v8, v9,
                         v10, v15>>,
             v11' \in {v11, Process!NotFetching}, UNCHANGED <<v2, v3>> \/ Process!Reload
      PROVE  Process!IInv'
  <2>1. CASE UNCHANGED <<v2, v3>>
    BY <1>a, <2>1
  <2>2. CASE /\ ~Process!Quitting /\ v5 # Process!None
             /\ v2' = v2 \ {v5} /\ v3' = v3 \union {v5}
    <3>1. v5 \in Process!Alive /\ v6 = "no" /\ v8 = "no" /\ ~Process!Gone
      BY <2>2
    <3> QED BY <1>a, <2>2, <3>1
  <2> QED BY <1>a, <2>1, <2>2 DEF Process!Reload
<1>1. CASE UNCHANGED Process!vars
  BY <1>1 DEF Process!vars, Process!engines, Process!life, Process!download
<1>2. CASE Process!Launch
  BY <1>2 DEF Process!Launch, Process!Cleanup
<1>3. CASE Process!RecoverOrphan
  BY <1>3 DEF Process!RecoverOrphan, Process!Recover, Process!Starts, Process!Owned,
     Process!download
<1>4. CASE Process!OrphanEnds
  BY <1>4 DEF Process!OrphanEnds, Process!Starts, Process!Owned, Process!download
<1>5. CASE Process!Spawn
  BY <1>5 DEF Process!Spawn, Process!Starts, Process!download, Process!engines
<1>6. CASE Process!StartFails
  BY <1>6 DEF Process!StartFails, Process!Starts, Process!download, Process!engines
<1>7. CASE Process!Restart
  BY <1>7 DEF Process!Restart, Process!download, Process!engines
<1>8. CASE \E i \in 1..ProcessMaxEngines : Process!EngineEnds(i) \/ Process!EngineCrashes(i)
  <2>1. PICK i \in 1..ProcessMaxEngines : i \in Process!Alive /\ Process!Ends(i)
    BY <1>8 DEF Process!EngineEnds, Process!EngineCrashes
  <2>2. /\ v2' = v2 \ {i} /\ v3' = v3 \ {i}
        /\ v5' = IF v5 = i THEN Process!None ELSE v5
        /\ i \notin v2' /\ i \notin v3'
        /\ UNCHANGED <<v1, v4, v12, v16, v6, v8, v9, v10, v11,
                       v13, v14, v15>>
        /\ v7' = (v7 \/ Process!Restarts(i))
    BY <2>1 DEF Process!Ends, Process!download
  <2>3. Process!Gone => ~Process!Restarts(i)
    BY DEF Process!Restarts
  <2>4. Process!Gone => ~v7'
    BY <2>2, <2>3
  <2>5. i # Process!None
    OBVIOUS
  <2>6. Process!TypeOK' /\ Process!MineIsTheChild' /\ Process!ChildLives' /\ Process!StartsAlone'
    BY <2>2, <2>4
  <2>7. Process!OrphansGoFirst' /\ Process!StopsTheChild' /\ Process!QuitLeavesNoEngine'
    BY <2>2, <2>5
  <2> QED BY <2>2, <2>6, <2>7
<1>9. CASE Process!DownloadEnds
  <2>1. /\ UNCHANGED <<v1, v4, v12, v16, v5, v6, v7, v8, v9,
                       v10, v14, v15, v17>>
        /\ v11' = Process!NotFetching
    BY <1>9 DEF Process!DownloadEnds, Process!life
  <2>2. UNCHANGED <<v2, v3>> \/ Process!Reload
    BY <1>9 DEF Process!DownloadEnds, Process!ReloadSoon
  <2> QED BY <1>a, <2>1, <2>2
<1>10. CASE \E f \in ProcessFiles : Process!Fetched(f)
  BY <1>10 DEF Process!Fetched, Process!engines, Process!life
<1>11. CASE \E now \in BOOLEAN : Process!PlayerIs(now)
  <2>1. /\ UNCHANGED <<v1, v4, v12, v16, v5, v6, v7, v8, v9,
                       v10, v11, v15, v17>>
    BY <1>11 DEF Process!PlayerIs, Process!life
  <2>2. UNCHANGED <<v2, v3>> \/ Process!Reload
    BY <1>11 DEF Process!PlayerIs
  <2> QED BY <1>a, <2>1, <2>2
<1>12. CASE Process!BeforeQuit
  BY <1>12 DEF Process!BeforeQuit, Process!engines, Process!life, Process!download
<1>13. CASE Process!Stop
  BY <1>13 DEF Process!Stop, Process!engines, Process!download
<1>14. CASE Process!StopTerm
  BY <1>14 DEF Process!StopTerm, Process!download
<1>15. CASE Process!StopKill
  BY <1>15 DEF Process!StopKill, Process!ForceEnd, Process!download
<1>16. CASE Process!Exit
  BY <1>16 DEF Process!Exit, Process!Leaves
<1>17. CASE Process!AppCrashes
  BY <1>17 DEF Process!AppCrashes, Process!Leaves
<1> QED BY <1>1, <1>2, <1>3, <1>4, <1>5, <1>6, <1>7, <1>8, <1>9, <1>10, <1>11, <1>12, <1>13,
           <1>14, <1>15, <1>16, <1>17, Zenon DEF Process!Next, Process!Starting, Process!Stopping,
           Process!Ending, Process!Downloading


-----------------------------------------------------------------------------
(* The desktop's controls (MediaControls), and that its invariant holds at the start and is kept by
   each step. *)
Controls == INSTANCE MediaControls WITH
  MaxUpdates <- ControlsMaxUpdates, MaxFaults <- ControlsMaxFaults, last <- v1, kept <- v2,
  playing <- v3, player <- v4, shows <- v5, replays <- v6, retry <- v7, uncaught <- v8,
  bus <- v9, updates <- v10, faults <- v11

LEMMA ControlsInitEstablishes ==
  ASSUME Controls!ControlsAssumption, Controls!Init
  PROVE  Controls!TypeOK
<1>1. Controls!Blank \in [Controls!Fields -> 0..ControlsMaxUpdates] /\
        0 \in 0..ControlsMaxUpdates /\ 0 \in 0..2
  BY DEF Controls!Blank, Controls!ControlsAssumption
<1> QED BY <1>1, Zenon DEF Controls!Init, Controls!TypeOK

\* A write leaves what the page said in the player, or nothing.
LEMMA ControlsWriteTypes ==
  ASSUME Controls!TypeOK, NEW fs, NEW from \in [Controls!Fields -> 0..ControlsMaxUpdates], NEW r,
         Controls!Write(fs, from, r)
  PROVE  /\ v5' \in [Controls!Fields -> 0..ControlsMaxUpdates] /\ v6' = r
         /\ v4' \in {"none", "handshake", "up"} /\ v8' \in BOOLEAN
<1>1. v5' \in [Controls!Fields -> 0..ControlsMaxUpdates]
  BY DEF Controls!TypeOK, Controls!Write
<1> QED BY <1>1, Zenon DEF Controls!TypeOK, Controls!Write

LEMMA ControlsCreatedTypes ==
  ASSUME Controls!ControlsAssumption, NEW r, Controls!Created(r)
  PROVE  /\ v5' \in [Controls!Fields -> 0..ControlsMaxUpdates] /\ v6' = r /\ v4' = "handshake"
BY DEF Controls!Created, Controls!Blank, Controls!ControlsAssumption

LEMMA ControlsUpdateTypes ==
  ASSUME Controls!ControlsAssumption, Controls!TypeOK, v6 < 2,
         NEW fs, NEW said \in [Controls!Fields -> 0..ControlsMaxUpdates], Controls!Update(fs, said)
  PROVE  /\ v1' \in [Controls!Fields -> 0..ControlsMaxUpdates]
         /\ v2' \in [Controls!Fields -> 0..ControlsMaxUpdates]
         /\ v5' \in [Controls!Fields -> 0..ControlsMaxUpdates] /\ v6' \in 0..2
         /\ v4' \in {"none", "handshake", "up"}
         /\ v7' \in BOOLEAN /\ v8' \in BOOLEAN /\ v9' \in BOOLEAN
<1>1. v1' \in [Controls!Fields -> 0..ControlsMaxUpdates] /\
        v2' \in [Controls!Fields -> 0..ControlsMaxUpdates]
  BY DEF Controls!TypeOK, Controls!Update
<1>2. v7' \in BOOLEAN /\ v9' \in BOOLEAN
  BY Zenon DEF Controls!TypeOK, Controls!Update
<1>3. v6 + 1 \in 0..2 /\ v6 \in 0..2
  BY DEF Controls!TypeOK
<1>4. CASE Controls!Write(fs, said, v6)
  BY <1>1, <1>2, <1>3, <1>4, ControlsWriteTypes, Zenon
<1>5. CASE /\ IF Controls!CanCreate THEN Controls!Created(v6 + 1) ELSE UNCHANGED <<v4, v5, v6>>
           /\ UNCHANGED <<v8, v11>>
  <2>1. v8' \in BOOLEAN
    BY <1>5, Zenon DEF Controls!TypeOK
  <2>2. /\ v5' \in [Controls!Fields -> 0..ControlsMaxUpdates] /\ v6' \in {v6, v6 + 1}
        /\ v4' \in {"none", "handshake", "up"}
    BY <1>5, ControlsCreatedTypes DEF Controls!TypeOK
  <2> QED BY <1>1, <1>2, <1>3, <2>1, <2>2
<1> QED BY <1>4, <1>5, Zenon DEF Controls!Update

LEMMA ControlsStepPreserves ==
  ASSUME Controls!ControlsAssumption
  PROVE  Controls!TypeOK /\ [Controls!Next]_(Controls!vars) => Controls!TypeOK'
<1> SUFFICES ASSUME Controls!TypeOK, [Controls!Next]_(Controls!vars)
             PROVE  Controls!TypeOK'
  OBVIOUS
<1>0. /\ v1 \in [Controls!Fields -> 0..ControlsMaxUpdates]
      /\ v2 \in [Controls!Fields -> 0..ControlsMaxUpdates]
      /\ v10 \in 0..ControlsMaxUpdates /\ v6 \in 0..2
  BY DEF Controls!TypeOK
<1>1. CASE UNCHANGED Controls!vars
  BY <1>1, Zenon DEF Controls!vars, Controls!TypeOK
<1>2. CASE Controls!PageChanges
  <2>1. PICK f \in Controls!Fields : /\ Controls!Update({f}, Controls!Changed({f}))
                                     /\ v3' \in (IF f = "status" THEN BOOLEAN ELSE {v3})
    BY <1>2 DEF Controls!PageChanges
  <2>2. v10' = v10 + 1 /\ v10' \in 0..ControlsMaxUpdates /\ v6 < 2
    BY <1>0, <1>2 DEF Controls!PageChanges, Controls!ControlsAssumption
  <2>3. PICK said : said = Controls!Changed({f})
    OBVIOUS
  <2>4. said \in [Controls!Fields -> 0..ControlsMaxUpdates]
    BY <1>0, <2>2, <2>3 DEF Controls!Changed
  <2>5. v3' \in BOOLEAN
    BY <2>1, Zenon DEF Controls!TypeOK
  <2>6. Controls!Update({f}, said)
    BY <2>1, <2>3
  <2> QED BY <2>2, <2>4, <2>5, <2>6, ControlsUpdateTypes, Zenon DEF Controls!TypeOK
<1>3. CASE Controls!Tick
  BY <1>0, <1>3, ControlsUpdateTypes, Zenon DEF Controls!Tick, Controls!TypeOK
<1>4. CASE Controls!Handshake
  BY <1>4, Zenon DEF Controls!Handshake, Controls!env, Controls!TypeOK
<1>5. CASE Controls!RetryFires
  <2>1. /\ v5' \in [Controls!Fields -> 0..ControlsMaxUpdates] /\ v6' \in {v6, v6 + 1}
        /\ v4' \in {"none", "handshake", "up"} /\ v6 < 2
    BY <1>5, ControlsCreatedTypes DEF Controls!RetryFires, Controls!CreatedAgain, Controls!TypeOK
  <2>2. v6' \in 0..2
    BY <1>0, <2>1
  <2> QED BY <1>5, <2>1, <2>2, Zenon DEF Controls!RetryFires, Controls!env, Controls!TypeOK
<1>6. CASE Controls!Replay
  <2>1. /\ v5' \in [Controls!Fields -> 0..ControlsMaxUpdates] /\ v6' = v6 - 1
        /\ v4' \in {"none", "handshake", "up"} /\ v8' \in BOOLEAN
    BY <1>0, <1>6, ControlsWriteTypes, Zenon DEF Controls!Replay, Controls!TypeOK
  <2>2. v6' \in 0..2
    BY <1>0, <1>6, <2>1 DEF Controls!Replay
  <2> QED BY <1>6, <2>1, <2>2, Zenon DEF Controls!Replay, Controls!env, Controls!TypeOK
<1>7. CASE Controls!BusError \/ Controls!LateError \/ Controls!StreamClosed \/ Controls!BusGoes
  <2>1. v5' \in [Controls!Fields -> 0..ControlsMaxUpdates] /\ v4' \in {"none", "handshake", "up"}
    BY <1>7 DEF Controls!BusError, Controls!LateError, Controls!StreamClosed, Controls!BusGoes,
       Controls!Destroyed, Controls!Blank, Controls!TypeOK,
                Controls!ControlsAssumption
  <2> QED BY <1>7, <2>1, Zenon DEF Controls!BusError, Controls!LateError, Controls!StreamClosed,
             Controls!BusGoes, Controls!env, Controls!TypeOK
<1> QED BY <1>1, <1>2, <1>3, <1>4, <1>5, <1>6, <1>7, Zenon DEF Controls!Next, Controls!Progress,
           Controls!StreamBreaks


-----------------------------------------------------------------------------
(* The window (AppWindow), and that its invariant holds at the start and is kept by
   each step. *)
Window == INSTANCE AppWindow WITH
  MaxLoads <- WindowMaxLoads, MaxFaults <- WindowMaxFaults, MaxMinis <- WindowMaxMinis,
  net <- v1, doc <- v2, loading <- v3, finished <- v4, runs <- v5, offlineShown <- v6,
  bundleInjected <- v7, retried <- v8, clearing <- v9, fallback <- v10, uiReady <- v11,
  shown <- v12, hidden <- v13, visible <- v14, mini <- v15, miniWin <- v16, died <- v17,
  loads <- v18, faults <- v19

LEMMA WindowInitEstablishes ==
  ASSUME Window!Init
  PROVE  Window!IInv
<1>1. v15 \in [Window!Minis -> Window!States]
  BY DEF Window!Init, Window!States
<1>2. v5 = 0 /\ v18 = 1 /\ v2 = "blank" /\ v3 = "apple" /\ v7 = FALSE
      /\ v16 = Window!None
  BY Zenon DEF Window!Init
<1>3. Window!TypeOK /\ Window!BundlesOncePerPage /\ v18 \in Nat
  BY <1>1, <1>2 DEF Window!TypeOK, Window!BundlesOncePerPage
<1>4. Window!RunsAreNoted
  BY <1>2 DEF Window!RunsAreNoted
<1> QED BY <1>2, <1>3, <1>4, Zenon DEF Window!IInv

\* Every step of the page leaves the mini players alone, and every other step the page.
LEMMA WindowPageSteps ==
  ASSUME Window!IInv, Window!Loading \/ Window!FrameLoaded \/ Window!Reload \/ Window!Network
  PROVE  Window!IInv'
<1>a. /\ v5 \in 0..2 /\ v18 \in Nat /\ v7 \in BOOLEAN
      /\ v5 > 0 => v7
      /\ v5 <= 1 /\ (v2 = "offline" => v5 = 0)
      /\ v2 \in {"blank", "apple", "error", "offline"}
      /\ v3 \in {"none", "apple", "offline"}
      /\ v15 \in [Window!Minis -> Window!States] /\ v16 \in {Window!None} \union Window!Minis
  BY DEF Window!IInv, Window!TypeOK, Window!RunsAreNoted, Window!BundlesOncePerPage
<1> DEFINE Rest == /\ v5' \in 0..2 /\ v18' \in Nat
                   /\ v5' > 0 => v7'
                   /\ v5' <= 1 /\ (v2' = "offline" => v5' = 0)
                   /\ v2' \in {"blank", "apple", "error", "offline"}
                   /\ v3' \in {"none", "apple", "offline"}
<1>1. UNCHANGED <<v15, v16>>
  BY DEF Window!Loading, Window!Commit, Window!LoadFails, Window!Retry, Window!Reconnect,
     Window!FrameLoaded, Window!Reload, Window!Network, Window!minis
<1>2. v15' \in [Window!Minis -> Window!States] /\ v16' \in {Window!None} \union Window!Minis'
  BY <1>1, <1>a DEF Window!Minis, Window!States
<1>3. ASSUME Window!Commit PROVE Rest
  BY <1>a, <1>3 DEF Window!Commit, Window!Injected
<1>4. ASSUME Window!LoadFails PROVE Rest
  BY <1>a, <1>4 DEF Window!LoadFails
<1>5. ASSUME Window!Retry \/ Window!Reconnect \/ Window!Reload PROVE Rest
  <2>1. v3' = "apple" /\ v18' = v18 + 1 /\ UNCHANGED <<v2, v5, v7>>
    BY <1>5, Zenon DEF Window!Retry, Window!Reconnect, Window!Reload, Window!Navigate
  <2> QED BY <1>a, <2>1
<1>6. ASSUME Window!FrameLoaded PROVE Rest
  BY <1>a, <1>6 DEF Window!FrameLoaded, Window!MayInject
<1>7. ASSUME Window!Network PROVE Rest
  BY <1>a, <1>7 DEF Window!Network
<1>7a. v7' \in BOOLEAN
  BY <1>a, Zenon DEF Window!Loading, Window!Commit, Window!LoadFails, Window!Retry,
     Window!Reconnect, Window!FrameLoaded, Window!Reload, Window!Network,
                    Window!Injected
<1>8. Rest
  BY <1>3, <1>4, <1>5, <1>6, <1>7, Zenon DEF Window!Loading
<1> QED BY <1>2, <1>7a, <1>8, Zenon DEF Window!IInv, Window!TypeOK, Window!RunsAreNoted,
           Window!BundlesOncePerPage

LEMMA WindowWindowSteps ==
  ASSUME Window!IInv,
         \/ Window!Fallback \/ Window!UiReady \/ Window!Closing \/ Window!Toggle \/
              Window!ToggleMini \/ Window!Expand
         \/ \E w \in Window!Minis : Window!MiniReady(w) \/ Window!MiniCloses(w)
  PROVE  Window!IInv'
<1> USE DEF Window!IInv, Window!TypeOK, Window!None
<1>1. UNCHANGED Window!page
  BY DEF Window!Fallback, Window!UiReady, Window!Closing, Window!MiniClosed, Window!Toggle,
     Window!ToggleMini, Window!Expand, Window!MiniReady, Window!MiniCloses
<1>2. ASSUME Window!CloseMini, Window!Known
      PROVE  v15' \in [Window!Minis -> Window!States] /\ v16' \in {Window!None} \union Window!Minis
  BY <1>2 DEF Window!CloseMini, Window!Known, Window!States
<1>3. v15' \in [Window!Minis -> Window!States] /\ v16' \in {Window!None} \union Window!Minis
  <2>1. CASE Window!Fallback \/ Window!UiReady \/ Window!Toggle
    BY <2>1 DEF Window!Fallback, Window!UiReady, Window!Toggle, Window!minis
  <2>2. CASE Window!Closing
    BY <2>2 DEF Window!Closing, Window!MiniClosed, Window!States
  <2>3. CASE Window!ToggleMini
    BY <1>2, <2>3 DEF Window!ToggleMini, Window!States
  <2>4. CASE Window!Expand
    BY <1>2, <2>4 DEF Window!Expand
  <2>5. CASE \E w \in Window!Minis : Window!MiniReady(w) \/ Window!MiniCloses(w)
    BY <2>5 DEF Window!MiniReady, Window!MiniCloses, Window!States
  <2> QED BY <2>1, <2>2, <2>3, <2>4, <2>5
<1> QED BY <1>1, <1>3 DEF Window!page, Window!RunsAreNoted, Window!BundlesOncePerPage,
           Window!Minis, Window!States

LEMMA WindowStepPreserves ==
  Window!IInv /\ [Window!Next]_(Window!vars) => Window!IInv'
<1> SUFFICES ASSUME Window!IInv, [Window!Next]_(Window!vars)
             PROVE  Window!IInv'
  OBVIOUS
<1>1. CASE UNCHANGED Window!vars
  BY <1>1 DEF Window!vars, Window!page, Window!shows, Window!minis, Window!IInv, Window!TypeOK,
     Window!RunsAreNoted, Window!BundlesOncePerPage, Window!Minis, Window!States
<1>2. CASE Window!Next
  BY <1>2, WindowPageSteps, WindowWindowSteps, Zenon DEF Window!Next
<1> QED BY <1>1, <1>2

-----------------------------------------------------------------------------
(* The other parts. *)
Gate == INSTANCE PlayGate WITH
  MaxClicks <- 2, MaxMoves <- 1, MaxFaults <- 1, MaxWrongs <- 1, g <- v1, kind <- v2,
  under <- v3, clicks <- v4, moves <- v5, faults <- v6, wrongs <- v7


\* The variables from the n-th on, which a part with fewer leaves at 0.
after20 == <<v21>>
after19 == <<v20, after20>>
after17 == <<v18, v19, after19>>
after15 == <<v16, v17, after17>>
after14 == <<v15, after15>>
after13 == <<v14, after14>>
after12 == <<v13, after13>>
after11 == <<v12, after12>>
after10 == <<v11, after11>>
after9 == <<v10, after10>>
after8 == <<v9, after9>>
after7 == <<v8, after8>>

Unused20 == v21 = 0
Unused19 == v20 = 0 /\ Unused20
Unused17 == v18 = 0 /\ v19 = 0 /\ Unused19
Unused15 == v16 = 0 /\ v17 = 0 /\ Unused17
Unused14 == v15 = 0 /\ Unused15
Unused13 == v14 = 0 /\ Unused14
Unused12 == v13 = 0 /\ Unused13
Unused11 == v12 = 0 /\ Unused12
Unused10 == v11 = 0 /\ Unused11
Unused9 == v10 = 0 /\ Unused10
Unused8 == v9 = 0 /\ Unused9
Unused7 == v8 = 0 /\ Unused8
-----------------------------------------------------------------------------
Init ==
  /\ part \in Parts
  /\ \/ part = "store" /\ Store!Init /\ Unused15
     \/ part = "process" /\ Process!Init /\ Unused17
     \/ part = "window" /\ Window!Init /\ Unused19
     \/ part = "theme" /\ Theme!Init /\ Unused10
     \/ part = "controls" /\ Controls!Init /\ Unused11
     \/ part = "presence" /\ Presence!Init /\ Unused12
     \/ part = "links" /\ Links!Init /\ Unused14
     \/ part = "prefetch" /\ Prefetch!Init /\ Unused8
     \/ part = "fades" /\ Fades!Init /\ Unused15
     \/ part = "memory" /\ Memory!Init /\ Unused14
     \/ part = "scrobbles" /\ Scrobble!Init /\ Unused12
     \/ part = "levels" /\ Levels!Init
     \/ part = "commands" /\ Commands!Init
     \/ part = "gate" /\ Gate!Init /\ Unused7
     \/ part = "power" /\ Power!Init /\ Unused10

StoreNext == part = "store" /\ Store!Next /\ UNCHANGED part /\ UNCHANGED after15
ProcessNext == part = "process" /\ Process!Next /\ UNCHANGED part /\ UNCHANGED after17
WindowNext == part = "window" /\ Window!Next /\ UNCHANGED part /\ UNCHANGED after19
ThemeNext == part = "theme" /\ Theme!Next /\ UNCHANGED part /\ UNCHANGED after10
ControlsNext == part = "controls" /\ Controls!Next /\ UNCHANGED part /\ UNCHANGED after11
PresenceNext == part = "presence" /\ Presence!Next /\ UNCHANGED part /\ UNCHANGED after12
LinksNext == part = "links" /\ Links!Next /\ UNCHANGED part /\ UNCHANGED after14
PrefetchNext == part = "prefetch" /\ Prefetch!Next /\ UNCHANGED part /\ UNCHANGED after8
FadesNext == part = "fades" /\ Fades!Next /\ UNCHANGED part /\ UNCHANGED after15
MemoryNext == part = "memory" /\ Memory!Next /\ UNCHANGED part /\ UNCHANGED after14
ScrobbleNext == part = "scrobbles" /\ Scrobble!Next /\ UNCHANGED part /\ UNCHANGED after12
LevelsNext == part = "levels" /\ Levels!Next /\ UNCHANGED part
CommandsNext == part = "commands" /\ Commands!Next /\ UNCHANGED part
GateNext == part = "gate" /\ Gate!Next /\ UNCHANGED part /\ UNCHANGED after7
PowerNext == part = "power" /\ Power!Next /\ UNCHANGED part /\ UNCHANGED after10

Next == StoreNext \/ ProcessNext \/ WindowNext \/ ThemeNext \/ ControlsNext \/ PresenceNext \/
        LinksNext \/ PrefetchNext \/ FadesNext \/ MemoryNext \/ ScrobbleNext \/ LevelsNext \/
        CommandsNext \/ GateNext \/ PowerNext

(* What is owed to each part: the actions its module states weak fairness of, one per part
   in each of the following.  As a behaviour never changes its part, weak fairness of their
   disjunction is weak fairness of the one of its part. *)
Owed1 ==
  \/ part = "gate" /\ Gate!Answers /\ UNCHANGED part /\ UNCHANGED after7
  \/ part = "process" /\ Process!Starting /\ UNCHANGED part /\ UNCHANGED after17
  \/ part = "window" /\ Window!Loading /\ UNCHANGED part /\ UNCHANGED after19
  \/ part = "controls" /\ Controls!Handshake /\ UNCHANGED part /\ UNCHANGED after11
  \/ part = "presence" /\ Presence!Searches /\ UNCHANGED part /\ UNCHANGED after12
Owed2 ==
  \/ part = "gate" /\ Gate!TimerFires /\ UNCHANGED part /\ UNCHANGED after7
  \/ part = "process" /\ Process!Stopping /\ UNCHANGED part /\ UNCHANGED after17
  \/ part = "window" /\ Window!FrameLoaded /\ UNCHANGED part /\ UNCHANGED after19
  \/ part = "controls" /\ Controls!RetryFires /\ UNCHANGED part /\ UNCHANGED after11
  \/ part = "presence" /\ Presence!TimerFires /\ UNCHANGED part /\ UNCHANGED after12
Owed3 ==
  \/ part = "gate" /\ Gate!Valve /\ UNCHANGED part /\ UNCHANGED after7
  \/ part = "process" /\ Process!Downloading /\ UNCHANGED part /\ UNCHANGED after17
  \/ part = "window" /\ Window!Fallback /\ UNCHANGED part /\ UNCHANGED after19
  \/ part = "controls" /\ Controls!Replay /\ UNCHANGED part /\ UNCHANGED after11
  \/ part = "presence" /\ Presence!Refresh /\ UNCHANGED part /\ UNCHANGED after12
Owed4 ==
  \/ part = "process" /\ Process!EngineEnds(1) /\ UNCHANGED part /\ UNCHANGED after17
  \/ part = "window" /\ Window!UiReady /\ UNCHANGED part /\ UNCHANGED after19
  \/ part = "controls" /\ Controls!StreamBreaks /\ UNCHANGED part /\ UNCHANGED after11
Owed5 ==
  \/ part = "process" /\ Process!EngineEnds(2) /\ UNCHANGED part /\ UNCHANGED after17
  \/ part = "window" /\ Window!Closing /\ UNCHANGED part /\ UNCHANGED after19
  \/ part = "controls" /\ Controls!Tick /\ UNCHANGED part /\ UNCHANGED after11
Owed6 ==
  \/ part = "process" /\ Process!EngineEnds(3) /\ UNCHANGED part /\ UNCHANGED after17

Fairness == WF_vars(Owed1) /\ WF_vars(Owed2) /\ WF_vars(Owed3) /\ WF_vars(Owed4) /\
            WF_vars(Owed5) /\ WF_vars(Owed6)

Spec == Init /\ [][Next]_vars /\ Fairness
-----------------------------------------------------------------------------
(* There is one engine, which does not outlive the app, and a page is given the bundles once
   (EngineProcess, AppWindow). *)
EngineAndPageAreOne ==
  /\ part = "process" => (Process!TypeOK /\ Process!OneEngine /\ Process!QuitLeavesNoEngine)
  /\ part = "window" => (Window!TypeOK /\ Window!BundlesOncePerPage)

(* Credentials stay deleted after a sign-out, the page wears the theme that was chosen, and a
   song is not shown to a socket that has not seen it (EncryptedStore, ThemeMode,
   MediaControls, DiscordPresence). *)
ChoicesAreKept ==
  /\ part = "store" => (Store!TypeOK /\ Store!SignedOutStaysOut)
  /\ part = "theme" => (Theme!TypeOK /\ Theme!ThemeIsShown)
  /\ part = "controls" => Controls!TypeOK
  /\ part = "presence" => (Presence!TypeOK /\ Presence!UnseenIsUnseen)

(* The schemes claimed are those the user chose, a link is opened once, and another program's
   claims are not touched (LinkHandling). *)
LinksAreOpenedOnce ==
  /\ [](part = "links" => (Links!TypeOK /\ Links!ClaimsAreChosen /\ Links!LinksOnce))
  /\ [][part = "links" => Links!OthersKept]_vars

(* After a fault the engine, lossless playback, Apple's page with Adam in it and the main
   window come back, and the desktop's controls and Discord come to show the song; Apple's
   playback methods come back after a click, and a move gives its lock back. *)
AppRecovers ==
  /\ (<>[](part = "process" /\ Process!AppIsUp) => []<>(part = "process" => Process!EngineIsBack))
  /\ (<>[](part = "process" /\ Process!MayReload) =>
       []<>(part = "process" => Process!LosslessIsThere))
  /\ (<>[](part = "window" /\ Window!Reachable) => <>[](part = "window" => Window!AdamRuns))
  /\ (<>[](part = "controls" /\ Controls!Plays) =>
       <>[](part = "controls" => Controls!ControlsAgree))
  /\ (<>[](part = "presence" /\ Presence!MayShow) => <>[](part = "presence" => Presence!SongShown))
  /\ ([](part = "gate" => Gate!AtMostOneClick) => []<>(part = "gate" => Gate!MethodsAreApples))
  /\ part = "gate" ~> (part = "gate" => Gate!NoMove)
  /\ part = "window" /\ Window!MiniClosing(1) ~> (part = "window" => Window!MainIsBack)
  /\ part = "window" /\ Window!MiniClosing(2) ~> (part = "window" => Window!MainIsBack)

(* A track's head is heard; its level and its fade are its own, until a reading of another track,
   or of a time when Sound Check was on, comes, and again from the next track or switch; libvlc
   is told of them; and the power mode is the battery's, or held by the system's profile
   (VolumeFades, AudioLevels, PowerMode). *)
SoundIsItsOwn ==
  /\ part = "fades" => (Fades!TypeOK /\ Fades!HeadIsHeard)
  /\ part = "levels" => (Levels!TypeOK /\ Levels!LevelIsOwn /\ Levels!FadeIsOwn)
  /\ part = "power" => (Power!TypeOK /\ Power!ModeIsTheBatterys)

(* What was switched off leaves nothing, scrobbles are earned, no prefetch job is left without
   its page, the heart shows the rating, the desktop shows what plays, and the keys are the
   dialog's (SessionMemory, Scrobbles, PrefetchJobs, UserCommands). *)
UserIsObeyed ==
  /\ part = "memory" => (Memory!TypeOK /\ Memory!OffLeavesNothing /\ Memory!HistoryIsStored)
  /\ part = "scrobbles" =>
       /\ Scrobble!TypeOK
       /\ Scrobble!ScrobblesAreEarned
       /\ Scrobble!PageKnowsTheAccount
  /\ part = "prefetch" => (Prefetch!TypeOK /\ Prefetch!NoStrayJob)
  /\ part = "commands" =>
       /\ Commands!TypeOK
       /\ Commands!LovedIsRated
       /\ Commands!ShownIsPlayed
       /\ Commands!KeysAreTheDialogs

ASSUME AppAssumption ==
  /\ Commands!CommandsAssumption
  /\ Levels!LevelsAssumption
  /\ Store!StoreAssumption
  /\ Presence!PresenceAssumption
  /\ Memory!MemoryAssumption
  /\ Links!LinkAssumption
  /\ Scrobble!ScrobblesAssumption
  /\ Fades!FadesAssumption
  /\ Prefetch!PrefetchAssumption
  /\ Power!PowerAssumption
  /\ Process!EngineAssumption
  /\ Controls!ControlsAssumption
-----------------------------------------------------------------------------
(* Proofs: the inductive invariant of each part holds throughout the behaviours of the part. *)

AppInv ==
  /\ part = "commands" => Commands!IInv
  /\ part = "theme" => Theme!IInv
  /\ part = "levels" => Levels!IInv
  /\ part = "store" => Store!IInv
  /\ part = "presence" => Presence!IInv
  /\ part = "memory" => Memory!IInv
  /\ part = "links" => Links!IInv
  /\ part = "scrobbles" => Scrobble!IInv
  /\ part = "fades" => Fades!IInv
  /\ part = "prefetch" => Prefetch!IInv
  /\ part = "power" => Power!IInv
  /\ part = "process" => Process!IInv
  /\ part = "controls" => Controls!TypeOK
  /\ part = "window" => Window!IInv

LEMMA AppInvStarts == Init => AppInv
<1>1. Init /\ part = "commands" => Commands!IInv
  BY AppAssumption, CommandsInitEstablishes DEF Init, AppAssumption
<1>2. Init /\ part = "theme" => Theme!IInv
  BY ThemeInitEstablishes DEF Init
<1>3. Init /\ part = "levels" => Levels!IInv
  BY AppAssumption, LevelsInitEstablishes DEF Init, AppAssumption
<1>4. Init /\ part = "store" => Store!IInv
  BY AppAssumption, StoreInitEstablishes DEF Init, AppAssumption
<1>5. Init /\ part = "presence" => Presence!IInv
  BY AppAssumption, PresenceInitEstablishes DEF Init, AppAssumption
<1>6. Init /\ part = "memory" => Memory!IInv
  BY AppAssumption, MemoryInitEstablishes DEF Init, AppAssumption
<1>7. Init /\ part = "links" => Links!IInv
  BY AppAssumption, LinksInitEstablishes DEF Init, AppAssumption
<1>8. Init /\ part = "scrobbles" => Scrobble!IInv
  BY AppAssumption, ScrobbleInitEstablishes DEF Init, AppAssumption
<1>9. Init /\ part = "fades" => Fades!IInv
  BY AppAssumption, FadesInitEstablishes DEF Init, AppAssumption
<1>10. Init /\ part = "prefetch" => Prefetch!IInv
  BY AppAssumption, PrefetchInitEstablishes DEF Init, AppAssumption
<1>11. Init /\ part = "power" => Power!IInv
  BY AppAssumption, PowerInitEstablishes DEF Init, AppAssumption
<1>12. Init /\ part = "process" => Process!IInv
  BY AppAssumption, ProcessInitEstablishes DEF Init, AppAssumption
<1>13. Init /\ part = "controls" => Controls!TypeOK
  BY AppAssumption, ControlsInitEstablishes DEF Init, AppAssumption
<1>14. Init /\ part = "window" => Window!IInv
  BY WindowInitEstablishes DEF Init
<1> QED BY <1>1, <1>2, <1>3, <1>4, <1>5, <1>6, <1>7, <1>8, <1>9, <1>10, <1>11, <1>12, <1>13,
           <1>14 DEF AppInv

\* A step that changes nothing keeps it.
LEMMA AppInvStutters == AppInv /\ UNCHANGED vars => AppInv'
<1> SUFFICES ASSUME AppInv, UNCHANGED vars PROVE AppInv'
  OBVIOUS
<1>1. part = "commands" => Commands!IInv'
  <2>1. UNCHANGED Commands!vars
    BY DEF vars, Commands!player, Commands!love, Commands!shown, Commands!keys, Commands!vars
  <2> QED BY AppAssumption, <2>1, CommandsStepPreserves DEF AppInv, AppAssumption
<1>2. part = "theme" => Theme!IInv'
  <2>1. UNCHANGED Theme!allVars
    BY DEF vars, Theme!prefs, Theme!page, Theme!allVars
  <2> QED BY <2>1, ThemeStepPreserves DEF AppInv
<1>3. part = "levels" => Levels!IInv'
  <2>1. UNCHANGED Levels!vars
    BY DEF vars, Levels!soundVars, Levels!planVars, Levels!vars
  <2> QED BY AppAssumption, <2>1, LevelsStepPreserves DEF AppInv, AppAssumption
<1>4. part = "store" => Store!IInv'
  <2>1. UNCHANGED Store!vars
    BY DEF vars, Store!writes, Store!vars
  <2> QED BY AppAssumption, <2>1, StoreStepPreserves DEF AppInv, AppAssumption
<1>5. part = "presence" => Presence!IInv'
  <2>1. UNCHANGED Presence!vars
    BY DEF vars, Presence!page, Presence!main, Presence!vars
  <2> QED BY AppAssumption, <2>1, PresenceStepPreserves DEF AppInv, AppAssumption
<1>6. part = "memory" => Memory!IInv'
  <2>1. UNCHANGED Memory!vars
    BY DEF vars, Memory!vars, Memory!Unsaved
  <2> QED BY AppAssumption, <2>1, MemoryStepPreserves DEF AppInv, AppAssumption
<1>7. part = "links" => Links!IInv'
  <2>1. UNCHANGED Links!vars
    BY DEF vars, Links!schemeVars, Links!linkVars, Links!vars
  <2> QED BY AppAssumption, <2>1, LinksStepPreserves DEF AppInv, AppAssumption
<1>8. part = "scrobbles" => Scrobble!IInv'
  <2>1. UNCHANGED Scrobble!vars
    BY DEF vars, Scrobble!vars
  <2> QED BY AppAssumption, <2>1, ScrobbleStepPreserves DEF AppInv, AppAssumption
<1>9. part = "fades" => Fades!IInv'
  <2>1. UNCHANGED Fades!vars
    BY DEF vars, Fades!vars
  <2> QED BY AppAssumption, <2>1, FadesStepPreserves DEF AppInv, AppAssumption
<1>10. part = "prefetch" => Prefetch!IInv'
  <2>1. UNCHANGED Prefetch!vars
    BY DEF vars, Prefetch!vars
  <2> QED BY AppAssumption, <2>1, PrefetchStepPreserves DEF AppInv, AppAssumption
<1>11. part = "power" => Power!IInv'
  <2>1. UNCHANGED Power!vars
    BY DEF vars, Power!vars
  <2> QED BY AppAssumption, <2>1, PowerStepPreserves DEF AppInv, AppAssumption
<1>12. part = "process" => Process!IInv'
  <2>1. UNCHANGED Process!vars
    BY DEF vars, Process!life, Process!engines, Process!download, Process!vars
  <2> QED BY AppAssumption, <2>1, ProcessStepPreserves DEF AppInv, AppAssumption
<1>13. part = "controls" => Controls!TypeOK'
  <2>1. UNCHANGED Controls!vars
    BY DEF vars, Controls!vars, Controls!env
  <2> QED BY AppAssumption, <2>1, ControlsStepPreserves DEF AppInv, AppAssumption
<1>14. part = "window" => Window!IInv'
  <2>1. UNCHANGED Window!vars
    BY DEF vars, Window!page, Window!shows, Window!minis, Window!vars
  <2> QED BY <2>1, WindowStepPreserves DEF AppInv
<1>15. part' = part
  BY DEF vars
<1> QED BY <1>1, <1>2, <1>3, <1>4, <1>5, <1>6, <1>7, <1>8, <1>9, <1>10, <1>11, <1>12, <1>13,
           <1>14, <1>15 DEF AppInv

\* A step of a part keeps the part's invariant, and says nothing of the others.
LEMMA AppInvStays == Spec => []AppInv
<1>1. AppInv /\ [Next]_vars => AppInv'
  <2> SUFFICES ASSUME AppInv, [Next]_vars PROVE AppInv'
    OBVIOUS
  <2>1. CASE CommandsNext
    BY AppAssumption, <2>1, CommandsStepPreserves DEF AppInv, CommandsNext, AppAssumption
  <2>2. CASE ThemeNext
    BY <2>2, ThemeStepPreserves DEF AppInv, ThemeNext
  <2>3. CASE LevelsNext
    BY AppAssumption, <2>3, LevelsStepPreserves DEF AppInv, LevelsNext, AppAssumption
  <2>4. CASE StoreNext
    BY AppAssumption, <2>4, StoreStepPreserves DEF AppInv, StoreNext, AppAssumption
  <2>5. CASE PresenceNext
    BY AppAssumption, <2>5, PresenceStepPreserves DEF AppInv, PresenceNext, AppAssumption
  <2>6. CASE MemoryNext
    BY AppAssumption, <2>6, MemoryStepPreserves DEF AppInv, MemoryNext, AppAssumption
  <2>7. CASE LinksNext
    BY AppAssumption, <2>7, LinksStepPreserves DEF AppInv, LinksNext, AppAssumption
  <2>8. CASE ScrobbleNext
    BY AppAssumption, <2>8, ScrobbleStepPreserves DEF AppInv, ScrobbleNext, AppAssumption
  <2>9. CASE FadesNext
    BY AppAssumption, <2>9, FadesStepPreserves DEF AppInv, FadesNext, AppAssumption
  <2>10. CASE PrefetchNext
    BY AppAssumption, <2>10, PrefetchStepPreserves DEF AppInv, PrefetchNext, AppAssumption
  <2>11. CASE PowerNext
    BY AppAssumption, <2>11, PowerStepPreserves DEF AppInv, PowerNext, AppAssumption
  <2>12. CASE ProcessNext
    BY AppAssumption, <2>12, ProcessStepPreserves DEF AppInv, ProcessNext, AppAssumption
  <2>13. CASE ControlsNext
    BY AppAssumption, <2>13, ControlsStepPreserves DEF AppInv, ControlsNext, AppAssumption
  <2>14. CASE WindowNext
    BY <2>14, WindowStepPreserves DEF AppInv, WindowNext
  <2>15. CASE GateNext
    BY <2>15 DEF AppInv, GateNext
  <2>16. CASE UNCHANGED vars
    BY <2>16, AppInvStutters
  <2> QED BY <2>1, <2>2, <2>3, <2>4, <2>5, <2>6, <2>7, <2>8, <2>9, <2>10, <2>11, <2>12, <2>13,
             <2>14, <2>15, <2>16 DEF Next
<1> QED BY <1>1, AppInvStarts, PTL DEF Spec

-----------------------------------------------------------------------------
(* The properties. *)

\* At any time one engine owns the Apple session, none lives on after the app has quit, and a
\* page has been given the bundles at most once.
THEOREM EngineAndPageAreOneAlways == Spec => []EngineAndPageAreOne
<1>1. AppInv => EngineAndPageAreOne
  BY ProcessOneIsEnough DEF AppInv, EngineAndPageAreOne, Process!IInv, Window!IInv
<1> QED BY <1>1, AppInvStays, PTL

\* Credentials stay deleted after a sign-out whatever writes are under way, the page wears the
\* theme that was chosen once no handler waits, and the one socket to Discord shows no song of a
\* socket before it.
THEOREM ChoicesAreKeptAlways == Spec => []ChoicesAreKept
<1>1. AppInv => ChoicesAreKept
  BY ThemeConsequences DEF AppInv, ChoicesAreKept, Store!IInv, Presence!IInv
<1> QED BY <1>1, AppInvStays, PTL

\* The desktop's records name Adam for the schemes the user chose, each link that arrives is
\* acted on at most once, across restarts and reloads, and no other program loses its place.
THEOREM LinksAreOpenedOnceAlways == Spec => LinksAreOpenedOnce
<1>1. AppInv => (part = "links" => (Links!TypeOK /\ Links!ClaimsAreChosen /\ Links!LinksOnce))
  BY DEF AppInv, Links!IInv
<1>2. AppInv /\ [Next]_vars => [part = "links" => Links!OthersKept]_vars
  <2> SUFFICES ASSUME AppInv, Next, part = "links" PROVE Links!OthersKept
    OBVIOUS
  <2>1. Links!Next
    BY DEF Next, StoreNext, ProcessNext, WindowNext, ThemeNext, ControlsNext, PresenceNext,
           LinksNext, PrefetchNext,
       FadesNext, MemoryNext, ScrobbleNext, LevelsNext, CommandsNext, GateNext, PowerNext
  <2> QED BY <2>1, AppAssumption, LinksStepKeepsOthers DEF AppInv, AppAssumption
<1> QED BY <1>1, <1>2, AppInvStays, PTL DEF Spec, LinksAreOpenedOnce

\* No ramp leaves a track's head unheard; the gain is of the track that plays, but for what a
\* reading that came too late did since the last track or switch; libvlc plays with it, but
\* after posts that crossed; and the power mode is the battery's, or the one it had when the
\* system's profile forbade to lower it.
THEOREM SoundIsItsOwnAlways == Spec => []SoundIsItsOwn
<1>1. AppInv => SoundIsItsOwn
  BY LevelsConsequences DEF AppInv, SoundIsItsOwn, Fades!IInv, Power!IInv
<1> QED BY <1>1, AppInvStays, PTL

\* With calls settled, what was switched off has left nothing in the store, each scrobble was
\* earned, no job is left without its page, the heart is Apple's rating unless it could not be
\* known, the desktop shows the song that plays, and a key is taken by the dialog that asked.
THEOREM UserIsObeyedAlways == Spec => []UserIsObeyed
<1>1. AppInv => UserIsObeyed
  BY MemoryConsequences, ScrobbleConsequences, PrefetchConsequences, CommandsConsequences
     DEF AppInv, UserIsObeyed
<1> QED BY <1>1, AppInvStays, PTL
=============================================================================
