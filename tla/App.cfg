SPECIFICATION Spec
CONSTANTS
  Parts = {"store", "process", "window", "theme", "controls", "presence", "links", "memory",
           "scrobbles", "prefetch", "commands", "fades", "levels", "power", "gate"}
  CommandsSongs = 2
  CommandsActions = {"love", "seek"}
  CommandsKeys = {"l", "r", "Esc"}
  CommandsEscape = "Esc"
  CommandsMaxUser = 2
  CommandsMaxFaults = 1
  ThemeMaxChanges = 4
  LevelsTracks = {1, 2, 3}
  LevelsLossless = {2}
  LevelsSoft = {3}
  LevelsMaxUser = 1
  LevelsMaxPosts = 2
  StoreKeys = {"account", "resume"}
  StoreMaxWrites = 2
  StoreMaxLoads = 1
  StoreMaxFaults = 1
  StoreMaxStops = 1
  PresencePaths = 2
  PresenceMaxSocks = 8
  PresenceMaxSongs = 3
  PresenceMaxFaults = 3
  MemoryTracks = {1, 2}
  MemoryHistMax = 2
  MemoryMaxMoves = 2
  MemoryMaxToggles = 2
  MemoryMaxCalls = 1
  MemoryMaxFaults = 1
  LinksSchemes = {"music"}
  LinksOther = "other"
  LinksAll = {1, 2, 3}
  LinksAbroad = {1, 3}
  LinksPages = {2}
  LinksNotices = {}
  LinksMaxFaults = 1
  LinksMaxChanges = 1
  ScrobbleMaxPlays = 2
  ScrobbleMaxJoins = 1
  ScrobbleMaxFaults = 1
  FadesFull = 2
  FadesMaxTracks = 3
  FadesMaxUser = 1
  PrefetchSlots = {1, 2}
  PrefetchPaged = {1}
  PrefetchMaxContexts = 3
  PowerMaxChanges = 3
  ProcessFiles = {"music", "core"}
  ProcessMain = "music"
  ProcessMaxEngines = 3
  ProcessMaxFaults = 1
  ControlsMaxUpdates = 3
  ControlsMaxFaults = 3
  WindowMaxLoads = 2
  WindowMaxFaults = 2
  WindowMaxMinis = 2
INVARIANTS EngineAndPageAreOne ChoicesAreKept UserIsObeyed 
PROPERTIES LinksAreOpenedOnce AppRecovers
CHECK_DEADLOCK FALSE
