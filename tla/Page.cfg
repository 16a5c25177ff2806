SPECIFICATION Spec
CONSTANTS
  Parts = {"settings", "badge", "decor", "menu", "overlay", "backdrop", "events", "library",
           "account", "panel"}
  EventsRingSize = 2
  EventsChSize = 1
  EventsWireSize = 1
  EventsMaxChanges = 4
  EventsMaxIds = 5
  EventsMaxFaults = 1
  OverlayTiers = {2, 4, 6}
  OverlayVariantLists = {{1, 3}}
  OverlayMaxInputs = 2
  OverlayMaxOthers = 1
  LibraryLast = 1
  LibrarySize = 1
  LibraryCap = 1
  LibraryMaxItems = 3
  LibraryMaxChanges = 1
  LibraryMaxSyncs = 1
  LibraryMaxClicks = 1
  LibraryMaxFaults = 1
  PanelMaxJobs = 2
  PanelMaxUser = 2
  PanelMaxFaults = 1
  AccountMaxTries = 2
  AccountMaxFaults = 1
  MenuItems = {1, 2}
  MenuLinked = {1}
  MenuPage = 3
  MenuMaxMenus = 2
  MenuMaxAsks = 2
  MenuMaxUser = 1
  BehindAttempts = 1
  BehindBlurs = {1, 2}
  BehindMaxUser = 2
  BehindMaxFaults = 1
  SettingsMaxUser = 3
  SettingsMaxDrm = 2
  DecorAlbums = {1, 2}
  DecorMaxDom = 2
  DecorMaxTogs = 2
  DecorMaxFaults = 1
  BadgeMaxShows = 3
  BadgeMaxDom = 2
INVARIANTS PageShowsTheState PageAndEngineAgree
PROPERTIES StepsAreForward MenusAreTrue PageSettles
CHECK_DEADLOCK FALSE
