SPECIFICATION PlayerSpec
CONSTANTS
  Parts = {"queue", "feed", "sync", "pipes", "sound"}
  MaxPipes = 3
  MaxChanges = 4
  MaxLength = 4
  HoldMax = 2
  Quota = 3
  Behind = 1
  MaxSoundSeeks = 1
  Last = 1
  Ahead = 1
  Raw = 10
  MaxSeeks = 3
  MaxFaults = 1
  MaxUser = 2
  MaxStalls = 2
INVARIANTS PositionIsTheTrack FeedIsOne PictureAndSoundAgree PagesAreGivenBack SoundIsWhole
PROPERTIES PlayerSettles
CHECK_DEADLOCK FALSE
