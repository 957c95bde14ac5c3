SPECIFICATION Spec
CONSTANTS
  MaxInt = 7
  Keys = {1, 2, 3}
  Resets = {1, 2, 3}
  Floors = {1, 4, 7}
  Steps = {1, 3, 7}
  Entries <- Listed
  MaxListed = 3
  Places <- TwoPlaces
  Durations <- WeekOrFiveHours
  Instants <- ThreeInstants
  Unusable = Unusable
  None = None
  MaxFields = 4
  SettingKeys <- AllKeys
  SettingValues <- ValuesAt
  Bad = Bad
  Second = 10
  MaxDuration = 127
  Defaults <- DefaultConfig
  MaxKeys = 2
INVARIANTS RankIsPriority NewNeverDefers NoSharedFile OnlyOfAWeek WeekIsFound EngineMayRunIt
PROPERTIES LaterLowersOnlyItself LeavesForCause DeadlineStands LastsAsWritten
