\* Texts of three characters, answers of three elements, clients of three
\* options; two ranges of two addresses; 99 days and 2^24 for 2^63.
CONSTANTS
  MaxDays = 99
  Half = 16777216
  PerRange = 2
  Ranges = 2
  Durations <- MCDurations
  Chars <- MCChars
  Illegal = {"NUL"}
  MaxText = 3
  Elements <- MCElements
  MaxElements = 3
  Structs <- MCStructs
  Systems <- MCSystems
  Settings <- MCSettingsLists
  DeviceLists <- MCDeviceLists
  NamesAsked <- MCNamesAsked
  Ports <- MCPorts
  Switches <- MCSwitches
  Options <- MCOptions
  MaxOptions = 3
  PoolSizes <- MCPoolSizes
  Secrets <- MCSecrets
  MaxSecrets = 5
SPECIFICATION Spec
CHECK_DEADLOCK FALSE
INVARIANTS IntervalKept TextsArrive AnswersRead EmbeddedSurvives LookupsSound
           SwitchAsAsked OptionsHonoured PlaceholdersDistinct
