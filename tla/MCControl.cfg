SPECIFICATION Spec
CONSTANTS
  Types <- MCTypes
  Refs <- MCRefs
  Callers = {"x", "y"}
  Selections <- MCSelections
  Ips <- MCIps
  Country <- MCCountry
  Interval = 2
  MaxVersion = 2
  EventCapacity = 1
  LastVersion = 3
  MaxBreaks = 1
CHECK_DEADLOCK FALSE
INVARIANTS BuildsIffSound SelectionSurvives ImportBuilds MergeKeepsRouting
PROPERTIES NoticedIsShown PollFollowed UiFollows
