SPECIFICATION FairSpec
CONSTANTS
  Heights = {10, 13}
  Lists <- MCLists
  Playback = TRUE
  OffsetBound = 2
INVARIANTS
  WindowsFit
PROPERTIES
  CursorStaysOnPage
  
