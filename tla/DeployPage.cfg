SPECIFICATION Spec
CONSTANTS
  long = long
  short = short
  other = other
  u1 = u1
  u2 = u2
  none = none
  nowhere = nowhere
  Name <- ThreeNames
  Url <- TwoUrls
  NoName = none
  NoUrl = nowhere
  FirstWord <- Words
  Stored <- TwoMethods
  MaxOpens = 2
  MaxEdits = 1
  MaxDeploys = 1
  MaxFailures = 1
INVARIANTS  UrlFollows
PROPERTIES SaveKeeps 
CHECK_DEADLOCK FALSE
