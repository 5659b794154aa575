SPECIFICATION Spec
CONSTANTS
  c1 = c1
  c2 = c2
  c3 = c3
  Callbacks = {c1, c2, c3}
  Required = {c1}
  Methods = {"GET", "POST"}
  Uris <- TheUris
  Paths <- ThePaths
  Threads = {t1, t2}
  MaxRoutes = 3
  Nothing = Nothing
  Names <- TheNames
  Registered <- TheRegistered
  Values <- TheValues
  Ends <- TheEnds
  MaxPairs = 2
INVARIANTS
  
  LastGivenIsRead
PROPERTIES
  AnswersAreStable
SYMMETRY Symmetry
CHECK_DEADLOCK FALSE
