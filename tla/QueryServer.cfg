CONSTANTS
  Nothing = Nothing
  Malformed = Malformed
  Workers = {w1, w2}
  Inodes = {i1, i2, i3}
  Conns = {c1, c2, c3}
  KeepAliveMax = 2
  MaxRequests = 2
  Ids <- OneId
  Keys <- OneKey
  Upstream = {"typed", "garbage"}
  DiskFull = FALSE
SPECIFICATION ServerSpec
INVARIANTS
  ServerTypeOK
  EveryConnectionHasOneHolder
  AnswersWhatWasAsked
PROPERTIES
  ImplementsQueryService
  EveryRequestEnds
  ThreadsComeBack
