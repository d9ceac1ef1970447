CONSTANTS
  NoList = NoList
  Streams <- MCStreams
  Query <- MCQuery
SPECIFICATION Spec
INVARIANT FindsEveryEnumerator
CHECK_DEADLOCK FALSE
