CONSTANTS
  NoList = NoList
  Streams <- LargeStreams
  Query <- LargeQuery
SPECIFICATION Spec
INVARIANT ExistingMembersAreFound
CHECK_DEADLOCK FALSE
