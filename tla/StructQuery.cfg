CONSTANTS
  NoList = NoList
  Streams <- MCStreams
  Query <- MCQuery
SPECIFICATION Spec
INVARIANTS
  TypeOK
  InStep
  FindsRegularMembers
CHECK_DEADLOCK FALSE
