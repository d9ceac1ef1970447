CONSTANTS
  NoList = NoList
  Streams <- MCStreams
  Query <- MCQuery
SPECIFICATION Spec
INVARIANTS
  TypeOK
  InStep
  FindsSmallEnumerators
CHECK_DEADLOCK FALSE
