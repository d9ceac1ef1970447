CONSTANTS
  Cases <- MalformedCases
  MaxAddresses = 1
  RequestSize = 1
  BufferSize = 512
SPECIFICATION Spec
INVARIANT RefusesMalformed
CHECK_DEADLOCK FALSE
