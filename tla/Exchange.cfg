CONSTANTS
  Cases <- AllCases
  MaxAddresses = 2
  RequestSize = 3
  BufferSize = 512
SPECIFICATION Spec
INVARIANTS
  ExchangeTypeOK
  RequestArrives
  AsksForItsPdb
  RefusesIncomplete
  AnswersComplete
  LooksUpTheServer
  TakesPlainUrls
  FreesAddresses
CHECK_DEADLOCK FALSE
