CONSTANTS
  Threads = {t1, t2}
  Pool = {b1, b2}
  Used = {"socket_connection", "socket_listen", "connect", "recv", "accept", "closesocket"}
  SOCKETFD_MAX = 2
  NULL = NULL
SPECIFICATION FairSpec
INVARIANTS
  TypeOK
  OwnDescriptor
  NoCrash
  OneWaits
  CompletedBeforeUse
  NothingElseLeaks
PROPERTY CallsReturn
CONSTRAINT Kept
CHECK_DEADLOCK FALSE
