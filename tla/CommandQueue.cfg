SPECIFICATION FairSpec
CONSTANTS
  Cmds = {c1, c2}
  Sockets = {s1, s2}
  NoSocket = NoSocket
  SendCap = 2
  TTL = 0
  MaxClock = 2
INVARIANTS TypeOK AtMostOnce VerdictIsReal LiveSessionIsSerial
PROPERTIES SettledIsFinal ImplementsPromise EverythingSettles
CHECK_DEADLOCK FALSE
