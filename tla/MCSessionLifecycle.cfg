SPECIFICATION Spec
CONSTANTS
  f1 = f1
  f2 = f2
  Fd = {f1, f2}
  Task = {t1}
  MaxAccepts = 1
  MaxConnects = 1
  MaxCommands = 2
  WakeupFd = 2
  NoConn = NoConn
  NoEntry = NoEntry
INVARIANTS OwnsDescriptor NoDescriptorLeak CallbacksPaired SentToOwnConnection EventsNameOwner
PROPERTIES MarkedIsClosed
CHECK_DEADLOCK FALSE
