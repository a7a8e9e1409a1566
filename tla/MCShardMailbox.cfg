SPECIFICATION Spec
CONSTANTS
  Command = {c1, c2, c3}
  Poster = {acceptor, worker}
  Dispatcher = dispatcher
  WakeupMax = 2
  MaxSessionEvents = 1
INVARIANTS NoLostWakeup StopNotMissed
PROPERTIES MailboxFairness StopCloses
CHECK_DEADLOCK FALSE
