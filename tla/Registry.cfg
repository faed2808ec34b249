SPECIFICATION FairSpec
CONSTANTS
  Ids = {1, 2, 3}
  Listeners = {1}
  Callers = {2}
  Threads = {t1, t2}
  Acceptors = {t2}
  Ports = {1}
  Peers = {1}
  Backlog = 1
  Cleanups = {"quiet"}
INVARIANTS MuxCounted NothingUsedAfterDeletion
PROPERTIES ClosedIsDeleted AcceptReturns
CHECK_DEADLOCK FALSE
