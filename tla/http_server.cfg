\* 2 connections and 2 workers, a queue of one that can be full, and 2 answers for each connection.
CONSTANTS
  Connections = {c1, c2}
  Workers = {w1, w2}
  MaxQueued = 1
  KeepAliveMax = 2
  MaxAsked = 1
  Stoppable = TRUE
  Faults = {"bind", "accept"}
SPECIFICATION FairSpec
INVARIANTS OneOwner NothingOutlivesListen NoLostWakeup
PROPERTIES ConnectionsEnd StopReturns ImplementsService
CHECK_DEADLOCK FALSE
