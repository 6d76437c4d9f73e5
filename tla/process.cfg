CONSTANTS
  Main = Main
  Handlers = {h1, h2}
  Faults = {"config", "connect", "thread", "bind", "accept", "link", "probe", "throw", "kill"}
SPECIFICATION FairSpec
INVARIANT ManagerOutlivesChecks
INVARIANT HealthyMeansConnected
INVARIANT AlarmsExplained
PROPERTY RoundsEnd
PROPERTY ChecksEnd
