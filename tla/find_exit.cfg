CONSTANTS
  Main = Main
  Handlers = {h1}
  Faults = {"throw"}
SPECIFICATION FairSpec
PROPERTY ExceptionsExit
