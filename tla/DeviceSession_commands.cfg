\* One session, commands issued at any time, disconnects and stop.
CONSTANTS
  n1 = n1
  Nodes = {n1}
  Scanner = scanner
  ScanEnabled = TRUE
  OtherErrors = TRUE
  Lingering = {n1}
  MaxCommands = 3
SPECIFICATION Spec
INVARIANTS WorkerConfined
PROPERTIES CommandsInOrder
