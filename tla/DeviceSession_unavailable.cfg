\* One session whose BLE calls may time out at any step.
CONSTANTS
  n1 = n1
  Nodes = {n1}
  Scanner = scanner
  ScanEnabled = FALSE
  OtherErrors = TRUE
  Lingering = {n1}
  MaxCommands = 0
SPECIFICATION Spec
INVARIANTS UnavailableSessionWaits
