\* Two sessions and the scan loop compete for the adapter, and a link of
\* one may be lost as late as in its next session; no commands.
CONSTANTS
  n1 = n1
  n2 = n2
  Nodes = {n1, n2}
  Scanner = scanner
  ScanEnabled = TRUE
  OtherErrors = TRUE
  Lingering = {n1}
  MaxCommands = 0
SPECIFICATION FairSpec
INVARIANTS AdapterExclusive AdapterAccounted StatusTruthful
PROPERTIES AdvertisementNotLost StopTerminates AttemptFollows ProcessEnds
