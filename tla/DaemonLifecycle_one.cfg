\* One daemon at a time, started again after it ended or died.
CONSTANTS
  Daemons = {d1}
  Clients = {c1, c2}
  None = None
  Overlap = FALSE
  AwaitsClients = TRUE
  WriteErrors = TRUE
SPECIFICATION FairSpec
INVARIANTS RequestIsHeard
PROPERTIES NotRunningIsTrue StopEnds RequestEnds
