\* A daemon is started while the one before is still shutting down.
CONSTANTS
  Daemons = {d1, d2}
  Clients = {c1}
  None = None
  Overlap = TRUE
  AwaitsClients = TRUE
  WriteErrors = FALSE
SPECIFICATION Spec
PROPERTIES NotRunningIsTrue
