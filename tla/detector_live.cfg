\* A driver and a service without the label: events of one wait while the
\* detector restarts the other, and it comes back from every restart.
CONSTANTS
  driver = driver  store = store
  r1 = r1  r2 = r2  r3 = r3
  Service = {driver, store}
  Labelled = {driver}
  BeginsWith <- MCBeginsWith
  Network = {driver}
  Request = {r1}
  Detector = Detector
  Timeout = 1
  MaxCrashes = 2
  CallsFail = TRUE
SPECIFICATION FairSpec
PROPERTIES
  EventsRead
