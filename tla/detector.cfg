\* A driver and its store, whose name begins with that of the driver, two commands
\* that restart or uninstall either, a crash, and calls that may fail.
CONSTANTS
  driver = driver  store = store
  r1 = r1  r2 = r2  r3 = r3
  Service = {driver, store}
  Labelled = {driver, store}
  BeginsWith <- MCBeginsWith
  Network = {driver}
  Request = {r1, r2}
  Detector = Detector
  Timeout = 1
  MaxCrashes = 1
  CallsFail = TRUE
SPECIFICATION Spec
SYMMETRY Commands
INVARIANTS
  TypeOK
  AddressKnown
  FlagsCleared
PROPERTIES
  SparesEnded
