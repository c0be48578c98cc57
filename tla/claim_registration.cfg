\* A driver crashes while the detector reads events.
CONSTANTS
  driver = driver  store = store
  r1 = r1  r2 = r2  r3 = r3
  Service = {driver}
  Labelled = {driver}
  BeginsWith <- MCBeginsWith
  Network = {driver}
  Request = {}
  Detector = Detector
  Timeout = 1
  MaxCrashes = 1
  CallsFail = FALSE
SPECIFICATION SeenSpec
INVARIANTS
  RegistrationFixed
