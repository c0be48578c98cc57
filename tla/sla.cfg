\* SLAs with good and bad URLs, deaths at any step, calls that may fail.
CONSTANTS
  sensor = sensor  actuator = actuator  func = func  broken = broken
  h1 = h1  h2 = h2  site = site
  Source = {sensor, actuator, func, broken}
  HostOf <- MCHostOf
  KindOf <- MCKindOf
  Host = {h1, h2, site}
  Bad = Bad
  Sla <- MCSla
  OwnStore = OwnStore
  MayFail = TRUE
  None = None
SPECIFICATION Spec
INVARIANTS
  TypeOK
  DatasourcesUsable
  ReloadSurvives
  SlaHonoured
